-------------------------- MODULE ConnectionProofs --------------------------
(***************************************************************************)
(* Proofs about Connection, for every number of pings, every libuv and     *)
(* every bound.  First the inductive invariant, action by action, from     *)
(* what each operator of NetClient does (NetClientProofs); then the        *)
(* properties the runs check and the refinement of ConnLifecycle.          *)
(***************************************************************************)
EXTENDS Connection, NetClientProofs

-----------------------------------------------------------------------------
(* A callback in a connection that was opened settles d writes: an open     *)
(* connection may start others and may be closed, a closing one may not.   *)
Moved(r, s, d) ==
  /\ r.handle = "open" => /\ s.handle \in {"open", "closing"} /\ s.owed + d >= r.owed
                          /\ "nullStream" \in s.faults => "nullStream" \in r.faults
  /\ r.handle = "closing" => s.handle = "closing" /\ s.owed + d = r.owed

Stays(r, s) == r.st \in Ended => s.st \in Ended

-----------------------------------------------------------------------------
(* The inductive invariant *)

(* A connection that has not been begun is consistent.                     *)
LEMMA IndInit == Init => IndInv
<1> SUFFICES ASSUME NEW k \in Kinds, conn = NewConnection(k), busy = FALSE
             PROVE  IndInv
  BY DEF Init
<1>1. conn \in Connections
  BY DEF NewConnection, Connections, States, Handles, Timers
<1>2. /\ conn.st = "NotConnected" /\ conn.handle = "none" /\ ~conn.stream
      /\ conn.dels = 0 /\ ~conn.reading /\ conn.owed = 0 /\ conn.timer = "none"
      /\ conn.sends = 0 /\ conn.obj = "live" /\ conn.why = {} /\ conn.faults = {}
  BY DEF NewConnection
<1>3. HandleInv(conn, FALSE)
  BY <1>2 DEF HandleInv
<1>4. StateInv(conn, FALSE)
  BY <1>2 DEF StateInv
<1>5. BudgetInv(conn)
  BY <1>2, PingToSendAssumption DEF BudgetInv
<1> QED
  BY <1>1, <1>3, <1>4, <1>5 DEF IndInv, Ind

(* One message: the record is Received first, then the application acts.   *)
LEMMA IndMessage ==
  IndInv /\ Message => IndInv' /\ Moved(conn, conn', 0)
<1> SUFFICES ASSUME IndInv, busy, ~Broken, busy' = busy,
                    NEW m \in Messages, NEW u \in Outcomes(conn),
                    conn' = Receive(conn, m, u)
             PROVE  IndInv' /\ Moved(conn, conn', 0)
  BY DEF Message
<1>0. conn.owed \in Nat
  BY DEF IndInv, Ind, Connections
<1> DEFINE g == [conn EXCEPT !.st = "Received"]
<1>1. /\ g \in Connections /\ Kept(conn, g) /\ g.st = "Received"
      /\ g.stream = conn.stream /\ g.handle = conn.handle /\ g.owed = conn.owed
      /\ g.reading = conn.reading /\ g.why = conn.why /\ g.faults = conn.faults
  BY DEF IndInv, Ind, Connections, States, Kept
<1>2. ~(g.stream /\ g.handle = "closing")
  BY <1>1 DEF IndInv, Ind, HandleInv
<1>3. u.others \in Nat /\ u.sent \in Nat /\ 1 + u.others \in Nat
  BY MaxOtherAssumption DEF Outcomes
<1>4. \/ conn' = g
      \/ conn.kind # "ClientOut" /\ conn' = Close(g, "version")
      \/ conn.kind # "ClientOut" /\ \E n \in Nat : conn' = Send(g, n, u.sent)
      \/ conn' = Fault(g, "message")
  <2>1. CASE conn.kind = "ServerIn"
    BY <1>1, <2>1 DEF Receive, ServerMessage, Messages, Kept
  <2>2. CASE conn.kind \in {"NodeIn", "NodeOut"}
    BY <1>1, <1>3, <2>2 DEF Receive, NodeMessage, Messages, Kept
  <2>3. CASE conn.kind = "ClientOut"
    BY <1>1, <2>3 DEF Receive, Kept
  <2> QED
    BY <2>1, <2>2, <2>3 DEF IndInv, Ind, Connections, Kinds, InKinds, OutKinds
<1> HIDE DEF g
<1>5. CASE conn' = g
  BY <1>0, <1>1, <1>5
  DEF IndInv, Ind, HandleInv, StateInv, BudgetInv, Moved, Stays, Ended, Broken, Kept
<1>6. CASE conn.kind # "ClientOut" /\ conn' = Close(g, "version")
  <2>1. Shut(g, conn', "version")
    BY <1>1, <1>2, <1>6, CloseEffect DEF Reasons
  <2> QED
    BY <1>0, <1>1, <1>6, <2>1
    DEF IndInv, Ind, HandleInv, StateInv, BudgetInv, Moved, Stays, Ended, Broken, Kept, Shut
<1>7. CASE conn.kind # "ClientOut" /\ \E n \in Nat : conn' = Send(g, n, u.sent)
  <2>1. /\ conn' \in Connections /\ Kept(g, conn')
        /\ Wrote(g, conn') \/ Crashed(g, conn') \/ Refused(g, conn', "send")
    BY <1>1, <1>2, <1>3, <1>7, SendEffect DEF Ended
  <2> QED
    BY <1>0, <1>1, <1>7, <2>1
    DEF IndInv, Ind, HandleInv, StateInv, BudgetInv, Moved, Stays, Ended, Broken, Kept, Wrote, Crashed, Refused
<1>8. CASE conn' = Fault(g, "message")
  <2>1. /\ conn' \in Connections /\ Kept(g, conn')
        /\ conn'.st = g.st /\ conn'.stream = g.stream /\ conn'.handle = g.handle
        /\ conn'.owed = g.owed /\ conn'.reading = g.reading /\ conn'.why = g.why
        /\ conn'.faults = g.faults \cup {"message"}
    BY <1>1, <1>8 DEF Fault, Connections, Faults, Kept
  <2> QED
    BY <1>0, <1>1, <2>1
    DEF IndInv, Ind, HandleInv, StateInv, BudgetInv, Moved, Stays, Ended, Broken, Kept
<1> QED
  BY <1>4, <1>5, <1>6, <1>7, <1>8

(* process() at the end of a callback, on a connection that has not broken.*)
LEMMA ProcessInd ==
  ASSUME NEW r, NEW u \in Outcomes(r), Ind(r, FALSE), r.handle \in {"open", "closing"},
         "nullStream" \notin r.faults
  PROVE  /\ Ind(Process(r, u), FALSE)
         /\ Moved(r, Process(r, u), 0) /\ Stays(r, Process(r, u))
<1> SUFFICES ASSUME NEW s, s = Process(r, u)
             PROVE  Ind(s, FALSE) /\ Moved(r, s, 0) /\ Stays(r, s)
  OBVIOUS
<1>1. /\ r \in Connections /\ r.sends \in Nat /\ r.owed \in Nat
      /\ u.sent \in Nat /\ u.read \in BOOLEAN /\ PingToSend \in Nat
      /\ r.kind \in Kinds /\ r.stream \in BOOLEAN
  BY PingToSendAssumption, MaxOtherAssumption DEF Ind, Connections, Outcomes
<1>2. CASE r.kind \in InKinds \/ (r.kind = "NodeOut" /\ r.st = "Received")
  <2>1. s = r
    BY <1>2, ProcessKind, ProcessPeerState
  <2>2. Ind(s, FALSE)
    BY <2>1
  <2>3. Moved(r, r, 0) /\ Stays(r, r)
    BY <1>1 DEF Moved, Stays
  <2> QED
    BY <2>1, <2>2, <2>3
<1>3. CASE r.kind \in OutKinds /\ r.st = "Closing"
  <2>1. s = Fault(r, "process")
    <3>1. CASE r.kind = "NodeOut"
      BY <1>3, <3>1, ProcessKind, ProcessPeerState
    <3>2. CASE r.kind = "ClientOut"
      BY <1>1, <1>3, <3>2, ProcessKind, ProcessClientState, ZenonT(30)
    <3> QED
      BY <1>3, <3>1, <3>2 DEF OutKinds
  <2>2. /\ s \in Connections /\ Kept(r, s) /\ s.st = r.st /\ s.stream = r.stream
        /\ s.handle = r.handle /\ s.owed = r.owed /\ s.reading = r.reading
        /\ s.why = r.why /\ s.faults = r.faults \cup {"process"}
    <3>1. r.faults \cup {"process"} \in SUBSET Faults
      BY <1>1 DEF Connections, Faults
    <3> QED
      BY <1>1, <2>1, <3>1 DEF Fault, Connections, Kept
  <2> QED
    BY <1>1, <1>3, <2>2 DEF Ind, HandleInv, StateInv, BudgetInv, Moved, Stays, Ended, Kept
<1>4. CASE r.kind \in OutKinds /\ r.st \in {"Sending", "Receiving"}
  <2> DEFINE more == IF r.kind = "ClientOut" /\ r.st = "Sending" THEN r.sends + 1
                     ELSE r.sends
  <2> DEFINE t == [r EXCEPT !.sends = more]
  <2>1. r.stream /\ r.handle = "open"
    BY <1>4 DEF Ind, HandleInv, StateInv
  <2>2. more \in Nat
    BY <1>1
  <2>3. s = DoRead(t, u.read)
    <3>1. CASE r.kind = "ClientOut" /\ r.st = "Sending"
      <4>1. t = [r EXCEPT !.sends = @ + 1]
        BY <3>1
      <4> QED
        <5>1. s = ProcessClient(r, u)
          BY <3>1, ProcessKind
        <5>2. ProcessClient(r, u) = DoRead([r EXCEPT !.sends = @ + 1], u.read)
          BY <1>1, <3>1, ProcessClientState
        <5> QED
          BY <4>1, <5>1, <5>2
    <3>2. CASE r.kind = "ClientOut" /\ r.st = "Receiving"
      <4>1. t = r
        BY <1>1, <3>2 DEF Connections
      <4> QED
        <5>1. s = ProcessClient(r, u)
          BY <3>2, ProcessKind
        <5>2. ProcessClient(r, u) = DoRead(r, u.read)
          BY <1>1, <3>2, ProcessClientState
        <5> QED
          BY <4>1, <5>1, <5>2
    <3>3. CASE r.kind = "NodeOut"
      <4>1. t = r
        BY <1>1, <3>3 DEF Connections
      <4> QED
        BY <1>4, <3>3, <4>1, ProcessKind, ProcessPeerState
    <3> QED
      BY <1>4, <3>1, <3>2, <3>3 DEF OutKinds
  <2>4. /\ t \in Connections /\ t.kind = r.kind /\ t.dels = r.dels /\ t.timer = r.timer
        /\ t.obj = r.obj /\ t.sends = more /\ t.stream /\ t.handle = "open"
        /\ t.owed = r.owed /\ t.why = r.why /\ t.faults = r.faults
    <3> HIDE DEF more
    <3> QED
      BY <1>1, <2>1, <2>2 DEF Connections
  <2> HIDE DEF t
  <2> HIDE DEF more
  <2>5. /\ s \in Connections /\ Kept(t, s)
        /\ \/ Started(t, s)
           \/ \E why \in {"read", "restart"} : Refused(t, s, why) /\ s.owed = t.owed
    BY <1>1, <2>3, <2>4, DoReadEffect
  <2>6. "done" \notin s.why \/ r.kind # "ClientOut"
    BY <2>1, <2>4, <2>5 DEF Ind, BudgetInv, Started, Refused
  <2>7. r.kind = "ClientOut" => s.sends <= 1 + PingToSend /\ s.sends >= 1
    BY <1>1, <1>4, <2>1, <2>4, <2>5 DEF Ind, BudgetInv, Kept, more
  <2>8. HandleInv(s, FALSE)
    BY <2>1, <2>4, <2>5 DEF Ind, HandleInv, Kept, Started, Refused
  <2>9. StateInv(s, FALSE)
    BY <2>1, <2>4, <2>5 DEF Ind, StateInv, Kept, Started, Refused
  <2>10. BudgetInv(s)
    BY <2>1, <2>4, <2>5, <2>6, <2>7 DEF Ind, BudgetInv, Kept, Started, Refused
  <2>11. Moved(r, s, 0) /\ Stays(r, s)
    BY <1>1, <1>4, <2>1, <2>4, <2>5 DEF Moved, Stays, Ended, Started, Refused
  <2> QED
    BY <2>5, <2>8, <2>9, <2>10, <2>11 DEF Ind
<1>5. CASE r.kind = "ClientOut" /\ r.st = "Received"
  <2>1. r.stream /\ r.handle = "open" /\ r.sends >= 1 /\ r.sends <= 1 + PingToSend
        /\ "done" \notin r.why
    BY <1>1, <1>5 DEF Ind, HandleInv, StateInv, BudgetInv, Moved, Stays, Ended
  <2>2. CASE r.sends >= 1 + PingToSend
    <3>1. s = Close(r, "done")
      BY <1>1, <1>5, <2>2, ProcessKind, ProcessClientState, ZenonT(30)
    <3>2. Shut(r, s, "done")
      BY <1>1, <2>1, <3>1, CloseEffect DEF Reasons
    <3> QED
      BY <1>1, <1>5, <2>1, <2>2, <3>2
      DEF Ind, HandleInv, StateInv, BudgetInv, Moved, Stays, Ended, Kept, Shut
  <2>3. CASE r.sends <= PingToSend
    <3>1. s = Send(r, 1, u.sent)
      BY <1>1, <1>5, <2>1, <2>3, ProcessKind, ProcessClientState, ZenonT(30)
    <3>2. /\ s \in Connections /\ Kept(r, s)
          /\ Wrote(r, s) \/ Crashed(r, s) \/ Refused(r, s, "send")
      <4>1. r \in Connections /\ u.sent \in Nat /\ r.stream /\ r.handle = "open"
        BY <1>1, <2>1
      <4>2. r.st \notin Ended
        BY <1>5 DEF Ended
      <4> QED
        BY <3>1, <4>1, <4>2, SendEffect
    <3>3. ~Crashed(r, s)
      BY <2>1 DEF Crashed
    <3> QED
      BY <1>1, <1>5, <2>1, <2>3, <3>2, <3>3
      DEF Ind, HandleInv, StateInv, BudgetInv, Moved, Stays, Ended, Kept, Wrote, Refused
  <2>4. r.sends >= 1 + PingToSend \/ r.sends <= PingToSend
    BY <1>1
  <2> QED
    BY <2>2, <2>3, <2>4
<1> QED
  BY <1>1, <1>2, <1>3, <1>4, <1>5 DEF Ind, StateInv, Kinds, OutKinds

-----------------------------------------------------------------------------
(* The other actions, one lemma each *)

(* onNewConnection keeps the inductive invariant.                          *)
LEMMA IndAccept ==
  IndInv /\ Accept => IndInv' /\ conn'.handle \in {"open", "closing"} /\ conn'.owed = 0 /\ Stays(conn, conn')
<1> SUFFICES ASSUME IndInv, ~busy, ~Broken, conn.kind \in InKinds, conn.handle = "none",
                    NEW u \in Outcomes(conn),
                    conn' = DoRead(Accepted(conn), u.read), busy' = busy
             PROVE  IndInv' /\ conn'.handle \in {"open", "closing"} /\ conn'.owed = 0 /\ Stays(conn, conn')
  BY DEF Accept, Idle
<1> DEFINE t == Accepted(conn)
<1>1. /\ t \in Connections /\ Kept(conn, t) /\ t.stream /\ t.handle = "open"
      /\ t.owed = conn.owed /\ t.why = conn.why /\ t.faults = conn.faults
  BY DEF IndInv, Ind, Accepted, Connections, States, Handles, Kept
<1> HIDE DEF t
<1>2. u.read \in BOOLEAN
  BY DEF Outcomes
<1>3. /\ conn' \in Connections /\ Kept(t, conn')
      /\ \/ Started(t, conn')
         \/ \E why \in {"read", "restart"} : Refused(t, conn', why) /\ conn'.owed = t.owed
  BY <1>1, <1>2, DoReadEffect DEF t
<1>4. conn.kind # "ClientOut"
  BY DEF InKinds
<1> QED
  BY <1>1, <1>3, <1>4
  DEF IndInv, Ind, HandleInv, StateInv, BudgetInv, Moved, Stays, Ended, Broken, Kept, Started, Refused

(* connect() keeps the inductive invariant.                                *)
LEMMA IndStartConnect ==
  IndInv /\ StartConnect => IndInv' /\ conn'.handle \in {"connecting", "failed"} /\ Stays(conn, conn')
<1> SUFFICES ASSUME IndInv, ~busy, ~Broken, conn.kind \in OutKinds, conn.handle = "none",
                    NEW ok \in BOOLEAN, conn' = Connect(conn, ok), busy' = busy
             PROVE  IndInv' /\ conn'.handle \in {"connecting", "failed"} /\ Stays(conn, conn')
  BY DEF StartConnect, Idle
<1>1. /\ conn' \in Connections
      /\ conn'.kind = conn.kind /\ conn'.dels = conn.dels /\ conn'.timer = conn.timer
      /\ conn'.obj = conn.obj /\ conn'.sends = 0 /\ conn'.stream
      /\ conn'.handle \in {"connecting", "failed"} /\ conn'.st = "Connecting"
      /\ conn'.owed = conn.owed /\ conn'.reading = conn.reading
      /\ conn'.why = conn.why /\ conn'.faults = conn.faults
  BY DEF IndInv, Ind, Connect, Connections, States, Handles
<1> QED
  BY <1>1, PingToSendAssumption DEF IndInv, Ind, HandleInv, StateInv, BudgetInv, Moved, Stays, Ended, Broken

(* onConnect keeps the inductive invariant.                                *)
LEMMA IndConnectDone ==
  IndInv /\ ConnectDone => IndInv' /\ conn'.handle \in {"failed", "open", "closing"} /\ Stays(conn, conn')
<1> SUFFICES ASSUME IndInv, ~busy, ~Broken, conn.handle = "connecting",
                    NEW ok \in BOOLEAN, NEW u \in Outcomes(conn),
                    conn' = OnConnect(conn, ok, u), busy' = busy
             PROVE  IndInv' /\ conn'.handle \in {"failed", "open", "closing"} /\ Stays(conn, conn')
  BY DEF ConnectDone, Idle
<1>1. CASE ~ok
  <2>1. /\ conn' \in Connections /\ Kept(conn, conn') /\ conn'.handle = "failed"
        /\ conn'.st = conn.st /\ conn'.stream = conn.stream
        /\ conn'.owed = conn.owed /\ conn'.reading = conn.reading
        /\ conn'.why = conn.why /\ conn'.faults = conn.faults
    BY <1>1 DEF IndInv, Ind, OnConnect, Connections, Handles, Kept
  <2> QED
    BY <2>1 DEF IndInv, Ind, HandleInv, StateInv, BudgetInv, Moved, Stays, Ended, Broken, Kept
<1>2. CASE ok
  <2> DEFINE r == [conn EXCEPT !.st = "Connected", !.handle = "open"]
  <2>1. conn' = Process(r, u)
    BY <1>2 DEF OnConnect
  <2>2. /\ r \in Connections /\ Kept(conn, r) /\ r.handle = "open" /\ r.st = "Connected"
        /\ r.stream = conn.stream /\ r.owed = conn.owed /\ r.reading = conn.reading
        /\ r.why = conn.why /\ r.faults = conn.faults /\ r.sends \in Nat
    BY DEF IndInv, Ind, Connections, States, Handles, Kept
  <2> HIDE DEF r
  <2>3. u.sent \in Nat /\ u.others \in Nat /\ 2 + 2 * u.others \in Nat
    BY MaxOtherAssumption DEF Outcomes
  <2>4. r.stream /\ conn.owed = 0 /\ ~conn.reading
    BY <2>2 DEF IndInv, Ind, HandleInv
  <2>5. CASE conn.kind = "ClientOut"
    <3> DEFINE t == [r EXCEPT !.sends = 0]
    <3>1. conn' = Send(t, 1, u.sent)
      <4>1. conn' = ProcessClient(r, u)
        BY <2>1, <2>2, <2>5, ProcessKind DEF Kept
      <4>2. ProcessClient(r, u) = Send([r EXCEPT !.sends = 0], 1, u.sent)
        BY <2>2, ProcessClientState
      <4> QED
        BY <4>1, <4>2
    <3>2. /\ t \in Connections /\ t.kind = r.kind /\ t.dels = r.dels
          /\ t.timer = r.timer /\ t.obj = r.obj /\ t.sends = 0 /\ t.handle = "open"
          /\ t.st = "Connected" /\ t.stream /\ t.owed = r.owed /\ t.reading = r.reading
          /\ t.why = r.why /\ t.faults = r.faults
      BY <2>2, <2>4 DEF Connections
    <3> HIDE DEF t
    <3>3. /\ conn' \in Connections /\ Kept(t, conn')
          /\ Wrote(t, conn') \/ Refused(t, conn', "send")
      BY <2>3, <3>1, <3>2, SendEffect DEF Ended, Crashed
    <3> QED
      BY <2>2, <2>4, <2>5, <3>2, <3>3, PingToSendAssumption
      DEF IndInv, Ind, HandleInv, StateInv, BudgetInv, Moved, Stays, Ended, Broken, Kept, Wrote, Refused
  <2>6. CASE conn.kind = "NodeOut"
    <3> DEFINE t == Send(r, 2 + 2 * u.others, u.sent)
    <3>1. conn' = [t EXCEPT !.timer = "on"]
      BY <2>1, <2>2, <2>6, ProcessKind, ProcessPeerState DEF Kept
    <3>2. /\ t \in Connections /\ Kept(r, t)
          /\ Wrote(r, t) \/ Refused(r, t, "send")
      BY <2>2, <2>3, <2>4, SendEffect DEF Ended, Crashed
    <3> HIDE DEF t
    <3>3. /\ conn' \in Connections /\ conn'.kind = t.kind /\ conn'.dels = t.dels
          /\ conn'.obj = t.obj /\ conn'.sends = t.sends /\ conn'.timer = "on"
          /\ conn'.st = t.st /\ conn'.stream = t.stream /\ conn'.handle = t.handle
          /\ conn'.owed = t.owed /\ conn'.reading = t.reading /\ conn'.why = t.why
          /\ conn'.faults = t.faults
      BY <3>1, <3>2 DEF Connections, Timers
    <3> QED
      BY <2>2, <2>4, <2>6, <3>2, <3>3
      DEF IndInv, Ind, HandleInv, StateInv, BudgetInv, Moved, Stays, Ended, Broken, Kept, Wrote, Refused
  <2>7. conn.kind \in {"ClientOut", "NodeOut"}
    BY DEF IndInv, Ind, HandleInv, OutKinds
  <2> QED
    BY <2>5, <2>6, <2>7
<1> QED
  BY <1>1, <1>2

(* The start of onRead keeps the inductive invariant.                      *)
LEMMA IndReadData == IndInv /\ ReadData => IndInv'
<1> SUFFICES ASSUME IndInv, ~Broken, conn.reading, busy' = TRUE, conn' = conn
             PROVE  IndInv'
  BY DEF ReadData, Idle
<1> QED
  BY DEF IndInv, Ind, HandleInv, StateInv, BudgetInv, Broken

(* The end of onRead keeps the inductive invariant.                        *)
LEMMA IndReadDone ==
  IndInv /\ ReadDone => IndInv' /\ Moved(conn, conn', 0)
<1> SUFFICES ASSUME IndInv, busy, ~Broken, NEW u \in Outcomes(conn),
                    conn' = Process(conn, u), busy' = FALSE
             PROVE  IndInv' /\ Moved(conn, conn', 0)
  BY DEF ReadDone
<1>1. Ind(conn, FALSE) /\ conn.handle \in {"open", "closing"}
  BY DEF IndInv, Ind, HandleInv, StateInv, Broken
<1>2. Ind(conn', FALSE) /\ Moved(conn, conn', 0)
  BY <1>1, ProcessInd DEF Broken
<1> QED
  BY <1>2 DEF IndInv

(* onRead without data keeps the inductive invariant.                      *)
LEMMA IndReadStop ==
  IndInv /\ ReadStop => IndInv' /\ Moved(conn, conn', 0) /\ Stays(conn, conn')
<1> SUFFICES ASSUME IndInv, ~busy, ~Broken, conn.reading, NEW why \in {"eof", "zero"},
                    conn' = Close(conn, why), busy' = busy
             PROVE  IndInv' /\ Moved(conn, conn', 0) /\ Stays(conn, conn')
  BY DEF ReadStop, Idle
<1>0. conn.owed \in Nat
  BY DEF IndInv, Ind, Connections
<1>1. conn \in Connections /\ conn.handle = "open" /\ conn.stream
  BY DEF IndInv, Ind, HandleInv
<1>2. Shut(conn, conn', why)
  BY <1>1, CloseEffect DEF Reasons
<1> QED
  BY <1>0, <1>1, <1>2
  DEF IndInv, Ind, HandleInv, StateInv, BudgetInv, Moved, Stays, Ended, Broken, Kept, Shut

(* onTimer keeps the inductive invariant.                                  *)
LEMMA IndTimerFires ==
  IndInv /\ TimerFires => IndInv' /\ Moved(conn, conn', 0) /\ Stays(conn, conn')
<1> SUFFICES ASSUME IndInv, ~busy, ~Broken, conn.timer = "on", conn.handle = "open",
                    NEW u \in Outcomes(conn),
                    conn' = OnTimer(conn, u), busy' = busy
             PROVE  IndInv' /\ Moved(conn, conn', 0) /\ Stays(conn, conn')
  BY DEF TimerFires, Idle
<1>1. /\ conn \in Connections /\ conn.stream /\ conn.kind = "NodeOut"
      /\ conn.st \notin Ended
  BY DEF IndInv, Ind, HandleInv, StateInv, Ended
<1>2. u.sent \in Nat /\ 1 + u.others \in Nat
  BY MaxOtherAssumption DEF Outcomes
<1>3. /\ conn' \in Connections /\ Kept(conn, conn')
      /\ Wrote(conn, conn') \/ Refused(conn, conn', "send")
  BY <1>1, <1>2, SendEffect DEF OnTimer, Crashed
<1> QED
  BY <1>1, <1>3
  DEF IndInv, Ind, HandleInv, StateInv, BudgetInv, Moved, Stays, Ended, Broken, Kept, Wrote, Refused

(* onWrite keeps the inductive invariant.                                  *)
LEMMA IndWriteDone ==
  IndInv /\ WriteDone => IndInv' /\ Moved(conn, conn', 1) /\ Stays(conn, conn')
<1> SUFFICES ASSUME IndInv, ~busy, ~Broken, conn.handle \in {"open", "closing"},
                    conn.owed > 0, NEW ok \in BOOLEAN, NEW u \in Outcomes(conn),
                    conn' = OnWrite(conn, ok, u), busy' = busy
             PROVE  IndInv' /\ Moved(conn, conn', 1) /\ Stays(conn, conn')
  BY DEF WriteDone, Idle
<1> DEFINE held == conn.st \in {"Sending", "Receiving", "Received"}
<1> DEFINE a == IF held THEN conn ELSE Fault(conn, "onWrite")
<1> DEFINE less == conn.owed - 1
<1> DEFINE b == [a EXCEPT !.owed = less]
<1>1. conn' = IF ok THEN Process(b, u) ELSE Close(b, "write")
  <2>1. [a EXCEPT !.owed = @ - 1] = b
    BY DEF IndInv, Ind, Connections, Fault
  <2> HIDE DEF b
  <2> QED
    BY <2>1 DEF OnWrite
<1>2. /\ a \in Connections /\ Kept(conn, a) /\ a.st = conn.st /\ a.stream = conn.stream
      /\ a.handle = conn.handle /\ a.owed = conn.owed /\ a.reading = conn.reading
      /\ a.why = conn.why /\ a.faults \in {conn.faults, conn.faults \cup {"onWrite"}}
  <2>1. conn.faults \cup {"onWrite"} \in SUBSET Faults /\ conn \in Connections
    BY DEF IndInv, Ind, Connections, Faults
  <2>2. CASE held
    BY <2>1, <2>2 DEF Kept
  <2>3. CASE ~held
    BY <2>1, <2>3 DEF Kept, Fault, Connections
  <2> QED
    BY <2>2, <2>3
<1>3. less \in Nat /\ conn.owed \in Nat /\ conn.owed = less + 1
  BY DEF IndInv, Ind, Connections
<1> HIDE DEF a, less
<1>4. /\ b \in Connections /\ Kept(conn, b) /\ b.st = conn.st /\ b.stream = conn.stream
      /\ b.handle = conn.handle /\ b.owed = less /\ b.reading = conn.reading
      /\ b.why = conn.why /\ b.faults \in {conn.faults, conn.faults \cup {"onWrite"}}
  BY <1>2, <1>3 DEF Connections, Kept
<1> HIDE DEF b
<1>5. Ind(b, FALSE)
  BY <1>4 DEF IndInv, Ind, HandleInv, StateInv, BudgetInv, Moved, Stays, Ended, Broken, Kept
<1>6. Ind(conn', FALSE) /\ Moved(b, conn', 0) /\ Stays(b, conn')
  <2>1. CASE ok
    <3>1. u \in Outcomes(b)
      BY <1>4 DEF Outcomes, Kept
    <3>2. b.handle \in {"open", "closing"} /\ "nullStream" \notin b.faults
      BY <1>4 DEF Broken
    <3> QED
      BY <1>1, <1>5, <2>1, <3>1, <3>2, ProcessInd
  <2>2. CASE ~ok
    <3>1. ~(b.stream /\ b.handle = "closing")
      BY <1>5 DEF Ind, HandleInv
    <3>2. Shut(b, conn', "write")
      BY <1>1, <1>4, <2>2, <3>1, CloseEffect DEF Reasons
    <3>3. b.handle \in {"open", "closing"}
      BY <1>4
    <3> QED
      BY <1>3, <1>4, <1>5, <3>2, <3>3
      DEF Ind, HandleInv, StateInv, BudgetInv, Moved, Stays, Ended, Kept, Shut
  <2> QED
    BY <2>1, <2>2
<1>7. busy' = FALSE
  BY DEF IndInv, Ind
<1>8. Moved(conn, conn', 1) /\ Stays(conn, conn')
  <2>1. conn'.owed \in Nat
    BY <1>6 DEF Ind, Connections
  <2> QED
    BY <1>3, <1>4, <1>6, <2>1 DEF Moved, Stays, Kept
<1> QED
  BY <1>6, <1>7, <1>8 DEF IndInv

(* onClose keeps the inductive invariant.                                  *)
LEMMA IndCloseDone ==
  IndInv /\ CloseDone => IndInv' /\ conn'.handle = "closed" /\ conn'.owed = 0 /\ Stays(conn, conn')
<1> SUFFICES ASSUME IndInv, ~busy, ~Broken, conn.handle = "closing", conn.owed = 0,
                    conn' = OnClose(conn), busy' = busy
             PROVE  IndInv' /\ conn'.handle = "closed" /\ conn'.owed = 0 /\ Stays(conn, conn')
  BY DEF CloseDone, Idle
<1> DEFINE told == ConnectionClosed(conn)
<1> DEFINE more == told.dels + 1
<1> DEFINE gone == [told EXCEPT !.handle = "closed", !.dels = more, !.st = "Closed"]
<1>1. conn' = IF told.obj = "freed" THEN Fault(gone, "useAfterFree") ELSE gone
  BY DEF OnClose
<1>2. /\ told \in Connections /\ told.kind = conn.kind /\ told.dels = conn.dels
      /\ told.sends = conn.sends /\ told.stream = conn.stream
      /\ told.owed = conn.owed /\ told.reading = conn.reading
      /\ told.why = conn.why /\ told.faults = conn.faults
      /\ told.timer = "on" => conn.timer = "on" /\ conn.kind = "ClientOut"
      /\ told.obj = IF conn.kind = "ClientOut" THEN conn.obj ELSE "freed"
  BY DEF IndInv, Ind, ConnectionClosed, Connections, Timers
<1> HIDE DEF told
<1>3. more \in Nat /\ more = 1
  BY <1>2 DEF IndInv, Ind, HandleInv
<1> HIDE DEF more
<1>4. /\ gone \in Connections
      /\ gone.handle = "closed" /\ gone.dels = 1 /\ gone.st = "Closed"
      /\ gone.kind = told.kind /\ gone.timer = told.timer /\ gone.sends = told.sends
      /\ gone.obj = told.obj /\ gone.stream = told.stream /\ gone.owed = told.owed
      /\ gone.reading = told.reading /\ gone.why = told.why /\ gone.faults = told.faults
  BY <1>2, <1>3 DEF Connections, States, Handles, Kept
<1> HIDE DEF gone
<1>5. /\ conn' \in Connections /\ Kept(gone, conn') /\ conn'.st = gone.st
      /\ conn'.stream = gone.stream /\ conn'.handle = gone.handle
      /\ conn'.owed = gone.owed /\ conn'.reading = gone.reading /\ conn'.why = gone.why
      /\ conn'.faults \in {gone.faults, gone.faults \cup {"useAfterFree"}}
  <2>1. gone.faults \cup {"useAfterFree"} \in SUBSET Faults
    BY <1>4 DEF Connections, Faults
  <2>2. CASE told.obj = "freed"
    BY <1>1, <1>4, <2>1, <2>2 DEF Fault, Connections, Kept
  <2>3. CASE told.obj # "freed"
    BY <1>1, <1>4, <2>3 DEF Kept
  <2> QED
    BY <2>2, <2>3
<1> QED
  BY <1>2, <1>4, <1>5
  DEF IndInv, Ind, HandleInv, StateInv, BudgetInv, Moved, Stays, Ended, Broken, Kept

(* So does a step that changes nothing.                                    *)
LEMMA IndStutter == IndInv /\ UNCHANGED vars => IndInv'
BY DEF IndInv, vars

(* The inductive invariant holds throughout.                               *)
THEOREM Invariance == Spec => []IndInv
<1>1. IndInv /\ [Next]_vars => IndInv'
  BY IndAccept, IndStartConnect, IndConnectDone, IndReadData, IndMessage, IndReadDone,
     IndReadStop, IndWriteDone, IndTimerFires, IndCloseDone, IndStutter
  DEF Next
<1> QED
  BY <1>1, IndInit, PTL DEF Spec

-----------------------------------------------------------------------------
(* The properties of the runs *)

(* Every field of the connection keeps its shape.                          *)
THEOREM TypeCorrect == Spec => []TypeOK
<1>1. IndInv => TypeOK
  BY DEF IndInv, Ind, TypeOK
<1> QED
  BY <1>1, Invariance, PTL

(* Nothing of libuv leads back to a connection that has been freed, for    *)
(* every number of pings and peers.                                        *)
THEOREM FreedQuiescence == Spec => []FreedIsQuiescent
<1>1. IndInv => FreedIsQuiescent
  BY DEF IndInv, Ind, HandleInv, FreedIsQuiescent
<1> QED
  BY <1>1, Invariance, PTL

(* close() may be called from anywhere any number of times: the handle is  *)
(* deleted once, after its close callback.                                 *)
THEOREM SingleDeletion == Spec => []DeletedOnce
<1>1. IndInv => DeletedOnce
  BY DEF IndInv, Ind, HandleInv, DeletedOnce
<1> QED
  BY <1>1, Invariance, PTL

(* A client never counts more than its handshake and its pings, and has    *)
(* counted the handshake when it reads.                                    *)
THEOREM Budget == Spec => []ClientBudget
<1>1. IndInv => ClientBudget
  BY DEF IndInv, Ind, HandleInv, BudgetInv, ClientBudget
<1> QED
  BY <1>1, Invariance, PTL

(* A NULL stream is used only in the message loop, by a connection that    *)
(* closed itself there.                                                    *)
THEOREM BreakingNeedsClose == Spec => []BreaksOnlyAfterCloseInLoop
<1>1. IndInv => BreaksOnlyAfterCloseInLoop
  BY DEF IndInv, Ind, StateInv, BreaksOnlyAfterCloseInLoop, Broken
<1> QED
  BY <1>1, Invariance, PTL

(* RevivedOnlyInLoop: every handler but the message loop leaves a closing  *)
(* connection closing (the loop is the code that overwrites Closing).      *)
THEOREM RevivalNeedsLoop == Spec => RevivedOnlyInLoop
<1>1. IndInv /\ [Next]_vars => [conn.st \in Ended /\ conn'.st \notin Ended => busy]_vars
  <2> SUFFICES ASSUME IndInv, Next, ~busy
               PROVE  ~(conn.st \in Ended /\ conn'.st \notin Ended)
    BY DEF IndInv, Ind
  <2>1. Stays(conn, conn')
    <3>1. ReadData => Stays(conn, conn')
      BY DEF ReadData, Stays
    <3> QED
      BY <3>1, IndAccept, IndStartConnect, IndConnectDone, IndReadStop, IndWriteDone,
         IndTimerFires, IndCloseDone
      DEF Next, Message, ReadDone
  <2> QED
    BY <2>1 DEF Stays
<1> QED
  BY <1>1, Invariance, PTL DEF Spec, RevivedOnlyInLoop

-----------------------------------------------------------------------------
(* The refinement *)

(* The phase of the abstract connection, as Lifecycle substitutes it.      *)
Phase == CASE Broken -> "broken"
           [] ~Broken /\ conn.handle = "none" -> "new"
           [] ~Broken /\ conn.handle = "connecting" -> "opening"
           [] ~Broken /\ conn.handle = "closed" -> "gone"
           [] ~Broken /\ conn.handle \in {"failed", "open", "closing"} -> conn.handle

(* The phase of the abstract connection, by the handle.                    *)
LEMMA PhaseValue ==
  /\ Broken => Phase = "broken"
  /\ ~Broken /\ conn.handle = "none" => Phase = "new"
  /\ ~Broken /\ conn.handle = "connecting" => Phase = "opening"
  /\ ~Broken /\ conn.handle = "closed" => Phase = "gone"
  /\ ~Broken /\ conn.handle \in {"failed", "open", "closing"} => Phase = conn.handle
BY DEF Phase

(* The same for the next state.                                            *)
LEMMA NextPhaseValue ==
  /\ Broken' => Phase' = "broken"
  /\ ~Broken' /\ conn'.handle = "none" => Phase' = "new"
  /\ ~Broken' /\ conn'.handle = "connecting" => Phase' = "opening"
  /\ ~Broken' /\ conn'.handle = "closed" => Phase' = "gone"
  /\ ~Broken' /\ conn'.handle \in {"failed", "open", "closing"} => Phase' = conn'.handle
BY DEF Phase

(* The initial states map to initial states.                               *)
LEMMA RefinementInit == Init => Lifecycle!Init
<1> SUFFICES ASSUME Init PROVE Lifecycle!Init
  OBVIOUS
<1>1. conn.handle = "none" /\ conn.owed = 0 /\ conn.faults = {}
  BY DEF Init, NewConnection
<1>2. Phase = "new"
  BY <1>1, PhaseValue DEF Broken
<1> QED
  BY <1>1, <1>2 DEF Lifecycle!Init, Phase

(* Every step maps to a step of ConnLifecycle or to a stutter.             *)
LEMMA RefinementStep == IndInv /\ [Next]_vars => [Lifecycle!Next]_(Lifecycle!vars)
<1> SUFFICES ASSUME IndInv, [Next]_vars
             PROVE  \/ Lifecycle!Next
                    \/ Phase' = Phase /\ conn'.owed = conn.owed
  BY DEF Lifecycle!vars, Phase
<1>0. conn.owed \in Nat /\ conn.handle \in Handles
  BY DEF IndInv, Ind, Connections
<1>1. CASE Accept
  <2>1. IndInv' /\ conn'.handle \in {"open", "closing"} /\ conn'.owed = 0
    BY <1>1, IndAccept
  <2>2. ~Broken /\ conn.handle = "none" /\ ~Broken'
    BY <1>1, <2>1 DEF Accept, Idle, IndInv, Ind, StateInv, Broken
  <2>3. Phase = "new" /\ Phase' \in {"open", "closing"}
    BY <2>1, <2>2, PhaseValue, NextPhaseValue
  <2> QED
    BY <2>1, <2>3 DEF Lifecycle!Next, Lifecycle!Begin, Phase
<1>2. CASE StartConnect
  <2>1. IndInv' /\ conn'.handle \in {"connecting", "failed"}
    BY <1>2, IndStartConnect
  <2>2. ~Broken /\ conn.handle = "none" /\ ~Broken' /\ conn'.owed = 0
    BY <1>2, <2>1
    DEF StartConnect, Idle, IndInv, Ind, HandleInv, StateInv, Broken
  <2>3. Phase = "new" /\ Phase' \in {"opening", "failed"}
    BY <2>1, <2>2, PhaseValue, NextPhaseValue
  <2> QED
    BY <2>2, <2>3 DEF Lifecycle!Next, Lifecycle!Begin, Phase
<1>3. CASE ConnectDone
  <2>1. IndInv' /\ conn'.handle \in {"failed", "open", "closing"}
    BY <1>3, IndConnectDone
  <2>2. /\ ~Broken /\ conn.handle = "connecting" /\ ~Broken' /\ conn'.owed \in Nat
        /\ conn'.handle = "failed" => conn'.owed = 0
    BY <1>3, <2>1
    DEF ConnectDone, Idle, IndInv, Ind, HandleInv, StateInv, Broken, Connections
  <2>3. Phase = "opening" /\ Phase' = conn'.handle
    BY <2>1, <2>2, PhaseValue, NextPhaseValue
  <2> QED
    BY <2>1, <2>2, <2>3 DEF Lifecycle!Next, Lifecycle!Opened, Phase
<1>4. CASE ReadData
  <2>1. conn' = conn
    BY <1>4 DEF ReadData
  <2> QED
    BY <2>1 DEF Phase, Broken
<1>5. CASE Message \/ ReadDone \/ ReadStop \/ TimerFires
  <2>1. IndInv' /\ Moved(conn, conn', 0)
    BY <1>5, IndMessage, IndReadDone, IndReadStop, IndTimerFires
  <2>2. /\ ~Broken /\ conn.handle \in {"open", "closing"}
        /\ conn'.owed \in Nat
    BY <1>5, <2>1
    DEF Message, ReadDone, ReadStop, TimerFires, Idle, IndInv, Ind, HandleInv, StateInv,
        Broken, Connections
  <2>3. CASE conn.handle = "open"
    <3>1. ~Broken'
      BY <2>1, <2>2, <2>3 DEF Moved, Broken
    <3>2. /\ Phase = "open" /\ Phase' \in {"open", "closing"}
          /\ conn'.owed + 1 >= conn.owed
      BY <1>0, <2>1, <2>2, <2>3, <3>1, PhaseValue, NextPhaseValue DEF Moved
    <3> QED
      BY <2>2, <3>2 DEF Lifecycle!Next, Lifecycle!Use, Phase
  <2>4. CASE conn.handle = "closing"
    <3>1. conn'.handle = "closing" /\ conn'.owed = conn.owed
      BY <1>0, <2>1, <2>2, <2>4 DEF Moved
    <3>2. Phase = "closing" /\ Phase' \in {"closing", "broken"}
      BY <2>2, <2>4, <3>1, PhaseValue, NextPhaseValue
    <3> QED
      BY <3>1, <3>2 DEF Lifecycle!Next, Lifecycle!Break, Phase
  <2> QED
    BY <2>2, <2>3, <2>4
<1>6. CASE WriteDone
  <2>1. IndInv' /\ Moved(conn, conn', 1)
    BY <1>6, IndWriteDone
  <2>2. /\ ~Broken /\ conn.handle \in {"open", "closing"} /\ conn.owed > 0
        /\ conn'.owed \in Nat /\ ~Broken'
    BY <1>6, <2>1
    DEF WriteDone, Idle, IndInv, Ind, HandleInv, StateInv, Broken, Connections
  <2>3. CASE conn.handle = "open"
    <3>1. /\ Phase = "open" /\ Phase' \in {"open", "closing"}
          /\ conn'.owed + 1 >= conn.owed
      BY <1>0, <2>1, <2>2, <2>3, PhaseValue, NextPhaseValue DEF Moved
    <3> QED
      BY <2>2, <3>1 DEF Lifecycle!Next, Lifecycle!Use, Phase
  <2>4. CASE conn.handle = "closing"
    <3>1. conn'.handle = "closing" /\ conn'.owed = conn.owed - 1
      BY <1>0, <2>1, <2>2, <2>4 DEF Moved
    <3>2. Phase = "closing" /\ Phase' = "closing"
      BY <2>2, <2>4, <3>1, PhaseValue, NextPhaseValue
    <3> QED
      BY <2>2, <3>1, <3>2 DEF Lifecycle!Next, Lifecycle!Drain, Phase
  <2> QED
    BY <2>2, <2>3, <2>4
<1>7. CASE CloseDone
  <2>1. IndInv' /\ conn'.handle = "closed" /\ conn'.owed = 0
    BY <1>7, IndCloseDone
  <2>2. /\ ~Broken /\ conn.handle = "closing" /\ conn.owed = 0 /\ ~Broken'
    BY <1>7, <2>1 DEF CloseDone, Idle, IndInv, Ind, StateInv, Broken
  <2>3. Phase = "closing" /\ Phase' = "gone"
    BY <2>1, <2>2, PhaseValue, NextPhaseValue
  <2> QED
    BY <2>1, <2>2, <2>3 DEF Lifecycle!Next, Lifecycle!Finish, Phase
<1>8. CASE UNCHANGED vars
  BY <1>8 DEF vars, Phase, Broken
<1> QED
  BY <1>1, <1>2, <1>3, <1>4, <1>5, <1>6, <1>7, <1>8 DEF Next

(* The connection implements ConnLifecycle: it is opened and closed at     *)
(* most once, starts no write once it is closing, and is gone only when    *)
(* every write callback has been delivered.                                *)
THEOREM Refinement == Spec => LifecycleSpec
BY Invariance, RefinementInit, RefinementStep, PTL DEF Spec, LifecycleSpec, Lifecycle!Spec

=============================================================================
