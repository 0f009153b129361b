-------------------------- MODULE NetHandlerProofs --------------------------
(***************************************************************************)
(* Proofs about NetHandler, for all sets of ports, ranges and taken ports: *)
(* the inductive invariant action by action, then the properties of the    *)
(* runs.                                                                   *)
(***************************************************************************)
EXTENDS NetHandler, TLAPS

(* At least one port is tried and at most ten.                             *)
LEMMA NextPortsRange ==
  ASSUME range \in Int
  PROVE  NextPorts \in 1..10
BY DEF NextPorts, Larger, Smaller

(* Before the search for a port everything is consistent.                  *)
LEMMA IndInit == Init => IndInv
<1> SUFFICES ASSUME Init PROVE IndInv
  OBVIOUS
<1>1. NextPorts \in 1..10
  BY NextPortsRange, RangesAssumption DEF Init
<1>2. request \in Nat
  BY RequestsAssumption DEF Init
<1>3. TypeOK
  <2>1. pinging \in BOOLEAN
    BY DEF Init
  <2>2. app \in {"server", "node"} /\ request \in Requests /\ range \in Ranges /\ taken \in TakenSets
    BY DEF Init
  <2>3. tried \in 0..10 /\ port \in Nat \cup {-1} /\ runs \in Nat
    BY DEF Init
  <2> QED
    BY <2>1, <2>2, <2>3 DEF Init, TypeOK
<1>4. ThreadInv /\ LoopInv
  BY DEF Init, ThreadInv, LoopInv
<1>5. PortInv
  BY <1>1, <1>2 DEF Init, PortInv, FirstFreePort
<1> QED
  BY <1>3, <1>4, <1>5 DEF IndInv

(* The port search is over once main has left "bind"; these facts say that *)
(* a step that leaves its variables alone keeps PortInv.                   *)
LEMMA PortFrame ==
  ASSUME PortInv, UNCHANGED <<config, tried, port>>,
         main' = "bind" => main = "bind",
         main' \in {"start", "name"} => port # -1,
         main' \in {"enter", "aborted"} /\ port = -1 => main \in {"enter", "aborted"}
  PROVE  PortInv'
BY DEF PortInv, FirstFreePort, config, NextPorts

(* A port that can be bound is the first free one.                         *)
LEMMA IndBind == IndInv /\ Bind => IndInv'
<1> SUFFICES ASSUME IndInv, Bind PROVE IndInv'
  OBVIOUS
<1>1. request \in Nat /\ NextPorts \in 1..10 /\ tried \in 0..10 /\ tried < NextPorts
  BY RequestsAssumption DEF IndInv, TypeOK, PortInv, Bind
<1>2. port' = request + tried /\ port' \notin taken /\ port' \in Nat
  BY <1>1 DEF Bind, PortOf
<1>3. TypeOK'
  BY <1>1, <1>2 DEF IndInv, TypeOK, Bind, config, bgVars
<1>4. ThreadInv'
  BY <1>2 DEF IndInv, ThreadInv, Bind, config, bgVars
<1>5. LoopInv'
  BY <1>2 DEF IndInv, ThreadInv, LoopInv, Bind, config, bgVars
<1>6. PortInv'
  <2>1. main' \in {"enter", "start"} /\ port' # -1 /\ UNCHANGED config
    BY <1>2 DEF Bind
  <2>2. \A p \in request..(port' - 1) : p \in taken
    <3>1. port' - 1 = request + tried - 1
      BY <1>1, <1>2
    <3> QED
      BY <3>1 DEF IndInv, PortInv, Bind
  <2>3. port' - request \in 0..9
    BY <1>1, <1>2
  <2>4. NextPorts' = NextPorts
    BY <2>1 DEF NextPorts, config
  <2> QED
    BY <1>1, <1>2, <2>1, <2>2, <2>3, <2>4 DEF IndInv, TypeOK, PortInv, FirstFreePort, config
<1> QED
  BY <1>3, <1>4, <1>5, <1>6 DEF IndInv

(* A port that cannot be bound joins the taken ones.                       *)
LEMMA IndBindFails == IndInv /\ BindFails => IndInv'
<1> SUFFICES ASSUME IndInv, BindFails PROVE IndInv'
  OBVIOUS
<1>1. request \in Nat /\ NextPorts \in 1..10 /\ tried \in 0..10 /\ tried < NextPorts
  BY RequestsAssumption DEF IndInv, TypeOK, PortInv, BindFails
<1>2. tried' = tried + 1 /\ request + tried \in taken
  BY DEF BindFails, PortOf
<1>3. TypeOK'
  BY <1>1, <1>2 DEF IndInv, TypeOK, BindFails, config, bgVars
<1>4. ThreadInv' /\ LoopInv'
  BY DEF IndInv, ThreadInv, LoopInv, BindFails, config, bgVars
<1>5. PortInv'
  <2>1. main' = "bind" /\ port' = port /\ port = -1 /\ UNCHANGED config
    BY DEF BindFails, IndInv, PortInv
  <2>2. NextPorts' = NextPorts
    BY <2>1 DEF NextPorts, config
  <2>3. \A p \in request..(request + tried' - 1) : p \in taken
    BY <1>1, <1>2, <2>1 DEF IndInv, PortInv, BindFails
  <2> QED
    BY <1>1, <1>2, <2>1, <2>2, <2>3 DEF IndInv, TypeOK, PortInv, FirstFreePort, config
<1> QED
  BY <1>3, <1>4, <1>5 DEF IndInv

(* The search ends without a port when all of the range are taken.         *)
LEMMA IndNoPort == IndInv /\ NoPort => IndInv'
<1> SUFFICES ASSUME IndInv, NoPort PROVE IndInv'
  OBVIOUS
<1>1. TypeOK' /\ ThreadInv' /\ LoopInv'
  BY DEF IndInv, TypeOK, ThreadInv, LoopInv, NoPort, config, bgVars
<1>2. PortInv'
  <2>1. main' = "enter" /\ port' = -1 /\ UNCHANGED config
    BY DEF NoPort, IndInv, PortInv
  <2>2. NextPorts' = NextPorts
    BY <2>1 DEF NextPorts, config
  <2>3. tried = NextPorts
    BY DEF NoPort, IndInv, TypeOK, PortInv
  <2>4. \A p \in request..(request + Larger(Smaller(range, 10), 1) - 1) : p \in taken
    BY <2>3 DEF NoPort, IndInv, PortInv, NextPorts
  <2> QED
    BY <2>1, <2>2, <2>4 DEF IndInv, PortInv, FirstFreePort, config
<1> QED
  BY <1>1, <1>2 DEF IndInv

(* The thread is started with its flag down and its socket listening.      *)
LEMMA IndStartUvLoop == IndInv /\ StartUvLoop => IndInv'
<1> SUFFICES ASSUME IndInv, StartUvLoop PROVE IndInv'
  OBVIOUS
<1>1. TypeOK'
  BY DEF IndInv, TypeOK, StartUvLoop, config, mainVars, bgVars
<1>2. ThreadInv'
  BY DEF IndInv, TypeOK, ThreadInv, LoopInv, StartUvLoop, config, mainVars, bgVars
<1>3. LoopInv'
  BY DEF IndInv, TypeOK, ThreadInv, LoopInv, StartUvLoop, config, mainVars, bgVars
<1>4. PortInv'
  BY PortFrame DEF IndInv, TypeOK, PortInv, StartUvLoop, config, mainVars, bgVars
<1> QED
  BY <1>1, <1>2, <1>3, <1>4 DEF IndInv

(* The server's name is set with the thread running.                       *)
LEMMA IndSetName == IndInv /\ SetName => IndInv'
<1> SUFFICES ASSUME IndInv, SetName PROVE IndInv'
  OBVIOUS
<1>1. TypeOK'
  BY DEF IndInv, TypeOK, SetName, config, mainVars, bgVars
<1>2. ThreadInv'
  BY DEF IndInv, TypeOK, ThreadInv, LoopInv, SetName, config, mainVars, bgVars
<1>3. LoopInv'
  BY DEF IndInv, TypeOK, ThreadInv, LoopInv, SetName, config, mainVars, bgVars
<1>4. PortInv'
  BY PortFrame DEF IndInv, TypeOK, PortInv, SetName, config, mainVars, bgVars
<1> QED
  BY <1>1, <1>2, <1>3, <1>4 DEF IndInv

(* Enter leads to stop(), or to the end if there is no thread.             *)
LEMMA IndPressEnter == IndInv /\ PressEnter => IndInv'
<1> SUFFICES ASSUME IndInv, PressEnter PROVE IndInv'
  OBVIOUS
<1>1. TypeOK'
  BY DEF IndInv, TypeOK, PressEnter, config, mainVars, bgVars
<1>2. ThreadInv'
  BY DEF IndInv, TypeOK, ThreadInv, LoopInv, PressEnter, config, mainVars, bgVars
<1>3. LoopInv'
  BY DEF IndInv, TypeOK, ThreadInv, LoopInv, PressEnter, config, mainVars, bgVars
<1>4. PortInv'
  BY PortFrame DEF IndInv, TypeOK, PortInv, PressEnter, config, mainVars, bgVars
<1> QED
  BY <1>1, <1>2, <1>3, <1>4 DEF IndInv

(* stop() raises the flag while the loop is live.                          *)
LEMMA IndRaiseFlag == IndInv /\ RaiseFlag => IndInv'
<1> SUFFICES ASSUME IndInv, RaiseFlag PROVE IndInv'
  OBVIOUS
<1>1. TypeOK'
  BY DEF IndInv, TypeOK, RaiseFlag, config, mainVars, bgVars
<1>2. ThreadInv'
  BY DEF IndInv, TypeOK, ThreadInv, LoopInv, RaiseFlag, config, mainVars, bgVars
<1>3. LoopInv'
  BY DEF IndInv, TypeOK, ThreadInv, LoopInv, RaiseFlag, config, mainVars, bgVars
<1>4. PortInv'
  BY PortFrame DEF IndInv, TypeOK, PortInv, RaiseFlag, config, mainVars, bgVars
<1> QED
  BY <1>1, <1>2, <1>3, <1>4 DEF IndInv

(* stop() wakes the loop before it has ended.                              *)
LEMMA IndSendAsync == IndInv /\ SendAsync => IndInv'
<1> SUFFICES ASSUME IndInv, SendAsync PROVE IndInv'
  OBVIOUS
<1>1. TypeOK'
  BY DEF IndInv, TypeOK, SendAsync, config, mainVars, bgVars
<1>2. ThreadInv'
  BY DEF IndInv, TypeOK, ThreadInv, LoopInv, SendAsync, config, mainVars, bgVars
<1>3. LoopInv'
  BY DEF IndInv, TypeOK, ThreadInv, LoopInv, SendAsync, config, mainVars, bgVars
<1>4. PortInv'
  BY PortFrame DEF IndInv, TypeOK, PortInv, SendAsync, config, mainVars, bgVars
<1> QED
  BY <1>1, <1>2, <1>3, <1>4 DEF IndInv

(* stop() stops the loop before it has been deleted.                       *)
LEMMA IndUvStop == IndInv /\ UvStop => IndInv'
<1> SUFFICES ASSUME IndInv, UvStop PROVE IndInv'
  OBVIOUS
<1>1. TypeOK'
  BY DEF IndInv, TypeOK, UvStop, config, mainVars, bgVars
<1>2. ThreadInv'
  BY DEF IndInv, TypeOK, ThreadInv, LoopInv, UvStop, config, mainVars, bgVars
<1>3. LoopInv'
  BY DEF IndInv, TypeOK, ThreadInv, LoopInv, UvStop, config, mainVars, bgVars
<1>4. PortInv'
  BY PortFrame DEF IndInv, TypeOK, PortInv, UvStop, config, mainVars, bgVars
<1> QED
  BY <1>1, <1>2, <1>3, <1>4 DEF IndInv

(* join() returns when the thread is done.                                 *)
LEMMA IndJoin == IndInv /\ Join => IndInv'
<1> SUFFICES ASSUME IndInv, Join PROVE IndInv'
  OBVIOUS
<1>1. TypeOK'
  BY DEF IndInv, TypeOK, Join, config, mainVars, bgVars
<1>2. ThreadInv'
  BY DEF IndInv, TypeOK, ThreadInv, LoopInv, Join, config, mainVars, bgVars
<1>3. LoopInv'
  BY DEF IndInv, TypeOK, ThreadInv, LoopInv, Join, config, mainVars, bgVars
<1>4. PortInv'
  BY PortFrame DEF IndInv, TypeOK, PortInv, Join, config, mainVars, bgVars
<1> QED
  BY <1>1, <1>2, <1>3, <1>4 DEF IndInv

(* The first test of the flag: the loop is run, or never.                  *)
LEMMA IndBgTest == IndInv /\ BgTest => IndInv'
<1> SUFFICES ASSUME IndInv, BgTest PROVE IndInv'
  OBVIOUS
<1>1. TypeOK'
  BY DEF IndInv, TypeOK, BgTest, config, mainVars, bgVars
<1>2. ThreadInv'
  BY DEF IndInv, TypeOK, ThreadInv, LoopInv, BgTest, config, mainVars, bgVars
<1>3. LoopInv'
  BY DEF IndInv, TypeOK, ThreadInv, LoopInv, BgTest, config, mainVars, bgVars
<1>4. PortInv'
  BY PortFrame DEF IndInv, TypeOK, PortInv, BgTest, config, mainVars, bgVars
<1> QED
  BY <1>1, <1>2, <1>3, <1>4 DEF IndInv

(* The loop ends only after the stop flag was raised.                      *)
LEMMA IndUvTest == IndInv /\ UvTest => IndInv'
<1> SUFFICES ASSUME IndInv, UvTest PROVE IndInv'
  OBVIOUS
<1>1. TypeOK'
  <2>1. UNCHANGED <<config, mainVars, runs, loop>>
    BY DEF UvTest
  <2>2. listening' \in BOOLEAN /\ stopFlag' \in BOOLEAN /\ woken' \in BOOLEAN /\ blank' \in BOOLEAN
    BY DEF UvTest, IndInv, TypeOK
  <2>3. bg' \in {"off", "test", "run", "poll", "wait", "end", "close", "again", "done"}
    BY DEF UvTest
  <2> QED
    BY <2>1, <2>2, <2>3 DEF IndInv, TypeOK, config, mainVars
<1>2. ThreadInv'
  BY DEF IndInv, TypeOK, ThreadInv, LoopInv, UvTest, config, mainVars, bgVars
<1>3. LoopInv'
  BY DEF IndInv, TypeOK, ThreadInv, LoopInv, UvTest, config, mainVars, bgVars
<1>4. PortInv'
  BY PortFrame DEF IndInv, TypeOK, PortInv, UvTest, config, mainVars, bgVars
<1> QED
  BY <1>1, <1>2, <1>3, <1>4 DEF IndInv

(* The loop polls or waits.                                                *)
LEMMA IndUvPoll == IndInv /\ UvPoll => IndInv'
<1> SUFFICES ASSUME IndInv, UvPoll PROVE IndInv'
  OBVIOUS
<1>1. TypeOK'
  <2>1. UNCHANGED <<config, mainVars, runs, loop>>
    BY DEF UvPoll
  <2>2. listening' \in BOOLEAN /\ stopFlag' \in BOOLEAN /\ woken' \in BOOLEAN /\ blank' \in BOOLEAN
    BY DEF UvPoll, IndInv, TypeOK
  <2>3. bg' \in {"off", "test", "run", "poll", "wait", "end", "close", "again", "done"}
    BY DEF UvPoll
  <2> QED
    BY <2>1, <2>2, <2>3 DEF IndInv, TypeOK, config, mainVars
<1>2. ThreadInv'
  BY DEF IndInv, TypeOK, ThreadInv, LoopInv, UvPoll, config, mainVars, bgVars
<1>3. LoopInv'
  BY DEF IndInv, TypeOK, ThreadInv, LoopInv, UvPoll, config, mainVars, bgVars
<1>4. PortInv'
  BY PortFrame DEF IndInv, TypeOK, PortInv, UvPoll, config, mainVars, bgVars
<1> QED
  BY <1>1, <1>2, <1>3, <1>4 DEF IndInv

(* The wait ends with the wake-up.                                         *)
LEMMA IndUvWake == IndInv /\ UvWake => IndInv'
<1> SUFFICES ASSUME IndInv, UvWake PROVE IndInv'
  OBVIOUS
<1>1. TypeOK'
  <2>1. UNCHANGED <<config, mainVars, runs, loop>>
    BY DEF UvWake
  <2>2. listening' \in BOOLEAN /\ stopFlag' \in BOOLEAN /\ woken' \in BOOLEAN /\ blank' \in BOOLEAN
    BY DEF UvWake, IndInv, TypeOK
  <2>3. bg' \in {"off", "test", "run", "poll", "wait", "end", "close", "again", "done"}
    BY DEF UvWake
  <2> QED
    BY <2>1, <2>2, <2>3 DEF IndInv, TypeOK, config, mainVars
<1>2. ThreadInv'
  BY DEF IndInv, TypeOK, ThreadInv, LoopInv, UvWake, config, mainVars, bgVars
<1>3. LoopInv'
  BY DEF IndInv, TypeOK, ThreadInv, LoopInv, UvWake, config, mainVars, bgVars
<1>4. PortInv'
  BY PortFrame DEF IndInv, TypeOK, PortInv, UvWake, config, mainVars, bgVars
<1> QED
  BY <1>1, <1>2, <1>3, <1>4 DEF IndInv

(* A message may be answered without a name only by the server.            *)
LEMMA IndNetEvent == IndInv /\ NetEvent => IndInv'
<1> SUFFICES ASSUME IndInv, NetEvent PROVE IndInv'
  OBVIOUS
<1>1. TypeOK'
  <2>1. UNCHANGED <<config, mainVars, runs, loop>>
    BY DEF NetEvent
  <2>2. listening' \in BOOLEAN /\ stopFlag' \in BOOLEAN /\ woken' \in BOOLEAN /\ blank' \in BOOLEAN
    BY DEF NetEvent, IndInv, TypeOK
  <2>3. bg' \in {"off", "test", "run", "poll", "wait", "end", "close", "again", "done"}
    BY DEF NetEvent
  <2> QED
    BY <2>1, <2>2, <2>3 DEF IndInv, TypeOK, config, mainVars
<1>2. ThreadInv'
  BY DEF IndInv, TypeOK, ThreadInv, LoopInv, NetEvent, config, mainVars, bgVars
<1>3. LoopInv'
  BY DEF IndInv, TypeOK, ThreadInv, LoopInv, NetEvent, config, mainVars, bgVars
<1>4. PortInv'
  BY PortFrame DEF IndInv, TypeOK, PortInv, NetEvent, config, mainVars, bgVars
<1> QED
  BY <1>1, <1>2, <1>3, <1>4 DEF IndInv

(* A timer ends the wait.                                                  *)
LEMMA IndPingTimer == IndInv /\ PingTimer => IndInv'
<1> SUFFICES ASSUME IndInv, PingTimer PROVE IndInv'
  OBVIOUS
<1>1. TypeOK'
  <2>1. UNCHANGED <<config, mainVars, runs, loop>>
    BY DEF PingTimer
  <2>2. listening' \in BOOLEAN /\ stopFlag' \in BOOLEAN /\ woken' \in BOOLEAN /\ blank' \in BOOLEAN
    BY DEF PingTimer, IndInv, TypeOK
  <2>3. bg' \in {"off", "test", "run", "poll", "wait", "end", "close", "again", "done"}
    BY DEF PingTimer
  <2> QED
    BY <2>1, <2>2, <2>3 DEF IndInv, TypeOK, config, mainVars
<1>2. ThreadInv'
  BY DEF IndInv, TypeOK, ThreadInv, LoopInv, PingTimer, config, mainVars, bgVars
<1>3. LoopInv'
  BY DEF IndInv, TypeOK, ThreadInv, LoopInv, PingTimer, config, mainVars, bgVars
<1>4. PortInv'
  BY PortFrame DEF IndInv, TypeOK, PortInv, PingTimer, config, mainVars, bgVars
<1> QED
  BY <1>1, <1>2, <1>3, <1>4 DEF IndInv

(* The loop returns and lowers its stop flag.                              *)
LEMMA IndUvReturn == IndInv /\ UvReturn => IndInv'
<1> SUFFICES ASSUME IndInv, UvReturn PROVE IndInv'
  OBVIOUS
<1>1. TypeOK'
  <2>1. UNCHANGED <<config, mainVars, runs, loop>>
    BY DEF UvReturn
  <2>2. listening' \in BOOLEAN /\ stopFlag' \in BOOLEAN /\ woken' \in BOOLEAN /\ blank' \in BOOLEAN
    BY DEF UvReturn, IndInv, TypeOK
  <2>3. bg' \in {"off", "test", "run", "poll", "wait", "end", "close", "again", "done"}
    BY DEF UvReturn
  <2> QED
    BY <2>1, <2>2, <2>3 DEF IndInv, TypeOK, config, mainVars
<1>2. ThreadInv'
  BY DEF IndInv, TypeOK, ThreadInv, LoopInv, UvReturn, config, mainVars, bgVars
<1>3. LoopInv'
  BY DEF IndInv, TypeOK, ThreadInv, LoopInv, UvReturn, config, mainVars, bgVars
<1>4. PortInv'
  BY PortFrame DEF IndInv, TypeOK, PortInv, UvReturn, config, mainVars, bgVars
<1> QED
  BY <1>1, <1>2, <1>3, <1>4 DEF IndInv

(* The handles are closed and the loop is deleted.                         *)
LEMMA IndCloseLoop == IndInv /\ CloseLoop => IndInv'
<1> SUFFICES ASSUME IndInv, CloseLoop PROVE IndInv'
  OBVIOUS
<1>1. TypeOK'
  BY ZenonT(30) DEF IndInv, TypeOK, CloseLoop, config, mainVars, bgVars
<1>2. ThreadInv'
  BY DEF IndInv, TypeOK, ThreadInv, LoopInv, CloseLoop, config, mainVars, bgVars
<1>3. LoopInv'
  BY DEF IndInv, TypeOK, ThreadInv, LoopInv, CloseLoop, config, mainVars, bgVars
<1>4. PortInv'
  BY PortFrame DEF IndInv, TypeOK, PortInv, CloseLoop, config, mainVars, bgVars
<1> QED
  BY <1>1, <1>2, <1>3, <1>4 DEF IndInv

(* The second test of the flag finds it raised.                            *)
LEMMA IndBgAgain == IndInv /\ BgAgain => IndInv'
<1> SUFFICES ASSUME IndInv, BgAgain PROVE IndInv'
  OBVIOUS
<1>1. TypeOK'
  <2>1. UNCHANGED <<config, mainVars, runs, loop>>
    BY DEF BgAgain
  <2>2. listening' \in BOOLEAN /\ stopFlag' \in BOOLEAN /\ woken' \in BOOLEAN /\ blank' \in BOOLEAN
    BY DEF BgAgain, IndInv, TypeOK
  <2>3. bg' \in {"off", "test", "run", "poll", "wait", "end", "close", "again", "done"}
    BY DEF BgAgain
  <2> QED
    BY <2>1, <2>2, <2>3 DEF IndInv, TypeOK, config, mainVars
<1>2. ThreadInv'
  BY DEF IndInv, TypeOK, ThreadInv, LoopInv, BgAgain, config, mainVars, bgVars
<1>3. LoopInv'
  BY DEF IndInv, TypeOK, ThreadInv, LoopInv, BgAgain, config, mainVars, bgVars
<1>4. PortInv'
  BY PortFrame DEF IndInv, TypeOK, PortInv, BgAgain, config, mainVars, bgVars
<1> QED
  BY <1>1, <1>2, <1>3, <1>4 DEF IndInv

(* A step that changes no variable keeps the inductive invariant.           *)
LEMMA IndStutter == IndInv /\ UNCHANGED vars => IndInv'
<1> SUFFICES ASSUME IndInv, UNCHANGED vars PROVE IndInv'
  OBVIOUS
<1>1. TypeOK' /\ ThreadInv' /\ LoopInv'
  BY DEF IndInv, TypeOK, ThreadInv, LoopInv, vars, config, mainVars, bgVars
<1>2. PortInv'
  BY PortFrame DEF IndInv, PortInv, vars, config, mainVars, bgVars
<1> QED
  BY <1>1, <1>2 DEF IndInv

(* Every step keeps the inductive invariant.                               *)
LEMMA IndNext == IndInv /\ [Next]_vars => IndInv'
BY IndBind, IndBindFails, IndNoPort, IndStartUvLoop, IndSetName, IndPressEnter, IndRaiseFlag, IndSendAsync, IndUvStop, IndJoin, IndBgTest, IndUvTest, IndUvPoll, IndUvWake, IndNetEvent, IndPingTimer, IndUvReturn, IndCloseLoop, IndBgAgain, IndStutter
   DEF Next, Start, Stop, BgThread

(* The two threads, the loop and the search for a port stay consistent in  *)
(* every reachable state.                                                  *)
THEOREM Invariance == Spec => []IndInv
<1> QED
  BY IndInit, IndNext, PTL DEF Spec

(* Every variable keeps its shape.                                         *)
THEOREM TypeCorrect == Spec => []TypeOK
<1>1. IndInv => TypeOK
  BY DEF IndInv
<1> QED
  BY <1>1, Invariance, PTL

(* doListen takes the first free port, whatever the range asked for.       *)
THEOREM PortSearch == Spec => []FirstFreePort
<1>1. IndInv => FirstFreePort
  BY DEF IndInv, PortInv
<1> QED
  BY <1>1, Invariance, PTL

(* The thread runs the loop once, with its listening socket open.          *)
THEOREM OneRun == Spec => []LoopRunsOnce
<1>1. IndInv => LoopRunsOnce
  BY DEF IndInv, TypeOK, LoopInv, LoopRunsOnce
<1> QED
  BY <1>1, Invariance, PTL

(* A stop that ran the loop leaves neither a socket nor a loop behind.     *)
THEOREM CleanStop == Spec => []StopCleansUp
<1>1. IndInv => StopCleansUp
  BY DEF IndInv, TypeOK, ThreadInv, LoopInv, StopCleansUp
<1> QED
  BY <1>1, Invariance, PTL

(* stop() acts on the loop that runs, not on one made after it.            *)
THEOREM RightLoop == Spec => StopHitsTheLoop
<1>1. IndInv /\ [Next]_vars => [main' # main /\ main \in {"async", "uvstop"} => loop = "live"]_vars
  BY DEF IndInv, TypeOK, LoopInv
<1> QED
  BY <1>1, Invariance, PTL DEF Spec, StopHitsTheLoop

(* An answer without the name goes out only while ServerApp::start is      *)
(* between the start of the thread and the assignment of the name.         *)
THEOREM NamedInTime == Spec => BlankOnlyWhileStarting
<1>1. IndInv /\ [Next]_vars => [~blank /\ blank' => app = "server" /\ main = "name"]_vars
  <2> SUFFICES ASSUME IndInv, Next, ~blank, blank'
               PROVE  app = "server" /\ main = "name"
    BY DEF vars
  <2>1. NetEvent
    BY DEF Next, Start, Stop, BgThread, Bind, BindFails, NoPort, StartUvLoop, SetName,
           PressEnter, RaiseFlag, SendAsync, UvStop, Join, BgTest, UvTest, UvPoll,
           UvWake, PingTimer, UvReturn, CloseLoop, BgAgain, mainVars, bgVars
  <2> QED
    BY <2>1 DEF NetEvent, IndInv, LoopInv
<1> QED
  BY <1>1, Invariance, PTL DEF Spec, BlankOnlyWhileStarting

=============================================================================
