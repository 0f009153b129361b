----------------------------- MODULE NetHandler -----------------------------
(***************************************************************************)
(* NetHandler: the search for a port, the background thread that runs the  *)
(* libuv loop, and stopping it from the main thread, with the main threads *)
(* of the server and of the node around them.                              *)
(*                                                                         *)
(* The two threads interleave at every access to what they share: the flag *)
(* myBgThreadStop, the loop (its stop flag and the async handle) and the   *)
(* application's name.  uv_run is external: it is modelled by the steps of *)
(* UV_RUN_DEFAULT that look at the stop flag and at the async handle.      *)
(***************************************************************************)
EXTENDS Integers

CONSTANTS
  Requests,     \* listenPort values (-port); 0 asks for any port
  Ranges,       \* listenPortRange values
  TakenSets,    \* sets of ports other programs may hold
  DefaultPort   \* the port listenPort defaults to (5000)

ASSUME RequestsAssumption == Requests \subseteq Nat
ASSUME RangesAssumption == Ranges \subseteq Int
ASSUME TakenSetsAssumption == \A T \in TakenSets : T \subseteq Nat \ {0}
ASSUME DefaultPortAssumption == DefaultPort \in Nat

VARIABLES
  app,       \* the program: "server" or "node" (fixed)
  request,   \* listenPort (fixed)
  range,     \* listenPortRange (fixed)
  taken,     \* the ports that cannot be bound (fixed)
  pinging,   \* a ping timer of a peer connection keeps firing (fixed)
  main,      \* where the main thread is
  tried,     \* i of doListen
  port,      \* the bound port, or -1
  listening, \* a listening socket is open
  named,     \* myName is set
  bgStop,    \* myBgThreadStop
  bg,        \* where the background thread is
  loop,      \* myUvLoop: "live" or "deleted"
  stopFlag,  \* loop->stop_flag
  woken,     \* the async handle is pending
  runs,      \* how often the background thread called runLoop
  blank      \* history: a message was answered while the name was empty

config == <<app, request, range, taken, pinging>>
mainVars == <<main, tried, port, named, bgStop>>
bgVars == <<bg, runs, blank>>
vars == <<config, mainVars, bgVars, listening, loop, stopFlag, woken>>

Smaller(a, b) == IF a < b THEN a ELSE b
Larger(a, b) == IF a > b THEN a ELSE b

(* Mutant: the last index is tried too (<= for <).                         *)
NextPortsOneMore == Larger(Smaller(range, 10), 1) + 1

(* The number of ports tried.                                              *)
NextPorts == Larger(Smaller(range, 10), 1)

PortOf(i) == request + i

(* Only the node takes -port, and then tries no other one.                 *)
Init ==
  /\ app \in {"server", "node"}
  /\ request \in Requests /\ range \in Ranges /\ taken \in TakenSets
  /\ app = "server" => request = DefaultPort
  /\ request # DefaultPort => range = 1
  /\ pinging \in (IF app = "node" THEN BOOLEAN ELSE {FALSE})
  /\ main = "bind" /\ tried = 0 /\ port = -1
  /\ listening = FALSE /\ named = FALSE /\ bgStop = FALSE
  /\ bg = "off" /\ loop = "live" /\ stopFlag = FALSE /\ woken = FALSE
  /\ runs = 0 /\ blank = FALSE

-----------------------------------------------------------------------------
(* The main thread: start *)

(* Mutant: the node is not named in listenStarted.                         *)
BindUnnamed ==
  /\ main = "bind" /\ tried < NextPorts /\ PortOf(tried) \notin taken
  /\ port' = PortOf(tried)
  /\ listening' = TRUE
  /\ main' = IF port' <= 0 THEN "enter" ELSE "start"
  /\ UNCHANGED <<config, tried, named, bgStop, bgVars, loop, stopFlag, woken>>

(* doBindAndListen succeeds; listenStarted names the node.  Port 0 binds,  *)
(* and is then taken for a failure by startWithListen.                     *)
Bind ==
  /\ main = "bind" /\ tried < NextPorts /\ PortOf(tried) \notin taken
  /\ port' = PortOf(tried)
  /\ listening' = TRUE
  /\ named' = (app = "node")
  /\ main' = IF port' <= 0 THEN "enter" ELSE "start"
  /\ UNCHANGED <<config, tried, bgStop, bgVars, loop, stopFlag, woken>>

(* Mutant: the error code is kept as the port.                             *)
BindFailsKeepsCode ==
  /\ main = "bind" /\ tried < NextPorts /\ PortOf(tried) \in taken
  /\ tried' = tried + 1 /\ port' = -98
  /\ UNCHANGED <<config, main, named, bgStop, bgVars, listening, loop, stopFlag, woken>>

BindFails ==
  /\ main = "bind" /\ tried < NextPorts /\ PortOf(tried) \in taken
  /\ tried' = tried + 1
  /\ UNCHANGED <<config, main, port, named, bgStop, bgVars, listening, loop,
                 stopFlag, woken>>

NoPort ==
  /\ main = "bind" /\ tried >= NextPorts
  /\ main' = "enter"
  /\ UNCHANGED <<config, tried, port, named, bgStop, bgVars, listening, loop,
                 stopFlag, woken>>

(* startUvLoop: the flag, the async handle, the thread.                    *)
StartUvLoop ==
  /\ main = "start"
  /\ bgStop' = FALSE
  /\ bg' = "test"
  /\ main' = IF app = "server" THEN "name" ELSE "enter"
  /\ UNCHANGED <<config, tried, port, named, runs, blank, listening, loop,
                 stopFlag, woken>>

(* ServerApp::start sets the name when startWithListen has returned.       *)
SetName ==
  /\ main = "name"
  /\ named' = TRUE /\ main' = "enter"
  /\ UNCHANGED <<config, tried, port, bgStop, bgVars, listening, loop, stopFlag, woken>>

-----------------------------------------------------------------------------
(* The main thread: stop *)

(* Enter is pressed and main calls stop(), started or not.  Without a      *)
(* thread, the async handle is not initialised and join() throws.          *)
PressEnter ==
  /\ main = "enter"
  /\ main' = IF bg = "off" THEN "aborted" ELSE "stop"
  /\ UNCHANGED <<config, tried, port, named, bgStop, bgVars, listening, loop,
                 stopFlag, woken>>

(* Mutant: the loop is stopped before it is woken.                         *)
RaiseFlagStopFirst ==
  /\ main = "stop"
  /\ bgStop' = TRUE /\ stopFlag' = TRUE /\ main' = "async"
  /\ UNCHANGED <<config, tried, port, named, bgVars, listening, loop, woken>>

(* Mutant: the flag stays down.                                            *)
RaiseFlagForgotten ==
  /\ main = "stop"
  /\ main' = "async"
  /\ UNCHANGED <<config, tried, port, named, bgStop, bgVars, listening, loop,
                 stopFlag, woken>>

RaiseFlag ==
  /\ main = "stop"
  /\ bgStop' = TRUE /\ main' = "async"
  /\ UNCHANGED <<config, tried, port, named, bgVars, listening, loop, stopFlag, woken>>

SendAsync ==
  /\ main = "async"
  /\ woken' = TRUE /\ main' = "uvstop"
  /\ UNCHANGED <<config, tried, port, named, bgStop, bgVars, listening, loop, stopFlag>>

(* Mutant: uv_stop is left out.                                            *)
UvStopForgotten ==
  /\ main = "uvstop"
  /\ main' = "join"
  /\ UNCHANGED <<config, tried, port, named, bgStop, bgVars, listening, loop,
                 stopFlag, woken>>

(* uv_stop(getUvLoop()): without a loop, getUvLoop would make a new one.   *)
UvStop ==
  /\ main = "uvstop"
  /\ stopFlag' = TRUE /\ loop' = "live" /\ main' = "join"
  /\ UNCHANGED <<config, tried, port, named, bgStop, bgVars, listening, woken>>

Join ==
  /\ main = "join" /\ bg = "done"
  /\ main' = "done"
  /\ UNCHANGED <<config, tried, port, named, bgStop, bgVars, listening, loop,
                 stopFlag, woken>>

-----------------------------------------------------------------------------
(* The background thread *)

(* doBgThread tests the flag and enters runLoop, which gets the loop.      *)
BgTest ==
  /\ bg = "test"
  /\ IF bgStop THEN bg' = "done" /\ UNCHANGED <<runs, loop>>
     ELSE bg' = "run" /\ runs' = runs + 1 /\ loop' = "live"
  /\ UNCHANGED <<config, mainVars, blank, listening, stopFlag, woken>>

(* uv_run goes on as long as the stop flag is down.                        *)
UvTest ==
  /\ bg = "run"
  /\ bg' = IF stopFlag THEN "end" ELSE "poll"
  /\ UNCHANGED <<config, mainVars, runs, blank, listening, loop, stopFlag, woken>>

(* It waits for events, but not when the stop flag is up or a wake-up is   *)
(* pending; the wake-up is consumed and has no callback.                   *)
UvPoll ==
  /\ bg = "poll"
  /\ bg' = IF stopFlag \/ woken THEN "run" ELSE "wait"
  /\ woken' = FALSE
  /\ UNCHANGED <<config, mainVars, runs, blank, listening, loop, stopFlag>>

UvWake ==
  /\ bg = "wait" /\ woken
  /\ bg' = "run" /\ woken' = FALSE
  /\ UNCHANGED <<config, mainVars, runs, blank, listening, loop, stopFlag>>

(* An event of the network: a connection, a message, the end of a write.   *)
(* The answer to a message may carry the name.                             *)
NetEvent ==
  /\ bg \in {"poll", "wait"} /\ listening
  /\ bg' = "run"
  /\ blank' \in {blank, blank \/ ~named}
  /\ UNCHANGED <<config, mainVars, runs, listening, loop, stopFlag, woken>>

PingTimer ==
  /\ bg = "wait" /\ pinging
  /\ bg' = "run"
  /\ UNCHANGED <<config, mainVars, runs, blank, listening, loop, stopFlag, woken>>

(* uv_run lowers the flag as it returns.                                   *)
UvReturn ==
  /\ bg = "end"
  /\ stopFlag' = FALSE /\ bg' = "close"
  /\ UNCHANGED <<config, mainVars, runs, blank, listening, loop, woken>>

(* Mutant: the handles are not walked.                                     *)
CloseLoopNoWalk ==
  /\ bg = "close"
  /\ loop' = "deleted" /\ bg' = "again"
  /\ UNCHANGED <<config, mainVars, runs, blank, listening, stopFlag, woken>>

(* uv_loop_close finds open handles; the walk closes them, the listening   *)
(* socket among them, and the loop is deleted.                             *)
CloseLoop ==
  /\ bg = "close"
  /\ listening' = FALSE /\ loop' = "deleted" /\ bg' = "again"
  /\ UNCHANGED <<config, mainVars, runs, blank, stopFlag, woken>>

(* The flag once more, then one second of sleep.                           *)
BgAgain ==
  /\ bg = "again"
  /\ bg' = IF bgStop THEN "done" ELSE "test"
  /\ UNCHANGED <<config, mainVars, runs, blank, listening, loop, stopFlag, woken>>

-----------------------------------------------------------------------------
Start == Bind \/ BindFails \/ NoPort \/ StartUvLoop \/ SetName
Stop == RaiseFlag \/ SendAsync \/ UvStop \/ Join
BgThread == \/ BgTest \/ UvTest \/ UvPoll \/ UvWake \/ UvReturn \/ CloseLoop \/ BgAgain

Next == Start \/ PressEnter \/ Stop \/ BgThread \/ NetEvent \/ PingTimer

(* Both threads are scheduled.  Nobody must press Enter, and no peer must  *)
(* send anything.                                                          *)
Scheduling == WF_vars(Start) /\ WF_vars(Stop) /\ WF_vars(BgThread)

Spec == Init /\ [][Next]_vars

ThreadSpec == Spec /\ Scheduling

(* The ping timer repeats, so it fires whenever the loop waits.            *)
FairSpec == ThreadSpec /\ WF_vars(PingTimer)

-----------------------------------------------------------------------------
(* Every variable keeps its shape. *)
TypeOK ==
  /\ app \in {"server", "node"} /\ request \in Requests /\ range \in Ranges
  /\ taken \in TakenSets /\ pinging \in BOOLEAN
  /\ main \in {"bind", "start", "name", "enter", "stop", "async", "uvstop", "join",
               "done", "aborted"}
  /\ tried \in 0..10 /\ port \in Nat \cup {-1}
  /\ listening \in BOOLEAN /\ named \in BOOLEAN /\ bgStop \in BOOLEAN
  /\ bg \in {"off", "test", "run", "poll", "wait", "end", "close", "again", "done"}
  /\ loop \in {"live", "deleted"} /\ stopFlag \in BOOLEAN /\ woken \in BOOLEAN
  /\ runs \in Nat /\ blank \in BOOLEAN

(* doListen (net_handler.cpp:263) takes the first port of the range that   *)
(* is free, and gives up only when none of them is; at least one and at    *)
(* most ten are tried.                                                     *)
FirstFreePort ==
  /\ port # -1 => /\ port \notin taken
                  /\ port - request \in 0..9
                  /\ \A p \in request..(port - 1) : p \in taken
  /\ main \in {"enter", "aborted"} /\ port = -1 =>
       \A p \in request..(request + Larger(Smaller(range, 10), 1) - 1) : p \in taken

(* stop() (net_handler.cpp:118-121) wakes and stops the loop the           *)
(* background thread runs: that loop has not been deleted meanwhile, so    *)
(* neither the async handle nor the loop behind getUvLoop is another one.  *)
StopHitsTheLoop ==
  [][main' # main /\ main \in {"async", "uvstop"} => loop = "live"]_vars

(* "this second loop is not really necessary" (net_handler.cpp:294): the   *)
(* loop is run once, so it is never made anew without its listening socket.*)
LoopRunsOnce == runs <= 1 /\ (bg = "run" => listening)

(* A stop that ran the loop leaves nothing listening, and the thread that  *)
(* is joined has deleted its loop.                                         *)
StopCleansUp == main = "done" /\ runs > 0 => ~listening /\ loop = "deleted"

(* The name is missing from an answer only while ServerApp::start is       *)
(* between starting the thread and setting it (app.cpp:30-35); a node has  *)
(* its name before it has a loop (node.cpp:70).                            *)
BlankOnlyWhileStarting ==
  [][~blank /\ blank' => app = "server" /\ main = "name"]_vars

(* With a ping timer in the loop, stop() returns: a wake-up that came too  *)
(* early (net_handler.cpp:118) is made good by the next tick.              *)
StopReturnsWhilePinging == pinging /\ main = "stop" ~> main = "done"

(* "can be stopped from other thread (using UV async handle)"              *)
(* (README.md:26): stop() returns, timers or not.                          *)
StopReturns == main = "stop" ~> main = "done"

-----------------------------------------------------------------------------
(* The inductive invariant, in three parts. *)

(* What one thread knows of the other.                                     *)
ThreadInv ==
  /\ main \in {"bind", "start", "aborted"} => bg = "off"
  /\ main \in {"name", "stop", "async", "uvstop", "join", "done"} => bg # "off"
  /\ bgStop <=> main \in {"async", "uvstop", "join", "done"}
  /\ stopFlag => main \in {"join", "done"}
  /\ bg \in {"end", "close", "again"} => main \in {"join", "done"}
  /\ bg = "done" => bgStop
  /\ main = "done" => bg = "done"

(* The loop and its listening socket live until the one run has ended.     *)
LoopInv ==
  /\ bg \in {"off", "test"} => runs = 0
  /\ bg \in {"run", "poll", "wait", "end", "close", "again"} => runs = 1
  /\ bg = "done" => runs \in {0, 1}
  /\ main = "start" \/ bg \in {"test", "run", "poll", "wait", "end", "close"} => listening
  /\ bg = "again" \/ (bg = "done" /\ runs = 1) => loop = "deleted" /\ ~listening
  /\ loop = "deleted" => main \in {"join", "done"}
  /\ app = "node" /\ main = "start" => named
  /\ ~named /\ bg # "off" => app = "server" /\ main = "name"

(* Every port tried so far is taken.                                       *)
PortInv ==
  /\ main = "bind" => /\ port = -1 /\ tried <= NextPorts
                      /\ \A p \in request..(request + tried - 1) : p \in taken
  /\ main \in {"start", "name"} => port # -1
  /\ FirstFreePort
  /\ app \in {"server", "node"} /\ NextPorts \in 1..10

IndInv == TypeOK /\ ThreadInv /\ LoopInv /\ PortInv
=============================================================================
