----------------------------- MODULE Connection -----------------------------
(***************************************************************************)
(* The life of one connection of any of the four kinds, under every order  *)
(* of libuv callbacks: connect, data, end of stream, write results, the    *)
(* ping timer and the close callback.                                      *)
(*                                                                         *)
(* libuv runs callbacks one at a time in the loop thread.  One read        *)
(* callback handles all complete messages of the receive buffer before it  *)
(* calls process(); busy says that it is in that loop, and no other        *)
(* callback runs meanwhile.                                                *)
(***************************************************************************)
EXTENDS NetClient

CONSTANT MaxOwed   \* bound: write callbacks outstanding

ASSUME MaxOwedAssumption == MaxOwed \in Nat /\ MaxOwed >= 3 + 2 * MaxOther

VARIABLES
  conn,   \* the connection record of NetClient
  busy    \* the read callback is in doProcessReceivedBuffer

vars == <<conn, busy>>

Broken == "nullStream" \in conn.faults
Idle == ~busy /\ ~Broken
Room == conn'.owed < MaxOwed

Init == /\ \E k \in Kinds : conn = NewConnection(k)
        /\ busy = FALSE

-----------------------------------------------------------------------------
(* onNewConnection: the object is built around the accepted handle, handed *)
(* to the application, and reading is started.                             *)
Accept == /\ Idle
          /\ conn.kind \in InKinds /\ conn.handle = "none"
          /\ \E u \in Outcomes(conn) : conn' = DoRead(Accepted(conn), u.read)
          /\ UNCHANGED busy

StartConnect == /\ Idle
                /\ conn.kind \in OutKinds /\ conn.handle = "none"
                /\ \E ok \in BOOLEAN : conn' = Connect(conn, ok)
                /\ UNCHANGED busy

ConnectDone == /\ Idle
               /\ conn.handle = "connecting"
               /\ \E ok \in BOOLEAN, u \in Outcomes(conn) : conn' = OnConnect(conn, ok, u)
               /\ UNCHANGED busy

(* onRead with data: zero or more complete messages follow, then process().*)
ReadData == /\ Idle
            /\ conn.reading /\ conn.owed < MaxOwed
            /\ busy' = TRUE
            /\ UNCHANGED conn

Message == /\ busy /\ ~Broken
           /\ \E m \in Messages, u \in Outcomes(conn) : conn' = Receive(conn, m, u)
           /\ Room
           /\ UNCHANGED busy

ReadDone == /\ busy /\ ~Broken
            /\ \E u \in Outcomes(conn) : conn' = Process(conn, u)
            /\ busy' = FALSE

(* onRead with nread < 0 (end of stream or error), or with nread = 0.      *)
ReadStop == /\ Idle
            /\ conn.reading
            /\ \E why \in {"eof", "zero"} : conn' = Close(conn, why)
            /\ UNCHANGED busy

WriteDone == /\ Idle
             /\ conn.handle \in {"open", "closing"} /\ conn.owed > 0
             /\ \E ok \in BOOLEAN, u \in Outcomes(conn) : conn' = OnWrite(conn, ok, u)
             /\ UNCHANGED busy

(* A closing handle is finished before the timers of the loop run again.   *)
TimerFires == /\ Idle
              /\ conn.timer = "on" /\ conn.handle = "open"
              /\ \E u \in Outcomes(conn) : conn' = OnTimer(conn, u)
              /\ Room
              /\ UNCHANGED busy

(* libuv delivers the callbacks of all pending writes, then the close one. *)
CloseDone == /\ Idle
             /\ conn.handle = "closing" /\ conn.owed = 0
             /\ conn' = OnClose(conn)
             /\ UNCHANGED busy

Next == \/ Accept \/ StartConnect \/ ConnectDone
        \/ ReadData \/ Message \/ ReadDone \/ ReadStop
        \/ WriteDone \/ TimerFires \/ CloseDone

(* uv_run is in progress: it delivers the result of a connect or a write   *)
(* and the end of a close, and a read callback that began returns.  When   *)
(* the peer sends, or closes, is not up to this side.                      *)
Fairness == /\ WF_vars(Accept) /\ WF_vars(StartConnect) /\ WF_vars(ConnectDone)
            /\ WF_vars(ReadDone) /\ WF_vars(WriteDone) /\ WF_vars(CloseDone)

Spec == Init /\ [][Next]_vars

FairSpec == Spec /\ Fairness

-----------------------------------------------------------------------------
(* Every variable keeps its shape. *)
TypeOK == conn \in Connections /\ busy \in BOOLEAN

(* connectionClosed (app.cpp:51, node.cpp:205) frees the object, so        *)
(* afterwards libuv must hold nothing that leads back to it: no read or    *)
(* write callback, no running timer, no open handle, no message loop.      *)
FreedIsQuiescent ==
  conn.obj = "freed" => /\ conn.handle = "closed" /\ ~conn.reading
                        /\ conn.owed = 0 /\ conn.timer # "on" /\ ~busy

(* "prevent double close" (net_client.cpp:104): the handle is deleted once *)
(* and only after libuv has let go of it, however often close() is called; *)
(* until close() the stream pointer is there, from then on it is not.      *)
DeletedOnce ==
  /\ conn.dels = (IF conn.handle = "closed" THEN 1 ELSE 0)
  /\ conn.stream <=> conn.handle \in {"connecting", "failed", "open"}

(* The counting of NetClientOut::process (net_client.cpp:377-399): a       *)
(* client that reads has counted its handshake, so a message always leads  *)
(* to a ping or to the end; it never counts more than the handshake and    *)
(* its pings, and it ends by itself only when it has counted them all.     *)
ClientBudget ==
  conn.kind = "ClientOut" =>
    /\ conn.reading => conn.sends >= 1
    /\ conn.sends <= 1 + PingToSend
    /\ "done" \in conn.why => conn.sends = 1 + PingToSend

(* A call on the NULL stream needs a connection that closed itself inside  *)
(* the message loop: after a wrong version, or after a reply that          *)
(* uv_write refused (net_client.cpp:178 overwrites Closing).               *)
BreaksOnlyAfterCloseInLoop ==
  Broken => /\ busy
            /\ conn.kind # "ClientOut"
            /\ conn.handle = "closing"
            /\ conn.why \cap {"version", "send"} # {}

(* Only the message loop (net_client.cpp:178) takes a connection out of    *)
(* Closing; every other handler leaves it there until it is Closed.        *)
RevivedOnlyInLoop ==
  [][conn.st \in Ended /\ conn'.st \notin Ended => busy]_vars

(* The connection behaves as ConnLifecycle: nothing is written after the   *)
(* close and nothing is outstanding when it is gone.                       *)
Lifecycle == INSTANCE ConnLifecycle WITH
  phase <- CASE Broken -> "broken"
             [] ~Broken /\ conn.handle = "none" -> "new"
             [] ~Broken /\ conn.handle = "connecting" -> "opening"
             [] ~Broken /\ conn.handle = "closed" -> "gone"
             [] ~Broken /\ conn.handle \in {"failed", "open", "closing"} -> conn.handle,
  owed <- conn.owed

LifecycleSpec == Lifecycle!Spec

(* A connection being closed is finished, or has broken in the message     *)
(* loop: no order of callbacks leaves it half closed.                      *)
ClosingCompletes ==
  conn.handle = "closing" ~> conn.handle = "closed" \/ Broken

(* An open connection comes to read: a client's first doRead is the one in *)
(* the callback of its first write (net_client.cpp:377), with no other     *)
(* chance to start.                                                        *)
OpenReads ==
  conn.handle = "open" ~> conn.reading \/ conn.handle # "open"

(* The assertion of onWrite (net_client.cpp:142).                          *)
OnWriteAssertion == "onWrite" \notin conn.faults

(* A client "sends Handshake and a few Ping messages" (README.md:34), a     *)
(* peer "does periodic Ping indefinitely" (peer_conn.hpp:14): neither is    *)
(* ended by starting to read, whatever the order of its writes and answers. *)
PingsGoOn == conn.kind \in OutKinds => "restart" \notin conn.why

-----------------------------------------------------------------------------
(* The inductive invariant: what every handler relies on and restores, for *)
(* a record r and a read callback that is (b) or is not in its loop.       *)

(* The stream pointer, the handle, the callbacks and the object go         *)
(* together.                                                               *)
HandleInv(r, b) ==
  /\ r.stream <=> r.handle \in {"connecting", "failed", "open"}
  /\ r.dels = (IF r.handle = "closed" THEN 1 ELSE 0)
  /\ r.handle \in {"connecting", "failed"} => r.kind \in OutKinds
  /\ r.reading => r.handle = "open"
  /\ r.handle \notin {"open", "closing"} => r.owed = 0
  /\ r.obj = "freed" <=> r.handle = "closed" /\ r.kind # "ClientOut"
  /\ r.timer = "on" => r.kind = "NodeOut" /\ r.handle \in {"open", "closing"}
  /\ b => r.reading \/ r.handle = "closing"

(* myState follows the handle, but for the connection revived in the       *)
(* message loop, which is Received, or broken, while its handle is closing.*)
StateInv(r, b) ==
  /\ r.handle = "none" => r.st = "NotConnected"
  /\ r.handle \in {"connecting", "failed"} => r.st = "Connecting"
  /\ r.handle = "open" => r.st \in {"Sending", "Receiving", "Received"}
  /\ r.handle = "closing" /\ "nullStream" \notin r.faults =>
       r.st \in {"Closing", "Received"}
  /\ r.handle = "closing" /\ r.kind = "ClientOut" => r.st = "Closing"
  /\ r.handle = "closed" => r.st = "Closed"
  /\ b /\ r.handle = "closing" => /\ r.kind # "ClientOut"
                                  /\ r.why \cap {"version", "send"} # {}
  /\ "nullStream" \in r.faults => b /\ r.handle = "closing"

(* A client that waits for its first write has counted nothing; one that   *)
(* is sending has a count left.                                            *)
BudgetInv(r) ==
  r.kind = "ClientOut" =>
    /\ r.sends <= 1 + PingToSend
    /\ r.handle \in {"none", "connecting", "failed"} => r.sends = 0
    /\ r.handle = "open" => (r.reading <=> r.sends >= 1)
    /\ r.handle = "open" /\ ~r.reading => r.st = "Sending"
    /\ r.st = "Sending" => r.sends <= PingToSend
    /\ "done" \in r.why => /\ r.handle \in {"closing", "closed"}
                          /\ r.sends = 1 + PingToSend

Ind(r, b) == /\ r \in Connections /\ b \in BOOLEAN
             /\ HandleInv(r, b) /\ StateInv(r, b) /\ BudgetInv(r)

IndInv == Ind(conn, busy)
=============================================================================
