----------------------------- MODULE NetClient -----------------------------
(***************************************************************************)
(* One connection: the NetClientBase object (NetClientIn, NetClientOut,    *)
(* PeerClientOut) together with the libuv stream it drives.  The module    *)
(* has no variables: every operator takes the connection record r and      *)
(* returns the record after the corresponding call of the code, so that    *)
(* Connection can use them as the handlers of a state machine.             *)
(*                                                                         *)
(*   kind    which class, in which application                             *)
(*   st      myState                                                       *)
(*   stream  myUvStream is not NULL                                        *)
(*   handle  the uv_tcp_t as libuv sees it ("failed": connect failed, the  *)
(*           handle is neither connected nor closed)                       *)
(*   dels    how often the code deleted the handle                         *)
(*   reading uv_read_start is in effect                                    *)
(*   owed    write callbacks libuv still has to deliver                    *)
(*   timer   the ping timer of PeerClientOut                               *)
(*   sends   mySendCounter of NetClientOut                                 *)
(*   obj     the C++ object                                                *)
(*   why     history: the reasons for which close() was called             *)
(*   faults  history: assertions that did not hold, calls on a NULL        *)
(*           stream, accesses to a freed object                            *)
(*                                                                         *)
(* The build is the default one (Release), in which assert() is empty: a   *)
(* failed assertion is recorded and the program continues.                 *)
(***************************************************************************)
EXTENDS Naturals

CONSTANTS
  PingToSend,   \* myPingToSend: the pings a client of ClientApp sends
  RestartOk,    \* may uv_read_start succeed on a stream already being read?
                \* {TRUE} before libuv 1.38, {FALSE} (UV_EALREADY) since
  MaxOther      \* bound: connected peers announced by one sendOtherPeers

ASSUME PingToSendAssumption == PingToSend \in Nat
ASSUME RestartOkAssumption == RestartOk \in (SUBSET BOOLEAN) \ {{}}
ASSUME MaxOtherAssumption == MaxOther \in Nat

InKinds == {"ServerIn", "NodeIn"}
OutKinds == {"ClientOut", "NodeOut"}
Kinds == InKinds \cup OutKinds

States == {"NotConnected", "Connecting", "Connected", "Accepted", "Sending",
           "Sent", "Receiving", "Received", "Closing", "Closed"}
Ended == {"Closing", "Closed"}
Handles == {"none", "connecting", "failed", "open", "closing", "closed"}
Timers == {"none", "on", "stopped"}
Reasons == {"eof", "zero", "write", "send", "read", "restart", "version", "done"}
Faults == {"nullStream", "useAfterFree", "onWrite", "process", "message"}

(* Handshake carries version V01, OldHandshake another one.                *)
Messages == {"Handshake", "OldHandshake", "HandshakeResponse", "Ping",
             "PingResponse", "OtherPeer"}

Connections ==
  [kind: Kinds, st: States, stream: BOOLEAN, handle: Handles, dels: Nat,
   reading: BOOLEAN, owed: Nat, timer: Timers, sends: Nat,
   obj: {"live", "freed"}, why: SUBSET Reasons, faults: SUBSET Faults]

(* What the environment answers during one handler: peers announced by     *)
(* sendOtherPeers, uv_write calls that succeed before one fails, the       *)
(* result of uv_read_start, and whether isPeerConnected finds the peer of  *)
(* an outgoing connection among the incoming ones.                         *)
Outcomes(r) ==
  {u \in [others: 0..MaxOther, sent: 0..(2 + 2 * MaxOther),
          read: BOOLEAN, found: BOOLEAN] :
     /\ r.reading => u.read \in RestartOk
     /\ r.kind = "NodeIn" => u.found}

NewConnection(kind) ==
  [kind |-> kind, st |-> "NotConnected", stream |-> FALSE, handle |-> "none",
   dels |-> 0, reading |-> FALSE, owed |-> 0, timer |-> "none", sends |-> 0,
   obj |-> "live", why |-> {}, faults |-> {}]

Fault(r, f) == [r EXCEPT !.faults = @ \cup {f}]

-----------------------------------------------------------------------------
(* Closing *)

(* Mutant: the destructor of PeerClientOut does not stop its timer.        *)
ConnectionClosedTimerRuns(r) ==
  IF r.kind = "ClientOut" THEN r ELSE [r EXCEPT !.obj = "freed"]

(* The registry of ServerApp and NodeApp holds the only reference to the   *)
(* object; ClientApp keeps its objects until its loop has ended.           *)
ConnectionClosed(r) ==
  IF r.kind = "ClientOut" THEN r
  ELSE [r EXCEPT !.obj = "freed",
                 !.timer = IF @ = "on" THEN "stopped" ELSE @]

(* Mutant: handle->data was not set, so on_close returns at once.          *)
OnCloseLost(r) == r

OnClose(r) ==
  LET told == ConnectionClosed(r)
      gone == [told EXCEPT !.handle = "closed", !.dels = @ + 1, !.st = "Closed"]
  IN  IF told.obj = "freed" THEN Fault(gone, "useAfterFree") ELSE gone

(* Mutant: myUvStream is not set to NULL.                                  *)
CloseKeepsStream(r, reason) ==
  LET c == [r EXCEPT !.st = "Closing", !.why = @ \cup {reason}]
  IN  CASE ~r.stream -> c
        [] r.stream /\ r.handle = "closing" -> OnClose(c)
        [] r.stream /\ r.handle # "closing" ->
             [c EXCEPT !.handle = "closing", !.reading = FALSE]

(* Mutant: myState is not set to Closing.                                  *)
CloseKeepsState(r, reason) ==
  IF ~r.stream THEN r
  ELSE [r EXCEPT !.why = @ \cup {reason}, !.stream = FALSE,
                 !.handle = "closing", !.reading = FALSE]

Close(r, reason) ==
  LET c == [r EXCEPT !.st = "Closing", !.why = @ \cup {reason}]
      n == [c EXCEPT !.stream = FALSE]
  IN  CASE ~r.stream -> c
        [] r.stream /\ r.handle = "closing" -> OnClose(n)
        [] r.stream /\ r.handle # "closing" ->
             [n EXCEPT !.handle = "closing", !.reading = FALSE]

-----------------------------------------------------------------------------
(* Sending and reading *)

(* n calls of sendMessage in a row, sent of which find uv_write willing    *)
(* before the first that does not.                                         *)
Send(r, n, sent) ==
  LET s == [r EXCEPT !.st = "Sending"]
  IN  CASE r.st \in Ended -> r
        [] r.st \notin Ended /\ ~r.stream -> Fault(s, "nullStream")
        [] r.st \notin Ended /\ r.stream /\ sent >= n -> [s EXCEPT !.owed = @ + n]
        [] r.st \notin Ended /\ r.stream /\ sent < n ->
             Close([s EXCEPT !.owed = @ + sent], "send")

DoRead(r, ok) ==
  LET s == [r EXCEPT !.st = "Receiving"]
  IN  CASE ~r.stream -> Fault(s, "nullStream")
        [] r.stream /\ ok -> [s EXCEPT !.reading = TRUE]
        [] r.stream /\ ~ok -> Close(s, IF r.reading THEN "restart" ELSE "read")

-----------------------------------------------------------------------------
(* The next step of the protocol: process() *)

Unhandled(r) == Fault(r, "process")

(* Mutant: the client compares with > and counts one ping too many.        *)
ProcessClientOneMore(r, u) ==
  CASE r.st = "Connected" -> Send([r EXCEPT !.sends = 0], 1, u.sent)
    [] r.st = "Sending" -> DoRead([r EXCEPT !.sends = @ + 1], u.read)
    [] r.st = "Receiving" -> DoRead(r, u.read)
    [] r.st = "Received" /\ r.sends > 1 + PingToSend -> Close(r, "done")
    [] r.st = "Received" /\ r.sends \in 1..(1 + PingToSend) -> Send(r, 1, u.sent)
    [] OTHER -> Unhandled(r)

(* Mutant: doRead only after a message, so the first one is never read.    *)
ProcessClientDeaf(r, u) ==
  CASE r.st = "Connected" -> Send([r EXCEPT !.sends = 0], 1, u.sent)
    [] r.st = "Sending" -> [r EXCEPT !.sends = @ + 1]
    [] OTHER -> Unhandled(r)

ProcessClient(r, u) ==
  CASE r.st = "Connected" -> Send([r EXCEPT !.sends = 0], 1, u.sent)
    [] r.st = "Sending" -> DoRead([r EXCEPT !.sends = @ + 1], u.read)
    [] r.st \in {"Sent", "Receiving"} -> DoRead(r, u.read)
    [] r.st = "Received" /\ r.sends >= 1 + PingToSend -> Close(r, "done")
    [] r.st = "Received" /\ r.sends \in 1..PingToSend -> Send(r, 1, u.sent)
    [] r.st = "Received" /\ r.sends = 0 -> r
    [] r.st \in {"NotConnected", "Connecting", "Accepted"} \cup Ended -> Unhandled(r)

(* Mutant: a peer connection does not start to read after its first write. *)
ProcessPeerSilent(r, u) ==
  IF r.st = "Connected" THEN Send(r, 2 + 2 * u.others, u.sent) ELSE r

(* PING and the peers, then HANDSH and the peers once more.                *)
ProcessPeer(r, u) ==
  CASE r.st = "Connected" -> [Send(r, 2 + 2 * u.others, u.sent) EXCEPT !.timer = "on"]
    [] r.st \in {"Sending", "Sent", "Receiving"} -> DoRead(r, u.read)
    [] r.st = "Received" -> r
    [] r.st \in {"NotConnected", "Connecting", "Accepted"} \cup Ended -> Unhandled(r)

Process(r, u) ==
  CASE r.kind = "ClientOut" -> ProcessClient(r, u)
    [] r.kind = "NodeOut" -> ProcessPeer(r, u)
    [] r.kind \in InKinds -> r

OnTimer(r, u) == Send(r, 1 + u.others, u.sent)

-----------------------------------------------------------------------------
(* The callbacks of libuv *)

(* Mutant: the request is released twice.                                  *)
OnWriteTwice(r, ok, u) ==
  LET b == [r EXCEPT !.owed = @ - 2]
  IN  IF ok THEN Process(b, u) ELSE Close(b, "write")

(* Mutant: a finished write makes the state Sent, as the enum suggests.    *)
OnWriteSent(r, ok, u) ==
  LET b == [r EXCEPT !.owed = @ - 1, !.st = "Sent"]
  IN  IF ok THEN Process(b, u) ELSE Close(b, "write")

OnWrite(r, ok, u) ==
  LET held == r.st \in {"Sending", "Receiving", "Received"}
      a == IF held THEN r ELSE Fault(r, "onWrite")
      b == [a EXCEPT !.owed = @ - 1]
  IN  IF ok THEN Process(b, u) ELSE Close(b, "write")

Accepted(r) == [r EXCEPT !.st = "Accepted", !.stream = TRUE, !.handle = "open"]

(* uv_tcp_connect may refuse at once; the handle stays as it is.           *)
Connect(r, ok) ==
  [r EXCEPT !.st = "Connecting", !.sends = 0, !.stream = TRUE,
            !.handle = IF ok THEN "connecting" ELSE "failed"]

(* Mutant: a failed connect goes on with the handshake.                    *)
OnConnectAnyway(r, ok, u) ==
  Process([r EXCEPT !.st = "Connected", !.handle = IF ok THEN "open" ELSE "failed"], u)

OnConnect(r, ok, u) ==
  IF ok THEN Process([r EXCEPT !.st = "Connected", !.handle = "open"], u)
  ELSE [r EXCEPT !.handle = "failed"]

-----------------------------------------------------------------------------
(* messageReceived of the application that owns the connection *)

ServerMessage(r, m, u) ==
  CASE m = "OldHandshake" -> Close(r, "version")
    [] m \in {"Handshake", "Ping"} -> Send(r, 1, u.sent)
    [] m \in {"HandshakeResponse", "PingResponse", "OtherPeer"} -> Fault(r, "message")

NodeMessage(r, m, u) ==
  CASE m = "OldHandshake" -> Close(r, "version")
    [] m = "Handshake" /\ u.found -> Send(r, 1 + u.others, u.sent)
    [] m = "Handshake" /\ ~u.found -> r
    [] m = "Ping" -> Send(r, 1, u.sent)
    [] m \in {"HandshakeResponse", "PingResponse", "OtherPeer"} -> r

(* One parsed message of the receive buffer: the state is set to Received  *)
(* whatever it was, then the application is told.                          *)
Receive(r, m, u) ==
  LET g == [r EXCEPT !.st = "Received"]
  IN  CASE r.kind = "ServerIn" -> ServerMessage(g, m, u)
        [] r.kind \in {"NodeIn", "NodeOut"} -> NodeMessage(g, m, u)
        [] r.kind = "ClientOut" -> g
=============================================================================
