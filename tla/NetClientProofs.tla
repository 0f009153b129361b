-------------------------- MODULE NetClientProofs --------------------------
(***************************************************************************)
(* What the operators of NetClient do to a connection, case by case: the   *)
(* lemmas that the proofs about Connection and Session share.              *)
(***************************************************************************)
EXTENDS NetClient, TLAPS

-----------------------------------------------------------------------------
(* Effects *)

Kept(r, s) == /\ s.kind = r.kind /\ s.dels = r.dels /\ s.timer = r.timer
              /\ s.sends = r.sends /\ s.obj = r.obj

Shut(r, s, why) ==
  /\ s \in Connections /\ Kept(r, s)
  /\ s.st = "Closing" /\ ~s.stream
  /\ s.owed = r.owed /\ s.why = r.why \cup {why} /\ s.faults = r.faults
  /\ s.handle = (IF r.stream THEN "closing" ELSE r.handle)
  /\ r.stream => ~s.reading
  /\ ~r.stream => s.reading = r.reading

(* A write was started, or the stream was NULL, or uv_write failed.        *)
Wrote(r, s) ==
  /\ s.st = "Sending" /\ r.stream /\ s.stream /\ s.owed \in Nat /\ s.owed >= r.owed
  /\ s.why = r.why /\ s.faults = r.faults
  /\ s.handle = r.handle /\ s.reading = r.reading

Crashed(r, s) ==
  /\ ~r.stream /\ ~s.stream /\ s.owed = r.owed
  /\ s.why = r.why /\ s.faults = r.faults \cup {"nullStream"}
  /\ s.handle = r.handle /\ s.reading = r.reading

Refused(r, s, why) ==
  /\ r.stream /\ s.st = "Closing" /\ ~s.stream
  /\ s.owed \in Nat /\ s.owed >= r.owed
  /\ s.why = r.why \cup {why} /\ s.faults = r.faults
  /\ s.handle = "closing" /\ ~s.reading

Started(r, s) ==
  /\ s.st = "Receiving" /\ r.stream /\ s.stream /\ s.owed = r.owed
  /\ s.why = r.why /\ s.faults = r.faults
  /\ s.handle = r.handle /\ s.reading

-----------------------------------------------------------------------------
(* close() on a handle that is not yet closing, or on no stream.           *)
LEMMA CloseEffect ==
  ASSUME NEW r \in Connections, NEW why \in Reasons,
         ~(r.stream /\ r.handle = "closing")
  PROVE  Shut(r, Close(r, why), why)
<1>1. CASE ~r.stream
  <2>1. Close(r, why) = [r EXCEPT !.st = "Closing", !.why = @ \cup {why}]
    BY <1>1 DEF Close
  <2>2. r.why \cup {why} \in SUBSET Reasons
    BY DEF Connections
  <2> QED
    BY <1>1, <2>1, <2>2 DEF Shut, Kept, Connections, States
<1>2. CASE r.stream
  <2>1. Close(r, why) = [r EXCEPT !.st = "Closing", !.why = @ \cup {why},
                                  !.stream = FALSE, !.handle = "closing",
                                  !.reading = FALSE]
    BY <1>2 DEF Close, Connections
  <2>2. r.why \cup {why} \in SUBSET Reasons
    BY DEF Connections
  <2> QED
    BY <1>2, <2>1, <2>2 DEF Shut, Kept, Connections, States, Handles
<1> QED
  BY <1>1, <1>2 DEF Connections

(* sendMessage.                                                            *)
LEMMA SendEffect ==
  ASSUME NEW r \in Connections, NEW n \in Nat, NEW sent \in Nat,
         ~(r.stream /\ r.handle = "closing"), r.st \notin Ended
  PROVE  LET s == Send(r, n, sent)
         IN  /\ s \in Connections /\ Kept(r, s)
             /\ \/ Wrote(r, s) /\ s.owed = r.owed + n
                \/ Crashed(r, s)
                \/ Refused(r, s, "send") /\ s.owed < r.owed + n /\ sent < n
<1> DEFINE s == [r EXCEPT !.st = "Sending"]
<1>1. CASE ~r.stream
  <2>1. Send(r, n, sent) = [r EXCEPT !.st = "Sending", !.faults = @ \cup {"nullStream"}]
    BY <1>1 DEF Send, Fault
  <2>2. r.faults \cup {"nullStream"} \in SUBSET Faults
    BY DEF Connections, Faults
  <2> QED
    BY <1>1, <2>1, <2>2 DEF Crashed, Kept, Connections, States
<1>2. CASE r.stream /\ sent >= n
  <2>1. Send(r, n, sent) = [r EXCEPT !.st = "Sending", !.owed = @ + n]
    BY <1>2 DEF Send
  <2> DEFINE more == r.owed + n
  <2>2. more \in Nat /\ more >= r.owed
    BY DEF Connections
  <2>3. Send(r, n, sent) = [r EXCEPT !.st = "Sending", !.owed = more]
    BY <2>1
  <2> HIDE DEF more
  <2>4. /\ Send(r, n, sent) \in Connections /\ Kept(r, Send(r, n, sent))
        /\ Wrote(r, Send(r, n, sent)) /\ Send(r, n, sent).owed = more
    BY <1>2, <2>2, <2>3 DEF Wrote, Kept, Connections, States
  <2> QED
    BY <2>4 DEF more
<1>3. CASE r.stream /\ sent < n
  <2> DEFINE more == r.owed + sent
  <2> DEFINE t == [r EXCEPT !.st = "Sending", !.owed = more]
  <2>1. Send(r, n, sent) = Close(t, "send")
    BY <1>3 DEF Send
  <2>2. more \in Nat /\ more >= r.owed /\ more < r.owed + n
    BY <1>3 DEF Connections
  <2> HIDE DEF more
  <2>3. /\ t \in Connections /\ Kept(r, t)
        /\ t.stream = r.stream /\ t.handle = r.handle /\ t.owed = more
        /\ t.why = r.why /\ t.faults = r.faults
    BY <2>2 DEF Connections, States, Kept
  <2> HIDE DEF t
  <2>4. Shut(t, Send(r, n, sent), "send")
    BY <1>3, <2>1, <2>3, CloseEffect DEF Reasons
  <2> QED
    BY <1>3, <2>2, <2>3, <2>4 DEF Shut, Refused, Kept
<1> QED
  BY <1>1, <1>2, <1>3

(* sendMessage, when libuv takes every message.                            *)
SentAll(r, s, n) ==
  s \in Connections /\ Kept(r, s) /\ Wrote(r, s) /\ s.owed = r.owed + n

(* The only outcome when libuv takes every message.                        *)
LEMMA SendAccepted ==
  ASSUME NEW r \in Connections, NEW n \in Nat, NEW sent \in Nat, sent >= n,
         r.stream = TRUE, r.handle # "closing", r.st \notin Ended,
         NEW s, s = Send(r, n, sent)
  PROVE  SentAll(r, s, n)
<1>1. /\ s \in Connections /\ Kept(r, s)
      /\ \/ Wrote(r, s) /\ s.owed = r.owed + n
         \/ Crashed(r, s)
         \/ Refused(r, s, "send") /\ s.owed < r.owed + n /\ sent < n
  BY SendEffect
<1>2. ~Crashed(r, s) /\ ~(sent < n)
  BY DEF Crashed
<1> QED
  BY <1>1, <1>2 DEF SentAll

(* doRead.                                                                 *)
LEMMA DoReadEffect ==
  ASSUME NEW r \in Connections, NEW ok \in BOOLEAN,
         r.stream, r.handle # "closing"
  PROVE  LET s == DoRead(r, ok)
         IN  /\ s \in Connections /\ Kept(r, s)
             /\ \/ Started(r, s)
                \/ /\ ~ok
                   /\ \E why \in {"read", "restart"} :
                        /\ Refused(r, s, why) /\ s.owed = r.owed
                        /\ r.reading => why = "restart"
<1>1. CASE ok
  <2>1. DoRead(r, ok) = [r EXCEPT !.st = "Receiving", !.reading = TRUE]
    BY <1>1 DEF DoRead
  <2> QED
    BY <1>1, <2>1 DEF Started, Kept, Connections, States
<1>2. CASE ~ok
  <2> DEFINE t == [r EXCEPT !.st = "Receiving"]
  <2> DEFINE why == IF r.reading THEN "restart" ELSE "read"
  <2>1. DoRead(r, ok) = Close(t, why)
    BY <1>2 DEF DoRead
  <2>2. /\ t \in Connections /\ Kept(r, t)
        /\ t.stream = r.stream /\ t.handle = r.handle /\ t.owed = r.owed
        /\ t.why = r.why /\ t.faults = r.faults
    BY DEF Connections, States, Kept
  <2>3. why \in {"read", "restart"} /\ (r.reading => why = "restart")
    OBVIOUS
  <2> HIDE DEF t, why
  <2>4. Shut(t, DoRead(r, ok), why)
    BY <2>1, <2>2, <2>3, CloseEffect DEF Reasons
  <2>5. r.owed \in Nat
    BY DEF Connections
  <2> QED
    BY <1>2, <2>2, <2>3, <2>4, <2>5 DEF Shut, Refused, Kept
<1> QED
  BY <1>1, <1>2

-----------------------------------------------------------------------------
(* process() dispatches on the class, then on the state.                   *)
LEMMA ProcessKind ==
  ASSUME NEW r, NEW u
  PROVE  /\ r.kind \in InKinds => Process(r, u) = r
         /\ r.kind = "ClientOut" => Process(r, u) = ProcessClient(r, u)
         /\ r.kind = "NodeOut" => Process(r, u) = ProcessPeer(r, u)
BY DEF Process, InKinds

(* process() of a peer connection, state by state.                         *)
LEMMA ProcessPeerState ==
  ASSUME NEW r, NEW u
  PROVE  /\ r.st = "Received" => ProcessPeer(r, u) = r
         /\ r.st \in {"Sending", "Receiving"} => ProcessPeer(r, u) = DoRead(r, u.read)
         /\ r.st = "Closing" => ProcessPeer(r, u) = Fault(r, "process")
         /\ r.st = "Connected" =>
              ProcessPeer(r, u) =
                [Send(r, 2 + 2 * u.others, u.sent) EXCEPT !.timer = "on"]
<1>1. CASE r.st = "Received"
  BY <1>1 DEF ProcessPeer, Ended
<1>2. CASE r.st \in {"Sending", "Receiving"}
  BY <1>2 DEF ProcessPeer, Ended
<1>3. CASE r.st = "Closing"
  BY <1>3 DEF ProcessPeer, Ended, Unhandled
<1>4. CASE r.st = "Connected"
  BY <1>4 DEF ProcessPeer, Ended
<1> QED
  BY <1>1, <1>2, <1>3, <1>4

(* process() of a client connection, state by state.                       *)
LEMMA ProcessClientState ==
  ASSUME NEW r, NEW u, r.sends \in Nat
  PROVE  /\ r.st = "Received" /\ r.sends >= 1 + PingToSend =>
              ProcessClient(r, u) = Close(r, "done")
         /\ r.st = "Received" /\ r.sends >= 1 /\ r.sends <= PingToSend =>
              ProcessClient(r, u) = Send(r, 1, u.sent)
         /\ r.st = "Sending" =>
              ProcessClient(r, u) = DoRead([r EXCEPT !.sends = @ + 1], u.read)
         /\ r.st = "Receiving" => ProcessClient(r, u) = DoRead(r, u.read)
         /\ r.st = "Closing" => ProcessClient(r, u) = Fault(r, "process")
         /\ r.st = "Connected" =>
              ProcessClient(r, u) = Send([r EXCEPT !.sends = 0], 1, u.sent)
<1>0. PingToSend \in Nat
  BY PingToSendAssumption
<1>1. CASE r.st = "Received" /\ r.sends >= 1 + PingToSend
  BY <1>0, <1>1 DEF ProcessClient, Ended
<1>2. CASE r.st = "Received" /\ r.sends >= 1 /\ r.sends <= PingToSend
  BY <1>0, <1>2 DEF ProcessClient, Ended
<1>3. CASE r.st = "Sending"
  BY <1>3 DEF ProcessClient, Ended
<1>4. CASE r.st = "Receiving"
  BY <1>4 DEF ProcessClient, Ended
<1>5. CASE r.st = "Closing"
  BY <1>5 DEF ProcessClient, Ended, Unhandled
<1>6. CASE r.st = "Connected"
  BY <1>6 DEF ProcessClient, Ended
<1> QED
  BY <1>1, <1>2, <1>3, <1>4, <1>5, <1>6
=============================================================================
