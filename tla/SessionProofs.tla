--------------------------- MODULE SessionProofs ---------------------------
(***************************************************************************)
(* The properties of Session, for every number of pings and peers, every   *)
(* fate of the network and every way to cut the text into reads.           *)
(***************************************************************************)
EXTENDS Session, NetClientProofs, WireProofs

-----------------------------------------------------------------------------
(* The messages *)

(* The terminator is no part of a message.                                 *)
LEMMA NotAWord == Terminator \notin Words
BY DEF Words, Terminator, Blank

(* Requests and responses are made of words.                               *)
LEMMA RequestsAreWords == \A m \in Requests : Wordy(m, Words)
<1>1. Wordy(Msg("HANDSH", <<"V01", "addr", "_NONE_">>), Words)
  <2>1. <<"V01", "addr", "_NONE_">> \in Seq(Words)
    BY DEF Words
  <2> QED
    BY <2>1, NotAWord DEF Wordy, Msg, Words
<1>2. Wordy(Msg("PING", <<"ping">>), Words)
  <2>1. <<"ping">> \in Seq(Words)
    BY DEF Words
  <2> QED
    BY <2>1, NotAWord DEF Wordy, Msg, Words
<1> QED
  BY <1>1, <1>2, Zenon DEF Requests

LEMMA ResponsesAreWords == ASSUME NEW k PROVE \A m \in Responses(k) : Wordy(m, Words)
<1>1. ASSUME NEW x \in {"name", Blank}  PROVE Wordy(Welcome(x), Words)
  <2>1. <<"V01", x, "addr">> \in Seq(Words)
    BY DEF Words
  <2> QED
    BY <2>1, NotAWord DEF Wordy, Msg, Welcome, Words
<1>2. Wordy(Msg("PINGRESP", <<"resp">>), Words)
  <2>1. <<"resp">> \in Seq(Words)
    BY DEF Words
  <2> QED
    BY <2>1, NotAWord DEF Wordy, Msg, Words
<1>3. Wordy(Msg("OPEER", <<"host", "port">>), Words)
  <2>1. <<"host", "port">> \in Seq(Words)
    BY DEF Words
  <2> QED
    BY <2>1, NotAWord DEF Wordy, Msg, Words
<1> QED
  BY <1>1, <1>2, <1>3, Zenon DEF Responses

(* What is read of the line of a message.                                  *)
ReadBack(m) == ParseMessage(Tokens(<<m.type>> \o m.fields))

(* A request is read as it was sent.                                       *)
LEMMA RequestsAreRead == \A m \in Requests : ReadBack(m) = m
<1> DEFINE W == Words \ {Blank}
<1>1. Blank \notin W /\ {"HANDSH", "PING", "V01", "addr", "_NONE_", "ping"} \subseteq W
  BY DEF Words, Blank
<1>2. {"HANDSH", "PING"} \subseteq Keywords /\ MinTokens["HANDSH"] = 4 /\ MinTokens["PING"] = 2
  BY DEF Keywords, MinTokens
<1> HIDE DEF W
<1>3. ReadBack(Msg("HANDSH", <<"V01", "addr", "_NONE_">>)) = Msg("HANDSH", <<"V01", "addr", "_NONE_">>)
  <2> DEFINE f == <<"V01", "addr", "_NONE_">>
  <2>1. f \in Seq(W) /\ Len(f) = 3
    BY <1>1
  <2>2. "HANDSH" \in W /\ "HANDSH" \in Keywords
    BY <1>1, <1>2
  <2> HIDE DEF f
  <2>3. Len(f) + 1 = MinTokens["HANDSH"]
    BY <1>2, <2>1
  <2>4. ParseMessage(Tokens(<<"HANDSH">> \o f)) = [type |-> "HANDSH", fields |-> f]
    BY <1>1, <2>1, <2>2, <2>3, ReadAsWritten
  <2> QED
    BY <2>4 DEF f, Msg, ReadBack
<1>4. ReadBack(Msg("PING", <<"ping">>)) = Msg("PING", <<"ping">>)
  <2> DEFINE f == <<"ping">>
  <2>1. f \in Seq(W) /\ Len(f) = 1
    BY <1>1
  <2>2. "PING" \in W /\ "PING" \in Keywords
    BY <1>1, <1>2
  <2> HIDE DEF f
  <2>3. Len(f) + 1 = MinTokens["PING"]
    BY <1>2, <2>1
  <2>4. ParseMessage(Tokens(<<"PING">> \o f)) = [type |-> "PING", fields |-> f]
    BY <1>1, <2>1, <2>2, <2>3, ReadAsWritten
  <2> QED
    BY <2>4 DEF f, Msg, ReadBack
<1> QED
  BY <1>3, <1>4, Zenon DEF Requests

(* Sequences word by word.                                                 *)
LEMMA AppendTwo ==
  ASSUME NEW S, NEW a \in S, NEW b \in S
  PROVE  Append(<<a>>, b) = <<a, b>>
<1> DEFINE s == Append(<<a>>, b)
           t == <<a, b>>
<1>1. s \in Seq(S) /\ Len(s) = 2 /\ s[1] = a /\ s[2] = b
  OBVIOUS
<1>2. t \in Seq(S) /\ Len(t) = 2 /\ t[1] = a /\ t[2] = b
  OBVIOUS
<1> HIDE DEF s, t
<1>3. \A i \in 1..Len(s) : s[i] = t[i]
  BY <1>1, <1>2
<1>4. s = t
  BY <1>1, <1>2, <1>3, SeqEqual
<1> QED
  BY <1>4 DEF s, t

LEMMA AppendThree ==
  ASSUME NEW S, NEW a \in S, NEW b \in S, NEW c \in S
  PROVE  Append(<<a, b>>, c) = <<a, b, c>>
<1> DEFINE s == Append(<<a, b>>, c)
           t == <<a, b, c>>
<1>1. s \in Seq(S) /\ Len(s) = 3 /\ s[1] = a /\ s[2] = b /\ s[3] = c
  OBVIOUS
<1>2. t \in Seq(S) /\ Len(t) = 3 /\ t[1] = a /\ t[2] = b /\ t[3] = c
  OBVIOUS
<1> HIDE DEF s, t
<1>3. \A i \in 1..Len(s) : s[i] = t[i]
  BY <1>1, <1>2
<1>4. s = t
  BY <1>1, <1>2, <1>3, SeqEqual
<1> QED
  BY <1>4 DEF s, t

LEMMA AppendFour ==
  ASSUME NEW S, NEW a \in S, NEW b \in S, NEW c \in S, NEW d \in S
  PROVE  Append(<<a, b, c>>, d) = <<a>> \o <<b, c, d>>
<1> DEFINE s == Append(<<a, b, c>>, d)
           t == <<a>> \o <<b, c, d>>
<1>1. s \in Seq(S) /\ Len(s) = 4 /\ s[1] = a /\ s[2] = b /\ s[3] = c /\ s[4] = d
  OBVIOUS
<1>2. t \in Seq(S) /\ Len(t) = 4 /\ t[1] = a /\ t[2] = b /\ t[3] = c /\ t[4] = d
  OBVIOUS
<1> HIDE DEF s, t
<1>3. \A i \in 1..Len(s) : s[i] = t[i]
  BY <1>1, <1>2
<1>4. s = t
  BY <1>1, <1>2, <1>3, SeqEqual
<1> QED
  BY <1>4 DEF s, t

(* The line of an answer that has no name.                                 *)
LEMMA FourWords ==
  <<"HANDSHRESP">> \o <<"V01", Blank, "addr">> = <<"HANDSHRESP", "V01", Blank, "addr">>
<1> DEFINE s == <<"HANDSHRESP">> \o <<"V01", Blank, "addr">>
           t == <<"HANDSHRESP", "V01", Blank, "addr">>
           W == {"HANDSHRESP", "V01", Blank, "addr"}
<1>1. s \in Seq(W) /\ Len(s) = 4 /\ s[1] = "HANDSHRESP" /\ s[2] = "V01" /\ s[3] = Blank /\ s[4] = "addr"
  OBVIOUS
<1>2. t \in Seq(W) /\ Len(t) = 4 /\ t[1] = "HANDSHRESP" /\ t[2] = "V01" /\ t[3] = Blank /\ t[4] = "addr"
  OBVIOUS
<1> HIDE DEF s, t, W
<1>3. \A i \in 1..Len(s) : s[i] = t[i]
  BY <1>1, <1>2
<1>4. s = t
  BY <1>1, <1>2, <1>3, SeqEqual
<1> QED
  BY <1>4 DEF s, t

(* A response is read, unless the name in it is empty.                     *)
LEMMA ResponsesAreRead ==
  ASSUME NEW k, NEW m \in Responses(k)
  PROVE  IF m = Welcome(Blank) THEN ReadBack(m) = NoMessage ELSE ReadBack(m) = m
<1> DEFINE W == Words \ {Blank}
<1>1. /\ Blank \notin W
      /\ {"HANDSHRESP", "PINGRESP", "OPEER", "V01", "name", "addr", "resp", "host", "port"} \subseteq W
  BY DEF Words, Blank
<1>2. /\ {"HANDSHRESP", "PINGRESP", "OPEER"} \subseteq Keywords
      /\ MinTokens["HANDSHRESP"] = 4 /\ MinTokens["PINGRESP"] = 2 /\ MinTokens["OPEER"] = 3
  BY DEF Keywords, MinTokens
<1> HIDE DEF W
<1>3. CASE m = Welcome("name")
  <2> DEFINE f == <<"V01", "name", "addr">>
  <2>1. f \in Seq(W) /\ Len(f) = 3
    BY <1>1
  <2>2. "HANDSHRESP" \in W /\ "HANDSHRESP" \in Keywords
    BY <1>1, <1>2
  <2>3. m = [type |-> "HANDSHRESP", fields |-> f] /\ m # Welcome(Blank)
    <3>1. f[2] = "name" /\ <<"V01", Blank, "addr">>[2] = Blank /\ Blank # "name"
      BY DEF Blank
    <3>2. m = [type |-> "HANDSHRESP", fields |-> f]
      BY <1>3 DEF Welcome, Msg
    <3>3. m.fields[2] = "name" /\ Welcome(Blank).fields[2] = Blank
      BY <3>1, <3>2 DEF Welcome, Msg
    <3> QED
      BY <3>1, <3>2, <3>3
  <2> HIDE DEF f
  <2>4. Len(f) + 1 = MinTokens["HANDSHRESP"]
    BY <1>2, <2>1
  <2>5. ParseMessage(Tokens(<<"HANDSHRESP">> \o f)) = [type |-> "HANDSHRESP", fields |-> f]
    BY <1>1, <2>1, <2>2, <2>4, ReadAsWritten
  <2> QED
    BY <2>3, <2>5 DEF ReadBack
<1>4. CASE m = Msg("PINGRESP", <<"resp">>)
  <2> DEFINE f == <<"resp">>
  <2>1. f \in Seq(W) /\ Len(f) = 1
    BY <1>1
  <2>2. "PINGRESP" \in W /\ "PINGRESP" \in Keywords
    BY <1>1, <1>2
  <2>3. m = [type |-> "PINGRESP", fields |-> f] /\ m # Welcome(Blank)
    BY <1>4 DEF Welcome, Msg
  <2> HIDE DEF f
  <2>4. Len(f) + 1 = MinTokens["PINGRESP"]
    BY <1>2, <2>1
  <2>5. ParseMessage(Tokens(<<"PINGRESP">> \o f)) = [type |-> "PINGRESP", fields |-> f]
    BY <1>1, <2>1, <2>2, <2>4, ReadAsWritten
  <2> QED
    BY <2>3, <2>5 DEF ReadBack
<1>5. CASE m = Msg("OPEER", <<"host", "port">>)
  <2> DEFINE f == <<"host", "port">>
  <2>1. f \in Seq(W) /\ Len(f) = 2
    BY <1>1
  <2>2. "OPEER" \in W /\ "OPEER" \in Keywords
    BY <1>1, <1>2
  <2>3. m = [type |-> "OPEER", fields |-> f] /\ m # Welcome(Blank)
    BY <1>5 DEF Welcome, Msg
  <2> HIDE DEF f
  <2>4. Len(f) + 1 = MinTokens["OPEER"]
    BY <1>2, <2>1
  <2>5. ParseMessage(Tokens(<<"OPEER">> \o f)) = [type |-> "OPEER", fields |-> f]
    BY <1>1, <2>1, <2>2, <2>4, ReadAsWritten
  <2> QED
    BY <2>3, <2>5 DEF ReadBack
<1>6. CASE m = Welcome(Blank)
  <2> DEFINE a == "HANDSHRESP"
             b == "V01"
             d == "addr"
             s == Append(Append(Append(<<a>>, b), Blank), d)
  <2>1. /\ a \in Words /\ b \in Words /\ d \in Words /\ Blank \in Words
        /\ a # Blank /\ b # Blank /\ d # Blank
    BY DEF Words, Blank
  <2>2. ReadBack(m) = ParseMessage(Tokens(<<a>> \o <<b, Blank, d>>))
    BY <1>6 DEF ReadBack, Welcome, Msg
  <2>3. /\ a \in Keywords /\ MinTokens[a] = 4
    BY <1>2
  <2> HIDE DEF a, b, d
  <2>4. <<a>> \o <<b, Blank, d>> = s
    <3>1. Append(<<a>>, b) = <<a, b>>
      BY <2>1, AppendTwo, Zenon
    <3>2. Append(<<a, b>>, Blank) = <<a, b, Blank>>
      BY <2>1, AppendThree, Zenon
    <3>3. Append(<<a, b, Blank>>, d) = <<a>> \o <<b, Blank, d>>
      BY <2>1, AppendFour, ZenonT(30)
    <3> QED
      BY <3>1, <3>2, <3>3, Zenon
  <2> DEFINE l2 == Append(<<a>>, b)
             l3 == Append(l2, Blank)
  <2>5. Append(<<>>, a) = <<a>> /\ <<>> \in Seq(Words) /\ <<a>> \in Seq(Words)
    BY <2>1
  <2>6. l2 \in Seq(Words)
    BY <2>1, <2>5
  <2> HIDE DEF l2
  <2>7. l3 \in Seq(Words)
    BY <2>1, <2>6
  <2> HIDE DEF l3
  <2>8. Tokens(s) = Append(Tokens(l3), d) /\ Tokens(l3) = Tokens(l2)
    BY <2>1, <2>6, <2>7, TokensAppend, Zenon DEF l3, l2
  <2>9. Tokens(l2) = Append(Tokens(<<a>>), b) /\ Tokens(<<a>>) = Append(<<>>, a)
    <3>1. Tokens(l2) = Append(Tokens(<<a>>), b)
      BY <2>1, <2>5, TokensAppend, Zenon DEF l2
    <3>2. Tokens(Append(<<>>, a)) = Append(Tokens(<<>>), a)
      BY <2>1, <2>5, TokensAppend, Zenon
    <3> QED
      BY <2>5, <3>1, <3>2, TokensEmpty, Zenon
  <2> DEFINE t == <<a, b, d>>
  <2>10. Tokens(s) = t
    <3>1. Append(<<a>>, b) = <<a, b>>
      BY <2>1, AppendTwo, Zenon
    <3>2. Append(<<a, b>>, d) = <<a, b, d>>
      BY <2>1, AppendThree, Zenon
    <3> QED
      BY <2>5, <2>8, <2>9, <3>1, <3>2, Zenon
  <2>11. Len(t) = 3 /\ t[1] = a /\ ~(3 >= 4)
    OBVIOUS
  <2> HIDE DEF s, t
  <2>12. ParseMessage(t) = NoMessage
    BY <2>3, <2>11, Zenon DEF ParseMessage
  <2> QED
    BY <1>6, <2>2, <2>4, <2>10, <2>12, Zenon
<1> QED
  BY <1>3, <1>4, <1>5, <1>6, Zenon DEF Responses

-----------------------------------------------------------------------------
(* The text between the two sides *)

(* A read moves text from the network to the buffer.                       *)
LEMMA TextMoves ==
  ASSUME NEW b \in Texts, NEW w \in Texts, NEW k \in 1..Len(w)
  PROVE  /\ b \o SubSeq(w, 1, k) \in Texts /\ SubSeq(w, k + 1, Len(w)) \in Texts
         /\ (b \o SubSeq(w, 1, k)) \o SubSeq(w, k + 1, Len(w)) = b \o w
<1> DEFINE S == Words \cup {Terminator}
           x == SubSeq(w, 1, k)
           y == SubSeq(w, k + 1, Len(w))
<1>1. b \in Seq(S) /\ w \in Seq(S)
  BY DEF Texts
<1> HIDE DEF S
<1>2. Len(w) \in Nat /\ k \in 0..Len(w)
  BY <1>1
<1>3. x \in Seq(S) /\ y \in Seq(S)
  BY <1>1, <1>2
<1>4. x \o y = w
  <2>1. SubSeq(w, 1, k) \o SubSeq(w, k + 1, Len(w)) = SubSeq(w, 1, Len(w))
    BY <1>1, <1>2, ConcatAdjacentSubSeq
  <2>2. SubSeq(w, 1, Len(w)) = w
    BY <1>1, SubSeqFull
  <2> QED
    BY <2>1, <2>2
<1> HIDE DEF x, y
<1>5. b \o x \in Seq(S)
  BY <1>1, <1>3, ConcatProperties
<1>6. (b \o x) \o y = b \o (x \o y)
  <2>1. b \in Seq(S)
    BY <1>1
  <2>2. x \in Seq(S)
    BY <1>3
  <2>3. y \in Seq(S)
    BY <1>3
  <2> QED
    BY <2>1, <2>2, <2>3, ConcatAssociative, SMTT(30)
<1> QED
  BY <1>3, <1>4, <1>5, <1>6 DEF x, y, S, Texts

-----------------------------------------------------------------------------
(* The connection of the client *)

(* What the answers of libuv and of the application are.                   *)
LEMMA AnswerFacts ==
  ASSUME NEW r, NEW u \in Answers(r)
  PROVE  /\ u.others \in Nat /\ u.sent \in Nat /\ u.read \in BOOLEAN /\ u.found = TRUE
         /\ u.sent >= 1 /\ u.sent >= 1 + u.others
         /\ r.reading = FALSE => u.read = TRUE
         /\ again => u.read = TRUE
         /\ r.kind # "NodeIn" => u.others = 0
<1>1. /\ u \in [others: 0..MaxOther, sent: 0..(2 + 2 * MaxOther), read: BOOLEAN, found: BOOLEAN]
      /\ u.sent = 2 + 2 * MaxOther /\ u.found
      /\ (u.read <=> (r.reading => again)) /\ (r.kind # "NodeIn" => u.others = 0)
  BY DEF Answers, Outcomes
<1>2. u.others \in 0..MaxOther /\ u.read \in BOOLEAN /\ u.found \in BOOLEAN
  BY <1>1
<1>3. MaxOther \in Nat
  BY MaxOtherAssumption
<1> QED
  BY <1>1, <1>2, <1>3

(* Connect, whether uv_tcp_connect refuses or not.                         *)
LEMMA ClientConnects ==
  ASSUME NEW r, NEW n, NEW ok \in BOOLEAN, ClientInv(r, n), r.handle = "none"
  PROVE  /\ ClientInv(Connect(r, ok), n)
         /\ Connect(r, ok).why = {} /\ Connect(r, ok).st # "Received"
BY DEF ClientInv, Connect, Connections, States, Handles

(* What the client has become when it has sent what it now owes.           *)
Became(s, n) ==
  /\ s.owed \in {0, 1}
  /\ s.owed = 0 => ClientInv(s, n)
  /\ s.owed = 1 => ClientInv(s, n + 1)

(* onConnect: the handshake is written, or the connect has failed.         *)
LEMMA ClientConnected ==
  ASSUME NEW r, NEW n, NEW ok \in BOOLEAN, NEW u \in Answers(r),
         ClientInv(r, n), r.handle = "connecting", r.st # "Received",
         NEW s, s = OnConnect(r, ok, u)
  PROVE  Became(s, n) /\ n = 0 /\ s.why = {} /\ s.st # "Received"
<1>0. u.sent \in Nat /\ u.sent >= 1 /\ PingToSend \in Nat
  BY AnswerFacts, PingToSendAssumption
<1>1. /\ r \in Connections /\ r.kind = "ClientOut" /\ r.stream = TRUE /\ r.why = {}
      /\ r.reading = FALSE /\ r.owed = 0 /\ r.sends = 0 /\ n = 0
  BY DEF ClientInv, Connections
<1>2. CASE ok = FALSE
  <2>1. s = [r EXCEPT !.handle = "failed"]
    BY <1>2 DEF OnConnect
  <2>2. ClientInv(s, n) /\ s.owed = 0 /\ s.why = {} /\ s.st # "Received"
    BY <1>1, <2>1 DEF ClientInv, Connections, Handles
  <2> QED
    BY <1>1, <2>2 DEF Became
<1>3. CASE ok = TRUE
  <2> DEFINE c == [r EXCEPT !.st = "Connected", !.handle = "open"]
             d == [c EXCEPT !.sends = 0]
  <2>1. s = Process(c, u)
    BY <1>3 DEF OnConnect
  <2>2. c.kind = "ClientOut" /\ c.st = "Connected" /\ c.sends \in Nat
    BY <1>1 DEF Connections
  <2>3. /\ d \in Connections /\ d.stream = TRUE /\ d.st = "Connected"
        /\ d.why = {} /\ d.reading = FALSE /\ d.owed = 0 /\ d.sends = 0
        /\ d.kind = "ClientOut" /\ d.handle = "open"
    BY <1>1 DEF Connections, States, Handles
  <2> HIDE DEF c
  <2>4. Process(c, u) = ProcessClient(c, u)
    BY <2>2, ProcessKind
  <2>5. ProcessClient(c, u) = Send(d, 1, u.sent)
    BY <2>2, ProcessClientState
  <2> HIDE DEF d
  <2>10. s = Send(d, 1, u.sent) /\ d.st \notin Ended /\ d.handle # "closing" /\ 1 \in Nat
    BY <2>1, <2>3, <2>4, <2>5 DEF Ended
  <2>6. SentAll(d, s, 1)
    BY <1>0, <2>3, <2>10, SendAccepted
  <2>7. /\ s.kind = "ClientOut" /\ s.stream = TRUE /\ s.why = {}
        /\ s.reading = FALSE /\ s.owed = 1 /\ s.sends = 0 /\ s.st = "Sending"
        /\ s.handle = "open"
    BY <2>3, <2>6 DEF SentAll, Kept, Wrote, Connections
  <2>8. ClientInv(s, 1)
    BY <1>0, <2>6, <2>7 DEF SentAll, ClientInv
  <2>9. n + 1 = 1
    BY <1>1
  <2> QED
    BY <1>1, <2>7, <2>8, <2>9 DEF Became
<1> QED
  BY <1>2, <1>3

(* doRead: reading goes on, or libuv refuses to start it once more.        *)
HasRead(s, n) ==
  /\ ClientInv(s, n) /\ s.owed = 0 /\ s.st # "Received" /\ s.why \subseteq {"restart"}
  /\ s.handle \in {"open", "closing"}

(* doRead of a client whose first message has been written.                *)
LEMMA ClientReads ==
  ASSUME NEW r \in Connections, NEW n \in 0..(1 + PingToSend), NEW ok \in BOOLEAN,
         r.kind = "ClientOut", r.stream = TRUE, r.handle = "open", r.why = {},
         r.owed = 0, r.sends > 0, n = r.sends, r.reading = FALSE => ok = TRUE,
         NEW s, s = DoRead(r, ok)
  PROVE  HasRead(s, n) /\ (ok => s.why = {})
<1>1. /\ s \in Connections /\ Kept(r, s)
      /\ \/ Started(r, s)
         \/ /\ ~ok
            /\ \E why \in {"read", "restart"} :
                 /\ Refused(r, s, why) /\ s.owed = r.owed
                 /\ r.reading => why = "restart"
  BY DoReadEffect
<1>2. r.reading \in BOOLEAN /\ r.sends \in Nat
  BY DEF Connections
<1>3. CASE Started(r, s)
  <2>1. /\ s.kind = "ClientOut" /\ s.stream = TRUE /\ s.handle = "open" /\ s.why = {}
        /\ s.owed = 0 /\ s.sends = n /\ s.sends > 0 /\ s.st = "Receiving" /\ s.reading
    BY <1>1, <1>2, <1>3 DEF Started, Kept, Connections
  <2> QED
    BY <1>1, <2>1 DEF ClientInv, HasRead
<1>4. CASE ~Started(r, s)
  <2>1. r.reading /\ Refused(r, s, "restart") /\ s.owed = r.owed /\ ~ok
    BY <1>1, <1>2, <1>4
  <2>2. /\ s.kind = "ClientOut" /\ s.stream = FALSE /\ s.handle = "closing"
        /\ s.why = {"restart"} /\ s.owed = 0 /\ s.st = "Closing" /\ s.reading = FALSE
    BY <1>1, <2>1 DEF Refused, Kept, Connections
  <2> QED
    BY <1>1, <2>1, <2>2 DEF ClientInv, Ended, HasRead
<1> QED
  BY <1>3, <1>4

(* onWrite: the client counts the message and reads.                       *)
LEMMA ClientWrote ==
  ASSUME NEW r, NEW n, NEW ok \in BOOLEAN, NEW u \in Answers(r),
         ClientInv(r, n), r.owed > 0,
         NEW s, s = OnWrite(r, ok, u)
  PROVE  /\ r.owed = 1 /\ r.handle = "open" /\ r.st = "Sending"
         /\ ClientInv(s, n) /\ s.owed = 0 /\ s.st # "Received" /\ "done" \notin s.why
         /\ ok => s.why \subseteq {"restart"} /\ (again => s.why = {})
         /\ s.handle \in {"open", "closing"}
<1>0. /\ u.read \in BOOLEAN /\ (r.reading = FALSE => u.read = TRUE) /\ (again => u.read = TRUE)
      /\ PingToSend \in Nat
  BY AnswerFacts, PingToSendAssumption
<1>1. /\ r \in Connections /\ r.kind = "ClientOut" /\ r.handle \in Handles
      /\ r.owed \in Nat /\ r.reading \in BOOLEAN /\ r.sends \in Nat
      /\ n \in 0..(1 + PingToSend)
  BY DEF ClientInv, Connections
<1>2. /\ r.handle = "open" /\ r.owed = 1 /\ r.st = "Sending" /\ r.stream = TRUE /\ r.why = {}
      /\ n = r.sends + 1
  BY <1>1 DEF ClientInv, Handles
<1> DEFINE b == [r EXCEPT !.owed = @ - 1]
<1>3. /\ b \in Connections /\ b.owed = 0 /\ b.kind = "ClientOut" /\ b.st = "Sending"
      /\ b.stream = TRUE /\ b.handle = "open" /\ b.why = {}
      /\ b.reading = r.reading /\ b.sends = r.sends
  <2>1. b = [r EXCEPT !.owed = 0]
    BY <1>2
  <2> HIDE DEF b
  <2> QED
    BY <1>1, <1>2, <2>1 DEF Connections
<1>4. s = IF ok THEN Process(b, u) ELSE Close(b, "write")
  BY <1>2 DEF OnWrite
<1> HIDE DEF b
<1>5. CASE ok = TRUE
  <2> DEFINE c == [b EXCEPT !.sends = @ + 1]
  <2>1. /\ c \in Connections /\ c.owed = 0 /\ c.kind = "ClientOut"
        /\ c.stream = TRUE /\ c.handle = "open" /\ c.why = {}
        /\ c.reading = r.reading /\ c.sends = n /\ c.sends > 0
    <3> DEFINE more == b.sends + 1
    <3>1. more \in Nat /\ more = n /\ more > 0
      BY <1>1, <1>2, <1>3
    <3> HIDE DEF more
    <3>2. [b EXCEPT !.sends = more] \in Connections
      BY <1>3, <3>1 DEF Connections
    <3>3. c = [b EXCEPT !.sends = more]
      BY DEF more
    <3> HIDE DEF c
    <3> QED
      BY <1>3, <3>1, <3>2, <3>3 DEF Connections
  <2>2. Process(b, u) = ProcessClient(b, u)
    BY <1>3, ProcessKind
  <2>3. b.sends \in Nat
    BY <1>1, <1>3
  <2>4. ProcessClient(b, u) = DoRead(c, u.read)
    BY <1>3, <2>3, ProcessClientState
  <2>5. s = DoRead(c, u.read)
    BY <1>4, <1>5, <2>2, <2>4
  <2> HIDE DEF c
  <2>6. n = c.sends /\ (c.reading = FALSE => u.read = TRUE)
    BY <1>0, <2>1
  <2>7. HasRead(s, n) /\ (u.read => s.why = {})
    BY <1>0, <1>1, <2>1, <2>5, <2>6, ClientReads
  <2> QED
    BY <1>0, <1>2, <2>7 DEF HasRead
<1>6. CASE ok = FALSE
  <2>1. Shut(b, s, "write")
    BY <1>3, <1>4, <1>6, CloseEffect DEF Reasons
  <2>2. /\ s \in Connections /\ s.kind = "ClientOut" /\ s.stream = FALSE /\ s.handle = "closing"
        /\ s.why = {"write"} /\ s.owed = 0 /\ s.st = "Closing" /\ s.reading = FALSE
    BY <1>3, <2>1 DEF Shut, Kept, Connections
  <2> QED
    BY <1>1, <1>2, <1>6, <2>2 DEF ClientInv, Ended
<1> QED
  BY <1>5, <1>6

(* A message of the server is taken note of.                               *)
HasReceived(r, s, n) ==
  /\ ClientInv(s, n) /\ s.st = "Received" /\ s.owed = 0 /\ s.why = {}
  /\ s.handle = "open" /\ s.kind = "ClientOut"

(* messageReceived of ClientApp does nothing but take note.                *)
LEMMA ClientReceives ==
  ASSUME NEW r, NEW n, NEW m, NEW u, ClientInv(r, n), r.handle = "open", r.owed = 0,
         NEW s, s = Receive(r, m, u)
  PROVE  HasReceived(r, s, n)
<1>1. /\ r \in Connections /\ r.kind = "ClientOut" /\ r.stream = TRUE /\ r.why = {}
      /\ r.reading = TRUE /\ r.sends > 0 /\ n = r.sends + r.owed /\ n \in 0..(1 + PingToSend)
  BY DEF ClientInv, Connections, Handles
<1>2. s = [r EXCEPT !.st = "Received"]
  BY <1>1 DEF Receive
<1>3. /\ s \in Connections /\ s.kind = "ClientOut" /\ s.stream = TRUE /\ s.why = {}
      /\ s.reading = TRUE /\ s.sends = r.sends /\ s.owed = 0 /\ s.st = "Received"
      /\ s.handle = "open"
  BY <1>1, <1>2 DEF Connections, States
<1>4. s.sends > 0 /\ n = s.sends + s.owed
  BY <1>1, <1>3
<1> QED
  BY <1>1, <1>3, <1>4 DEF ClientInv, HasReceived

(* The message loop is done: the client reads on, sends, or ends.          *)
HasProcessed(r, s, n) ==
  /\ Became(s, n) /\ s.st # "Received"
  /\ s.why \subseteq (IF again THEN {"done"} ELSE {"done", "restart"})
  /\ "done" \in s.why => n = 1 + PingToSend
  /\ s.owed = 1 \/ "done" \in s.why => r.st = "Received"

(* process() after the message loop.                                       *)
LEMMA ClientProcesses ==
  ASSUME NEW r, NEW n, NEW u \in Answers(r), ClientInv(r, n), r.handle = "open", r.owed = 0,
         NEW s, s = Process(r, u)
  PROVE  HasProcessed(r, s, n)
<1>0. /\ u.sent \in Nat /\ u.sent >= 1 /\ u.read \in BOOLEAN /\ (again => u.read = TRUE)
      /\ PingToSend \in Nat
  BY AnswerFacts, PingToSendAssumption
<1>1. /\ r \in Connections /\ r.kind = "ClientOut" /\ r.stream = TRUE /\ r.why = {}
      /\ r.reading = TRUE /\ r.sends > 0 /\ r.sends \in Nat /\ n = r.sends
      /\ r.st \in {"Receiving", "Received"} /\ n \in 0..(1 + PingToSend)
  BY DEF ClientInv, Connections, Handles
<1>2. s = ProcessClient(r, u)
  BY <1>1, ProcessKind
<1>3. CASE r.st = "Receiving"
  <2>1. s = DoRead(r, u.read)
    BY <1>1, <1>2, <1>3, ProcessClientState
  <2>2. r.reading = FALSE => u.read = TRUE
    BY <1>1
  <2>3. HasRead(s, n) /\ (u.read => s.why = {})
    BY <1>0, <1>1, <2>1, <2>2, ClientReads
  <2>4. s.why \subseteq (IF again THEN {"done"} ELSE {"done", "restart"})
    BY <1>0, <2>3 DEF HasRead
  <2> QED
    BY <2>3, <2>4 DEF HasRead, HasProcessed, Became
<1>4. CASE r.st = "Received" /\ r.sends >= 1 + PingToSend
  <2>1. s = Close(r, "done")
    BY <1>1, <1>2, <1>4, ProcessClientState
  <2>2. Shut(r, s, "done")
    BY <1>1, <2>1, CloseEffect DEF Reasons
  <2>3. /\ s \in Connections /\ s.kind = "ClientOut" /\ s.stream = FALSE /\ s.handle = "closing"
        /\ s.why = {"done"} /\ s.owed = 0 /\ s.st = "Closing" /\ s.reading = FALSE
    BY <1>1, <2>2 DEF Shut, Kept, Connections
  <2>4. n = 1 + PingToSend
    BY <1>0, <1>1, <1>4
  <2>5. ClientInv(s, n)
    BY <1>1, <2>3, <2>4 DEF ClientInv, Ended
  <2> QED
    BY <1>4, <2>3, <2>4, <2>5 DEF HasProcessed, Became
<1>5. CASE r.st = "Received" /\ r.sends >= 1 /\ r.sends <= PingToSend
  <2>1. s = Send(r, 1, u.sent)
    BY <1>1, <1>2, <1>5, ProcessClientState
  <2>2. r.st \notin Ended /\ r.handle # "closing" /\ 1 \in Nat
    BY <1>5 DEF Ended
  <2>3. SentAll(r, s, 1)
    BY <1>0, <1>1, <2>1, <2>2, SendAccepted
  <2>4. /\ s.kind = "ClientOut" /\ s.stream = TRUE /\ s.handle = "open" /\ s.why = {}
        /\ s.owed = 1 /\ s.sends = n /\ s.sends > 0 /\ s.st = "Sending" /\ s.reading = TRUE
    BY <1>1, <2>3 DEF SentAll, Wrote, Kept, Connections
  <2>5. n + 1 \in 0..(1 + PingToSend) /\ n + 1 = s.sends + s.owed
    BY <1>0, <1>1, <1>5, <2>4
  <2>6. ClientInv(s, n + 1)
    BY <2>3, <2>4, <2>5 DEF SentAll, ClientInv
  <2> QED
    BY <1>5, <2>4, <2>6 DEF HasProcessed, Became
<1> QED
  BY <1>0, <1>1, <1>3, <1>4, <1>5

(* The end of the stream.                                                  *)
LEMMA ClientLosesServer ==
  ASSUME NEW r, NEW n, ClientInv(r, n), r.handle = "open", r.owed = 0,
         NEW s, s = Close(r, "eof")
  PROVE  /\ ClientInv(s, n) /\ s.st = "Closing" /\ s.owed = 0 /\ s.handle = "closing"
         /\ s.why = {"eof"} /\ s.kind = "ClientOut"
<1>1. /\ r \in Connections /\ r.kind = "ClientOut" /\ r.stream = TRUE /\ r.why = {}
      /\ n \in 0..(1 + PingToSend)
  BY DEF ClientInv, Connections, Handles
<1>2. Shut(r, s, "eof")
  BY <1>1, CloseEffect DEF Reasons
<1>3. /\ s \in Connections /\ s.kind = "ClientOut" /\ s.stream = FALSE /\ s.handle = "closing"
      /\ s.why = {"eof"} /\ s.owed = 0 /\ s.st = "Closing" /\ s.reading = FALSE
  BY <1>1, <1>2 DEF Shut, Kept, Connections
<1> QED
  BY <1>1, <1>3 DEF ClientInv, Ended

(* on_close.                                                               *)
LEMMA ClientIsClosed ==
  ASSUME NEW r, NEW n, ClientInv(r, n), r.handle = "closing",
         NEW s, s = OnClose(r)
  PROVE  /\ ClientInv(s, n) /\ s.st = "Closed" /\ s.owed = 0 /\ s.handle = "closed"
         /\ s.why = r.why /\ s.kind = "ClientOut"
<1>1. /\ r \in Connections /\ r.kind = "ClientOut" /\ r.stream = FALSE /\ r.why # {}
      /\ r.owed = 0 /\ r.reading = FALSE /\ n \in 0..(1 + PingToSend)
      /\ "done" \in r.why => n = 1 + PingToSend
  BY DEF ClientInv, Connections, Handles
<1> DEFINE more == r.dels + 1
           g == [r EXCEPT !.handle = "closed", !.dels = more, !.st = "Closed"]
<1>2. more \in Nat
  BY <1>1 DEF Connections
<1>3. s = IF r.obj = "freed" THEN Fault(g, "useAfterFree") ELSE g
  BY <1>1 DEF OnClose, ConnectionClosed
<1> HIDE DEF more
<1>4. /\ g \in Connections /\ g.kind = "ClientOut" /\ g.stream = FALSE /\ g.handle = "closed"
      /\ g.why = r.why /\ g.owed = 0 /\ g.st = "Closed" /\ g.reading = FALSE
  BY <1>1, <1>2 DEF Connections, States, Handles
<1> HIDE DEF g
<1>5. /\ s \in Connections /\ s.kind = "ClientOut" /\ s.stream = FALSE /\ s.handle = "closed"
      /\ s.why = r.why /\ s.owed = 0 /\ s.st = "Closed" /\ s.reading = FALSE
  <2>1. g.faults \cup {"useAfterFree"} \in SUBSET Faults
    BY <1>4 DEF Connections, Faults
  <2> QED
    BY <1>3, <1>4, <2>1 DEF Fault, Connections
<1> QED
  BY <1>1, <1>5 DEF ClientInv, Ended

-----------------------------------------------------------------------------
(* The connection of the server *)

HasAccepted(r, s) ==
  ServerInv(s) /\ s.kind = r.kind /\ s.handle = "open" /\ s.why = {} /\ s.owed = r.owed

(* onNewConnection: the first doRead is not refused.                       *)
LEMMA ServerAccepts ==
  ASSUME NEW r, NEW u \in Answers(r), ServerInv(r), r.handle = "none",
         NEW s, s = DoRead(Accepted(r), u.read)
  PROVE  HasAccepted(r, s)
<1>1. /\ r \in Connections /\ r.kind \in InKinds /\ r.why = {} /\ r.reading = FALSE
      /\ r.owed = 0
  BY DEF ServerInv, Connections
<1>2. u.read = TRUE
  BY <1>1, AnswerFacts
<1> DEFINE a == Accepted(r)
<1>3. /\ a \in Connections /\ a.kind = r.kind /\ a.why = {} /\ a.stream = TRUE
      /\ a.handle = "open" /\ a.owed = 0 /\ a.reading = FALSE
  BY <1>1 DEF Accepted, Connections, States, Handles
<1> HIDE DEF a
<1>4. /\ s \in Connections /\ Kept(a, s)
      /\ \/ Started(a, s)
         \/ /\ ~u.read
            /\ \E why \in {"read", "restart"} :
                 /\ Refused(a, s, why) /\ s.owed = a.owed
                 /\ a.reading => why = "restart"
  BY <1>2, <1>3, DoReadEffect DEF a
<1>5. Started(a, s)
  BY <1>2, <1>4
<1>6. /\ s.kind = r.kind /\ s.why = {} /\ s.stream = TRUE /\ s.handle = "open"
      /\ s.owed = 0 /\ s.reading = TRUE /\ s.st = "Receiving"
  BY <1>3, <1>4, <1>5 DEF Started, Kept, Connections
<1> QED
  BY <1>1, <1>4, <1>6 DEF ServerInv, HasAccepted, Ended

(* A request is answered with as many messages as are written.             *)
HasAnswered(r, s, n) ==
  ServerInv(s) /\ s.kind = r.kind /\ s.handle = "open" /\ s.why = {} /\ s.owed = r.owed + n

(* sendMessage in messageReceived.                                         *)
LEMMA ServerSends ==
  ASSUME NEW r, NEW n \in Nat, NEW sent \in Nat, sent >= n, ServerInv(r), r.handle = "open",
         NEW g, g = [r EXCEPT !.st = "Received"], NEW s, s = Send(g, n, sent)
  PROVE  HasAnswered(r, s, n)
<1>1. /\ r \in Connections /\ r.kind \in InKinds /\ r.stream = TRUE /\ r.reading = TRUE
      /\ r.why = {} /\ r.owed \in Nat
  BY DEF ServerInv, Connections
<1>2. /\ g \in Connections /\ g.kind = r.kind /\ g.stream = TRUE /\ g.reading = TRUE
      /\ g.why = {} /\ g.handle = "open" /\ g.owed = r.owed /\ g.st = "Received"
  BY <1>1 DEF Connections, States
<1>3. g.st \notin Ended /\ g.handle # "closing"
  BY <1>2 DEF Ended
<1>4. SentAll(g, s, n)
  BY <1>2, <1>3, SendAccepted
<1>5. /\ s \in Connections /\ s.kind = r.kind /\ s.why = {} /\ s.stream = TRUE
      /\ s.handle = "open" /\ s.owed = r.owed + n /\ s.reading = TRUE /\ s.st = "Sending"
  BY <1>2, <1>4 DEF SentAll, Wrote, Kept, Connections
<1> QED
  BY <1>1, <1>5 DEF ServerInv, HasAnswered, Ended

(* The handshake is answered with the peers, the ping with one message.    *)
LEMMA ServerReceives ==
  ASSUME NEW r, NEW u \in Answers(r), ServerInv(r), r.handle = "open"
  PROVE  /\ HasAnswered(r, Receive(r, "Handshake", u), 1 + u.others)
         /\ HasAnswered(r, Receive(r, "Ping", u), 1)
<1>1. /\ u.others \in Nat /\ u.sent \in Nat /\ u.sent >= 1 /\ u.sent >= 1 + u.others
      /\ u.found = TRUE /\ (r.kind # "NodeIn" => u.others = 0)
  BY AnswerFacts
<1>0. 1 + u.others \in Nat /\ 1 \in Nat
  BY <1>1
<1>2. r \in Connections /\ r.kind \in {"ServerIn", "NodeIn"}
  BY DEF ServerInv, InKinds
<1> DEFINE g == [r EXCEPT !.st = "Received"]
<1>3. g.kind = r.kind
  BY <1>2 DEF Connections
<1>4. HasAnswered(r, Send(g, 1, u.sent), 1)
  BY <1>0, <1>1, ServerSends
<1>5. HasAnswered(r, Send(g, 1 + u.others, u.sent), 1 + u.others)
  BY <1>0, <1>1, ServerSends
<1>6. Receive(r, "Ping", u) = Send(g, 1, u.sent)
  <2>1. CASE r.kind = "ServerIn"
    BY <2>1 DEF Receive, ServerMessage
  <2>2. CASE r.kind = "NodeIn"
    BY <2>2 DEF Receive, NodeMessage
  <2> QED
    BY <1>2, <2>1, <2>2
<1>7. r.kind = "NodeIn" => Receive(r, "Handshake", u) = Send(g, 1 + u.others, u.sent)
  BY <1>1 DEF Receive, NodeMessage
<1>8. r.kind = "ServerIn" => Receive(r, "Handshake", u) = Send(g, 1, u.sent)
  BY <1>1 DEF Receive, ServerMessage
<1>9. r.kind = "ServerIn" => 1 + u.others = 1
  BY <1>1
<1> HIDE DEF g
<1> QED
  BY <1>2, <1>4, <1>5, <1>6, <1>7, <1>8, <1>9

(* on_write: nothing else is done, unless the write has failed.            *)
HasWritten(r, s) ==
  /\ ServerInv(s) /\ s.kind = r.kind /\ s.owed + 1 = r.owed
  /\ s.handle = r.handle \/ s.handle = "closing"

(* onWrite at the server: process() of NetClientIn does nothing.           *)
LEMMA ServerWrote ==
  ASSUME NEW r, NEW ok \in BOOLEAN, NEW u, ServerInv(r), r.owed > 0,
         NEW s, s = OnWrite(r, ok, u)
  PROVE  HasWritten(r, s) /\ (ok => s.why = r.why)
<1>1. /\ r \in Connections /\ r.kind \in InKinds /\ r.handle \in {"open", "closing"}
      /\ r.owed \in Nat /\ r.faults \in SUBSET Faults
      /\ (r.stream <=> r.handle = "open") /\ (r.reading <=> r.handle = "open")
      /\ (r.why = {} <=> r.handle = "open") /\ (r.handle = "open" => r.st \notin Ended)
      /\ r.stream \in BOOLEAN /\ r.reading \in BOOLEAN
  BY DEF ServerInv, Connections
<1> DEFINE a == IF r.st \in {"Sending", "Receiving", "Received"} THEN r ELSE Fault(r, "onWrite")
           less == a.owed - 1
           b == [a EXCEPT !.owed = less]
<1>2. /\ a \in Connections /\ a.kind = r.kind /\ a.handle = r.handle /\ a.owed = r.owed
      /\ a.why = r.why /\ a.st = r.st /\ a.stream = r.stream /\ a.reading = r.reading
  <2>1. r.faults \cup {"onWrite"} \in SUBSET Faults
    BY <1>1 DEF Faults
  <2> QED
    BY <1>1, <2>1 DEF Fault, Connections
<1>3. s = IF ok THEN Process(b, u) ELSE Close(b, "write")
  BY DEF OnWrite
<1> HIDE DEF a
<1>4. less \in Nat /\ less + 1 = r.owed
  BY <1>1, <1>2
<1> HIDE DEF less
<1>5. /\ b \in Connections /\ b.kind = r.kind /\ b.handle = r.handle /\ b.owed = less
      /\ b.why = r.why /\ b.st = r.st /\ b.stream = r.stream /\ b.reading = r.reading
  BY <1>2, <1>4 DEF Connections
<1> HIDE DEF b
<1>6. CASE ok = TRUE
  <2>1. s = b
    BY <1>1, <1>3, <1>5, <1>6, ProcessKind
  <2> QED
    BY <1>1, <1>4, <1>5, <2>1 DEF ServerInv, HasWritten
<1>7. CASE ok = FALSE
  <2>1. ~(b.stream /\ b.handle = "closing")
    BY <1>1, <1>5
  <2>2. Shut(b, s, "write")
    BY <1>3, <1>5, <1>7, <2>1, CloseEffect DEF Reasons
  <2>3. /\ s \in Connections /\ s.kind = r.kind /\ s.stream = FALSE /\ s.handle = "closing"
        /\ s.why # {} /\ s.owed = less /\ s.reading = FALSE
    BY <1>1, <1>5, <2>2 DEF Shut, Kept, Connections
  <2> QED
    BY <1>1, <1>4, <1>7, <2>3 DEF ServerInv, HasWritten
<1> QED
  BY <1>6, <1>7

(* The end of the stream.                                                  *)
LEMMA ServerLosesClient ==
  ASSUME NEW r, ServerInv(r), r.handle = "open", NEW s, s = Close(r, "eof")
  PROVE  ServerInv(s) /\ s.kind = r.kind /\ s.handle = "closing" /\ s.owed = r.owed
<1>1. /\ r \in Connections /\ r.kind \in InKinds /\ r.stream = TRUE
  BY DEF ServerInv, Connections
<1>2. Shut(r, s, "eof")
  BY <1>1, CloseEffect DEF Reasons
<1>3. /\ s \in Connections /\ s.kind = r.kind /\ s.stream = FALSE /\ s.handle = "closing"
      /\ s.why # {} /\ s.owed = r.owed /\ s.reading = FALSE
  BY <1>1, <1>2 DEF Shut, Kept, Connections
<1> QED
  BY <1>1, <1>3 DEF ServerInv

(* on_close.                                                               *)
LEMMA ServerIsClosed ==
  ASSUME NEW r, ServerInv(r), r.handle = "closing", r.owed = 0, NEW s, s = OnClose(r)
  PROVE  ServerInv(s) /\ s.kind = r.kind /\ s.handle = "closed" /\ s.owed = 0
<1>1. /\ r \in Connections /\ r.kind \in InKinds /\ r.stream = FALSE /\ r.why # {}
      /\ r.reading = FALSE /\ r.timer \in Timers
  BY DEF ServerInv, Connections
<1> DEFINE more == r.dels + 1
           timer == IF r.timer = "on" THEN "stopped" ELSE r.timer
           told == [r EXCEPT !.obj = "freed", !.timer = timer]
           g == [told EXCEPT !.handle = "closed", !.dels = more, !.st = "Closed"]
<1>2. more \in Nat /\ timer \in Timers
  BY <1>1 DEF Connections, Timers
<1>3. r.kind # "ClientOut"
  BY <1>1 DEF InKinds
<1>4. ConnectionClosed(r) = told
  BY <1>1, <1>3 DEF ConnectionClosed
<1>5. told.obj = "freed"
  BY <1>1 DEF Connections
<1>6. s = Fault(g, "useAfterFree")
  BY <1>4, <1>5 DEF OnClose
<1> HIDE DEF more, timer
<1>7. /\ told \in Connections /\ told.kind = r.kind /\ told.stream = FALSE
      /\ told.why = r.why /\ told.owed = 0 /\ told.reading = FALSE
  BY <1>1, <1>2 DEF Connections
<1> HIDE DEF told
<1>8. /\ g \in Connections /\ g.kind = r.kind /\ g.stream = FALSE /\ g.handle = "closed"
      /\ g.why = r.why /\ g.owed = 0 /\ g.reading = FALSE
  BY <1>1, <1>2, <1>7 DEF Connections, States, Handles
<1> HIDE DEF g
<1>9. /\ s \in Connections /\ s.kind = r.kind /\ s.stream = FALSE /\ s.handle = "closed"
      /\ s.why = r.why /\ s.owed = 0 /\ s.reading = FALSE
  <2>1. g.faults \cup {"useAfterFree"} \in SUBSET Faults
    BY <1>8 DEF Connections, Faults
  <2> QED
    BY <1>6, <1>8, <2>1 DEF Fault, Connections
<1> QED
  BY <1>1, <1>9 DEF ServerInv

-----------------------------------------------------------------------------
(* Messages on their way *)

(* At first nothing is on its way.                                         *)
LEMMA NothingCarried == ASSUME NEW M  PROVE Carries(<<>>, <<>>, M, 0)
<1>1. <<>> \in Seq(M) /\ Len(<<>>) = 0 /\ <<>> \o <<>> = <<>>
  OBVIOUS
<1> QED
  BY <1>1, TextEmpty, Zenon DEF Carries

(* k of the messages ns are sent.                                          *)
LEMMA CarriesMore ==
  ASSUME NEW M, \A m \in M : Wordy(m, Words), NEW b \in Texts, NEW w \in Texts, NEW n \in Nat,
         Carries(b, w, M, n), NEW ns \in Seq(M), NEW k \in 0..Len(ns)
  PROVE  /\ Carries(b, w \o TextOf(SubSeq(ns, 1, k)), M, n + k)
         /\ w \o TextOf(SubSeq(ns, 1, k)) \in Texts
<1> DEFINE sub == SubSeq(ns, 1, k)
<1>1. sub \in Seq(M) /\ Len(sub) = k
  OBVIOUS
<1> HIDE DEF sub
<1>2. PICK q \in Seq(M) : Len(q) = n /\ b \o w = TextOf(q)
  BY DEF Carries
<1> DEFINE S == Words \cup {Terminator}
           t == TextOf(sub)
<1>3. /\ q \o sub \in Seq(M) /\ Len(q \o sub) = n + k
      /\ w \o t \in Texts /\ b \o (w \o t) = TextOf(q \o sub)
  <2>1. \A m \in M : OnWire(m) \in Seq(S)
    BY OnWireInSeq
  <2>2. b \in Seq(S) /\ w \in Seq(S) /\ Texts = Seq(S)
    BY DEF Texts
  <2> HIDE DEF S
  <2>3. t \in Seq(S) /\ TextOf(q \o sub) = TextOf(q) \o t
    BY <1>1, <1>2, <2>1, TextInSeq, TextConcat
  <2>4. q \o sub \in Seq(M) /\ Len(q \o sub) = n + k
    BY <1>1, <1>2, ConcatProperties
  <2> HIDE DEF t
  <2>5. w \o t \in Seq(S)
    BY <2>2, <2>3, ConcatProperties
  <2>6. \A x, y, z \in Seq(S) : (x \o y) \o z = x \o (y \o z)
    BY ConcatAssociative, SMTT(30)
  <2>7. b \o (w \o t) = (b \o w) \o t
    BY <2>2, <2>3, <2>6, Zenon
  <2> QED
    BY <1>2, <2>2, <2>3, <2>4, <2>5, <2>7, Zenon
<1>5. Carries(b, w \o TextOf(sub), M, n + k)
  BY <1>3, Zenon DEF Carries
<1> QED
  BY <1>3, <1>5 DEF sub

(* A read changes nothing about what is on its way.                        *)
LEMMA CarriesOn ==
  ASSUME NEW M, NEW b \in Texts, NEW w \in Texts, NEW n,
         Carries(b, w, M, n), NEW k \in 1..Len(w)
  PROVE  Carries(b \o SubSeq(w, 1, k), SubSeq(w, k + 1, Len(w)), M, n)
<1>1. (b \o SubSeq(w, 1, k)) \o SubSeq(w, k + 1, Len(w)) = b \o w
  BY TextMoves
<1> QED
  BY <1>1, Zenon DEF Carries

(* The first line is a message, and after it one less is on its way.       *)
Taken(b, w, M, n, m) ==
  /\ m \in M /\ n > 0 /\ AfterLine(b) \in Texts /\ Carries(AfterLine(b), w, M, n - 1)
  /\ FirstLine(b) = <<m.type>> \o m.fields
  /\ ParseMessage(Tokens(FirstLine(b))) = ReadBack(m)

(* The first line of the buffer is taken.                                  *)
LEMMA CarriesLess ==
  ASSUME NEW M, \A m \in M : Wordy(m, Words), NEW b \in Texts, NEW w \in Texts, NEW n \in Nat,
         Carries(b, w, M, n), HasLine(b)
  PROVE  \E m \in M : Taken(b, w, M, n, m)
<1>1. PICK q \in Seq(M) : Len(q) = n /\ b \o w = TextOf(q)
  BY DEF Carries
<1>2. b \in Seq(Words \cup {Terminator}) /\ w \in Seq(Words \cup {Terminator})
      /\ Texts = Seq(Words \cup {Terminator})
  BY DEF Texts
<1>3. Reads(b, w, q)
  BY <1>1 DEF Reads
<1>4. /\ q # <<>> /\ Head(q) \in M /\ Tail(q) \in Seq(M) /\ FirstLine(b) = Line(Head(q))
      /\ AfterLine(b) \in Texts /\ Reads(AfterLine(b), w, Tail(q))
  BY <1>1, <1>2, <1>3, FirstIsTaken
<1>5. n > 0 /\ Len(Tail(q)) = n - 1
  BY <1>1, <1>4
<1>6. AfterLine(b) \o w = TextOf(Tail(q)) /\ FirstLine(b) = <<Head(q).type>> \o Head(q).fields
  BY <1>4 DEF Reads, Line
<1>7. Carries(AfterLine(b), w, M, n - 1)
  BY <1>4, <1>5, <1>6, Zenon DEF Carries
<1>8. Taken(b, w, M, n, Head(q))
  BY <1>4, <1>5, <1>6, <1>7 DEF Taken, ReadBack
<1> QED
  BY <1>4, <1>8

(* A request is understood, and so is a response with a name.              *)
LEMMA RequestMeans ==
  ASSUME NEW m \in Requests
  PROVE  ReadBack(m) = m /\ m # NoMessage /\ m.type \in {"HANDSH", "PING"}
<1>1. ReadBack(m) = m
  BY RequestsAreRead
<1>2. m.type \in {"HANDSH", "PING"}
  BY DEF Requests, Msg
<1>3. NoMessage.type = "none"
  BY DEF NoMessage
<1> QED
  BY <1>1, <1>2, <1>3

(* A response is understood, but for the one without a name.               *)
LEMMA ResponseMeans ==
  ASSUME NEW k, NEW m \in Responses(k)
  PROVE  \/ k # "NodeIn" /\ m = Welcome(Blank) /\ ReadBack(m) = NoMessage
         \/ ReadBack(m) = m /\ m # NoMessage
<1>1. m.type \in {"HANDSHRESP", "PINGRESP", "OPEER"}
  BY DEF Responses, Welcome, Msg
<1>2. NoMessage.type = "none"
  BY DEF NoMessage
<1>3. m # NoMessage
  BY <1>1, <1>2
<1>4. k = "NodeIn" => m # Welcome(Blank)
  <2> SUFFICES ASSUME k = "NodeIn", m = Welcome(Blank)  PROVE FALSE
    OBVIOUS
  <2>1. m \in {Welcome("name"), Msg("PINGRESP", <<"resp">>), Msg("OPEER", <<"host", "port">>)}
    BY Zenon DEF Responses
  <2>2. m.type = "HANDSHRESP" /\ m.fields[2] = Blank /\ Blank # "name"
    BY DEF Welcome, Msg, Blank
  <2>3. CASE m = Welcome("name")
    <3>1. m.fields[2] = "name"
      BY <2>3 DEF Welcome, Msg
    <3> QED
      BY <2>2, <3>1
  <2>4. CASE m # Welcome("name")
    BY <2>1, <2>2, <2>4 DEF Msg
  <2> QED
    BY <2>3, <2>4
<1> QED
  BY <1>3, <1>4, ResponsesAreRead

(* What a client sends is a request.                                       *)
LEMMA ClientAsks == ASSUME NEW r PROVE <<ClientMessage(r)>> \in Seq(Requests)
<1>1. ClientMessage(r) \in Requests
  BY Zenon DEF ClientMessage, Requests
<1> QED
  BY <1>1

(* What a server replies to a request is a number of responses.            *)
LEMMA ServerReplies ==
  ASSUME kind \in InKinds, kind = "NodeIn" => named, NEW others \in Nat
  PROVE  /\ Replies("HANDSH", others) \in Seq(Responses(kind))
         /\ Len(Replies("HANDSH", others)) = 1 + others
         /\ Replies("PING", others) \in Seq(Responses(kind))
         /\ Len(Replies("PING", others)) = 1
<1> DEFINE M == Responses(kind)
           o == Msg("OPEER", <<"host", "port">>)
           p == Msg("PINGRESP", <<"resp">>)
           h == Welcome(MyName)
           rest == [i \in 1..others |-> o]
<1>1. o \in M /\ p \in M
  BY Zenon DEF Responses
<1>2. h \in M
  BY Zenon DEF Responses, MyName
<1>3. Replies("PING", others) = <<p>>
  BY DEF Replies
<1>4. Replies("HANDSH", others) = <<h>> \o rest
  BY DEF Replies, Welcome
<1> HIDE DEF M, o, p, h
<1>5. rest \in Seq(M) /\ Len(rest) = others
  BY <1>1
<1> HIDE DEF rest
<1>6. <<h>> \in Seq(M) /\ Len(<<h>>) = 1 /\ <<p>> \in Seq(M) /\ Len(<<p>>) = 1
  BY <1>1, <1>2
<1>7. <<h>> \o rest \in Seq(M) /\ Len(<<h>> \o rest) = 1 + others
  BY <1>5, <1>6, ConcatProperties
<1> QED
  BY <1>3, <1>4, <1>6, <1>7 DEF M

-----------------------------------------------------------------------------
(* Steps of one side *)

(* Text has been sent to side d.                                           *)
Grows(d) == \E t \in Texts : wire'[d] = wire[d] \o t

(* The client has become s and has sent k requests.                        *)
ClientBecame(s, k) ==
  /\ conn' \in [Sides -> Connections] /\ conn'.client = s /\ conn'.server = conn.server
  /\ wire' \in [Sides -> Texts] /\ wire'.client = wire.client
  /\ asked' = asked + k /\ Grows("server")
  /\ \A n \in Nat : Carries(buffer.server, wire.server, Requests, n) =>
                     Carries(buffer.server, wire'.server, Requests, n + k)

(* The client sends requests.                                              *)
LEMMA ClientSends ==
  ASSUME ShapeInv, NEW ms \in Seq(Requests), NEW s \in Connections, NEW owed \in Nat,
         NEW k \in 0..Len(ms), s.owed = owed + k, Becomes("client", s, owed, ms)
  PROVE  ClientBecame(s, k)
<1>1. /\ conn \in [Sides -> Connections] /\ buffer \in [Sides -> Texts]
      /\ wire \in [Sides -> Texts]
  BY DEF ShapeInv, TypeOK
<1>2. s.owed - owed = k
  OBVIOUS
<1> DEFINE t == wire["server"] \o TextOf(SubSeq(ms, 1, k))
<1>3. /\ conn' = [conn EXCEPT !["client"] = s] /\ wire' = [wire EXCEPT !["server"] = t]
      /\ asked' = asked + k
  BY <1>2 DEF Becomes, Far
<1>4. "client" \in Sides /\ "server" \in Sides /\ buffer["server"] \in Texts /\ wire["server"] \in Texts
  BY <1>1 DEF Sides
<1>5. \A n \in Nat : Carries(buffer["server"], wire["server"], Requests, n) =>
                      Carries(buffer["server"], t, Requests, n + k)
  BY <1>4, RequestsAreWords, CarriesMore
<1>9. TextOf(SubSeq(ms, 1, k)) \in Texts
  <2>1. /\ \A m \in Requests : OnWire(m) \in Seq(Words \cup {Terminator})
        /\ SubSeq(ms, 1, k) \in Seq(Requests)
    BY RequestsAreWords, OnWireInSeq
  <2> QED
    BY <2>1, TextInSeq DEF Texts
<1>6. t \in Texts
  BY <1>4, <1>9, ConcatProperties DEF Texts
<1>10. \E x \in Texts : t = wire["server"] \o x
  BY <1>9
<1> HIDE DEF t
<1>7. conn' \in [Sides -> Connections] /\ conn'["client"] = s /\ conn'["server"] = conn["server"]
  BY <1>1, <1>3, <1>4
<1>8. wire' \in [Sides -> Texts] /\ wire'["client"] = wire["client"] /\ wire'["server"] = t
  BY <1>1, <1>3, <1>4, <1>6
<1> QED
  BY <1>3, <1>5, <1>7, <1>8, <1>10 DEF Grows, ClientBecame

(* The server has become s and has sent k responses.                       *)
ServerBecame(s, k) ==
  /\ conn' \in [Sides -> Connections] /\ conn'.server = s /\ conn'.client = conn.client
  /\ wire' \in [Sides -> Texts] /\ wire'.server = wire.server
  /\ asked' = asked /\ Grows("client")
  /\ \A n \in Nat : Carries(buffer.client, wire.client, Responses(kind), n) =>
                     Carries(buffer.client, wire'.client, Responses(kind), n + k)

(* The server sends responses.                                             *)
LEMMA ServerResponds ==
  ASSUME ShapeInv, asked \in Nat, NEW ms \in Seq(Responses(kind)), NEW s \in Connections,
         NEW owed \in Int, NEW k \in 0..Len(ms), s.owed = owed + k,
         Becomes("server", s, owed, ms)
  PROVE  ServerBecame(s, k)
<1>1. /\ conn \in [Sides -> Connections] /\ buffer \in [Sides -> Texts]
      /\ wire \in [Sides -> Texts]
  BY DEF ShapeInv, TypeOK
<1>2. s.owed - owed = k
  OBVIOUS
<1> DEFINE t == wire["client"] \o TextOf(SubSeq(ms, 1, k))
<1>3. /\ conn' = [conn EXCEPT !["server"] = s] /\ wire' = [wire EXCEPT !["client"] = t]
      /\ asked' = asked
  BY <1>2 DEF Becomes, Far
<1>4. "client" \in Sides /\ "server" \in Sides /\ buffer["client"] \in Texts /\ wire["client"] \in Texts
  BY <1>1 DEF Sides
<1>5. \A n \in Nat : Carries(buffer["client"], wire["client"], Responses(kind), n) =>
                      Carries(buffer["client"], t, Responses(kind), n + k)
  BY <1>4, ResponsesAreWords, CarriesMore
<1>9. TextOf(SubSeq(ms, 1, k)) \in Texts
  <2>1. /\ \A m \in Responses(kind) : OnWire(m) \in Seq(Words \cup {Terminator})
        /\ SubSeq(ms, 1, k) \in Seq(Responses(kind))
    BY ResponsesAreWords, OnWireInSeq
  <2> QED
    BY <2>1, TextInSeq DEF Texts
<1>6. t \in Texts
  BY <1>4, <1>9, ConcatProperties DEF Texts
<1>10. \E x \in Texts : t = wire["client"] \o x
  BY <1>9
<1> HIDE DEF t
<1>7. conn' \in [Sides -> Connections] /\ conn'["server"] = s /\ conn'["client"] = conn["client"]
  BY <1>1, <1>3, <1>4
<1>8. wire' \in [Sides -> Texts] /\ wire'["server"] = wire["server"] /\ wire'["client"] = t
  BY <1>1, <1>3, <1>4, <1>6
<1> QED
  BY <1>3, <1>5, <1>7, <1>8, <1>10 DEF Grows, ServerBecame

-----------------------------------------------------------------------------
(* The inductive invariant *)

(* It holds at first, and every action keeps it.                           *)
LEMMA IndInit == Init => IndInv
<1> SUFFICES ASSUME Init  PROVE IndInv
  OBVIOUS
<1>0. /\ kind \in ServerKinds /\ kind \in InKinds /\ fate \in Fates /\ fate \in {"up", "reset", "stopped"}
      /\ PingToSend \in Nat
  BY ServerKindsAssumption, FatesAssumption, PingToSendAssumption DEF Init
<1> DEFINE c == NewConnection("ClientOut")
           s == NewConnection(kind)
<1>1. /\ c \in Connections /\ c.kind = "ClientOut" /\ c.st = "NotConnected" /\ c.handle = "none"
      /\ c.stream = FALSE /\ c.reading = FALSE /\ c.owed = 0 /\ c.sends = 0 /\ c.why = {}
  BY DEF NewConnection, Connections, States, Handles, Timers, Kinds, OutKinds
<1>2. /\ s \in Connections /\ s.kind = kind /\ s.st = "NotConnected" /\ s.handle = "none"
      /\ s.stream = FALSE /\ s.reading = FALSE /\ s.owed = 0 /\ s.why = {}
  BY <1>0 DEF NewConnection, Connections, States, Handles, Timers, Kinds, InKinds
<1> HIDE DEF c, s
<1>3. conn \in [Sides -> Connections] /\ conn.client = c /\ conn.server = s
  BY <1>1, <1>2 DEF Init, Sides, c, s
<1>4. <<>> \in Texts
  BY DEF Texts
<1>5. /\ buffer \in [Sides -> Texts] /\ wire \in [Sides -> Texts]
      /\ buffer.server = <<>> /\ buffer.client = <<>> /\ wire.server = <<>> /\ wire.client = <<>>
  BY <1>4 DEF Init, Sides
<1>6. ShapeInv
  BY <1>0, <1>2, <1>3, <1>5 DEF Init, ShapeInv, TypeOK
<1>7. ClientInv(conn.client, asked) /\ ServerInv(conn.server)
  BY <1>0, <1>1, <1>2, <1>3 DEF Init, ClientInv, ServerInv
<1>8. LoopInv /\ EndsForAReason
  BY <1>1, <1>2, <1>3 DEF Init, LoopInv, EndsForAReason
<1>9. FlowInv
  <2>1. /\ Carries(buffer.server, wire.server, Requests, 0)
        /\ Carries(buffer.client, wire.client, Responses(kind), 0)
    BY <1>5, NothingCarried
  <2>2. OneAtATime(0 + 0)
    BY <1>1, <1>3 DEF Init, OneAtATime
  <2> QED
    BY <2>1, <2>2 DEF FlowInv
<1> QED
  BY <1>6, <1>7, <1>8, <1>9 DEF IndInv

(* Steps that neither send nor take text.                                  *)
LEMMA FlowKept ==
  ASSUME FlowInv, UNCHANGED <<kind, buffer, wire, asked, heard, dropped>>,
         conn'.client.st = "Received" => conn.client.st = "Received",
         "done" \in conn'.client.why => "done" \in conn.client.why
  PROVE  FlowInv'
<1>1. PICK q, a \in Nat : /\ Carries(buffer.server, wire.server, Requests, q)
                          /\ Carries(buffer.client, wire.client, Responses(kind), a)
                          /\ OneAtATime(q + a)
  BY DEF FlowInv
<1>2. /\ Carries(buffer.server, wire.server, Requests, q)'
      /\ Carries(buffer.client, wire.client, Responses(kind), a)'
  BY <1>1
<1>3. OneAtATime(q + a)'
  BY <1>1 DEF OneAtATime
<1> QED
  BY <1>2, <1>3 DEF FlowInv

LEMMA IndSetName == IndInv /\ SetName => IndInv'
<1> SUFFICES ASSUME IndInv, SetName  PROVE IndInv'
  OBVIOUS
<1>1. FlowInv'
  BY FlowKept DEF IndInv, SetName, config, history
<1>2. ShapeInv'
  BY DEF IndInv, SetName, config, history, ShapeInv, TypeOK
<1>3. ClientInv(conn.client, asked)' /\ ServerInv(conn.server)'
  BY DEF IndInv, SetName, config, history
<1>4. LoopInv' /\ EndsForAReason'
  BY DEF IndInv, SetName, config, history, LoopInv, EndsForAReason
<1> QED
  BY <1>1, <1>2, <1>3, <1>4 DEF IndInv

LEMMA IndNetFails == IndInv /\ NetFails => IndInv'
<1> SUFFICES ASSUME IndInv, NetFails  PROVE IndInv'
  OBVIOUS
<1>1. FlowInv'
  BY FlowKept DEF IndInv, NetFails, config, history
<1>2. ShapeInv'
  BY DEF IndInv, NetFails, config, history, ShapeInv, TypeOK
<1>3. ClientInv(conn.client, asked)' /\ ServerInv(conn.server)'
  BY DEF IndInv, NetFails, config, history
<1>4. LoopInv' /\ EndsForAReason'
  BY DEF IndInv, NetFails, config, history, LoopInv, EndsForAReason
<1> QED
  BY <1>1, <1>2, <1>3, <1>4 DEF IndInv

(* Requests are sent one at a time.                                        *)
LEMMA FlowAsks ==
  ASSUME FlowInv, heard \in Nat, NEW s, NEW k \in {0, 1}, ClientBecame(s, k),
         UNCHANGED <<kind, buffer, heard, dropped>>,
         k = 1 => asked = 0 \/ conn.client.st = "Received",
         s.st # "Received", "done" \in s.why => k = 0 /\ conn.client.st = "Received"
  PROVE  FlowInv'
<1>1. PICK q, a \in Nat : /\ Carries(buffer.server, wire.server, Requests, q)
                          /\ Carries(buffer.client, wire.client, Responses(kind), a)
                          /\ OneAtATime(q + a)
  BY DEF FlowInv
<1>2. /\ conn'.client = s /\ asked' = asked + k /\ wire'.client = wire.client
      /\ Carries(buffer.server, wire'.server, Requests, q + k)
  BY <1>1 DEF ClientBecame
<1>3. /\ Carries(buffer'.server, wire'.server, Requests, q + k)
      /\ Carries(buffer'.client, wire'.client, Responses(kind'), a)
  BY <1>1, <1>2
<1>4. OneAtATime((q + k) + a)'
  BY <1>1, <1>2 DEF OneAtATime
<1>5. q + k \in Nat
  BY <1>1
<1> QED
  BY <1>1, <1>3, <1>4, <1>5 DEF FlowInv

LEMMA IndStartConnect == IndInv /\ StartConnect => IndInv'
<1> SUFFICES ASSUME IndInv, StartConnect  PROVE IndInv'
  OBVIOUS
<1> PICK ok \in BOOLEAN : conn' = [conn EXCEPT !["client"] = Connect(conn["client"], ok)]
  BY DEF StartConnect
<1> DEFINE s == Connect(conn["client"], ok)
<1>0. /\ running /\ conn.client.handle = "none"
      /\ conn' = [conn EXCEPT !["client"] = s]
      /\ UNCHANGED <<config, net, named, wire, buffer, busy, running, history>>
  BY DEF StartConnect
<1>1. ShapeInv /\ ClientInv(conn.client, asked) /\ conn.client.handle = "none"
  BY <1>0 DEF IndInv
<1>2. ClientInv(s, asked) /\ s.why = {} /\ s.st # "Received"
  BY <1>1, ClientConnects
<1>3. s \in Connections /\ conn' = [conn EXCEPT !["client"] = s]
  BY <1>0, <1>2 DEF ClientInv
<1> HIDE DEF s
<1>4. conn' \in [Sides -> Connections] /\ conn'.client = s /\ conn'.server = conn.server
  BY <1>1, <1>3 DEF ShapeInv, TypeOK, Sides
<1>5. FlowInv'
  BY <1>0, <1>2, <1>4, FlowKept DEF IndInv, config, history
<1>6. ShapeInv'
  BY <1>0, <1>4 DEF IndInv, ShapeInv, TypeOK, config, history
<1>7. ClientInv(conn.client, asked)' /\ ServerInv(conn.server)'
  BY <1>0, <1>2, <1>4 DEF IndInv, history
<1>8. LoopInv'
  BY <1>0, <1>1, <1>2, <1>4 DEF IndInv, LoopInv
<1>9. EndsForAReason'
  BY <1>0, <1>1, <1>2, <1>4 DEF IndInv, EndsForAReason, ClientInv, config
<1> QED
  BY <1>5, <1>6, <1>7, <1>8, <1>9 DEF IndInv

LEMMA IndConnectDone == IndInv /\ ConnectDone => IndInv' /\ Grows("server")
<1> SUFFICES ASSUME IndInv, ConnectDone  PROVE IndInv' /\ Grows("server")
  OBVIOUS
<1>0. /\ Running("client") /\ "client" \notin busy /\ conn.client.handle = "connecting"
      /\ UNCHANGED <<config, net, named, buffer, busy, running, heard, dropped>>
  BY DEF ConnectDone, Idle
<1> DEFINE r == conn.client
           ms == <<ClientMessage([st |-> "Connected"])>>
<1>1. /\ ShapeInv /\ ClientInv(r, asked) /\ LoopInv /\ EndsForAReason /\ FlowInv
      /\ ServerInv(conn.server) /\ heard \in Nat
  BY DEF IndInv, ShapeInv
<1>2. PICK u \in Answers(r) : Becomes("client", OnConnect(r, net = "up", u), 0, ms)
  BY DEF ConnectDone
<1> DEFINE ok == IF net = "up" THEN TRUE ELSE FALSE
<1>3. ok \in BOOLEAN /\ OnConnect(r, net = "up", u) = OnConnect(r, ok, u)
  BY DEF OnConnect
<1> HIDE DEF ok
<1> DEFINE s == OnConnect(r, ok, u)
<1>4. r.st # "Received"
  BY <1>0, <1>1 DEF LoopInv
<1> HIDE DEF s
<1>5. Became(s, asked) /\ asked = 0 /\ s.why = {} /\ s.st # "Received"
  BY <1>0, <1>1, <1>3, <1>4, ClientConnected DEF s
<1> DEFINE k == s.owed
<1>6. k \in {0, 1} /\ ClientInv(s, asked + k) /\ s \in Connections
  BY <1>5 DEF Became, ClientInv
<1>7. ms \in Seq(Requests) /\ Len(ms) = 1
  BY ClientAsks
<1>8. Becomes("client", s, 0, ms)
  BY <1>2, <1>3 DEF s
<1> HIDE DEF ms
<1>9. k \in 0..Len(ms) /\ s.owed = 0 + k
  BY <1>6, <1>7
<1>10. ClientBecame(s, k)
  BY <1>1, <1>6, <1>7, <1>8, <1>9, ClientSends
<1> HIDE DEF r, k
<1>11. FlowInv'
  BY <1>0, <1>1, <1>5, <1>6, <1>10, FlowAsks DEF config
<1>12. ShapeInv'
  BY <1>0, <1>1, <1>10 DEF ShapeInv, TypeOK, ClientBecame, config
<1>13. ClientInv(conn.client, asked)' /\ ServerInv(conn.server)'
  BY <1>1, <1>6, <1>10 DEF ClientBecame
<1>14. LoopInv'
  BY <1>0, <1>1, <1>5, <1>10 DEF LoopInv, ClientBecame
<1>15. EndsForAReason'
  BY <1>0, <1>1, <1>5, <1>10 DEF EndsForAReason, ClientBecame, ClientInv, r, config
<1> QED
  BY <1>11, <1>12, <1>13, <1>14, <1>15, <1>10 DEF IndInv, ClientBecame

LEMMA IndAccept == IndInv /\ Accept => IndInv'
<1> SUFFICES ASSUME IndInv, Accept  PROVE IndInv'
  OBVIOUS
<1>0. /\ conn.server.handle = "none" /\ conn.client.handle \notin {"none", "connecting", "failed"}
      /\ UNCHANGED <<config, net, named, wire, buffer, busy, running, history>>
  BY DEF Accept
<1>1. /\ ShapeInv /\ ClientInv(conn.client, asked) /\ LoopInv /\ EndsForAReason /\ FlowInv
      /\ ServerInv(conn.server)
  BY DEF IndInv
<1>2. PICK u \in Answers(conn["server"]) :
        conn' = [conn EXCEPT !["server"] = DoRead(Accepted(conn["server"]), u.read)]
  BY DEF Accept
<1> DEFINE s == DoRead(Accepted(conn["server"]), u.read)
<1>3. HasAccepted(conn["server"], s)
  BY <1>0, <1>1, ServerAccepts
<1> HIDE DEF s
<1>4. /\ ServerInv(s) /\ s.kind = conn.server.kind /\ s.handle = "open" /\ s.why = {}
      /\ s \in Connections
  BY <1>3 DEF HasAccepted, ServerInv
<1>5. conn' \in [Sides -> Connections] /\ conn'.server = s /\ conn'.client = conn.client
  BY <1>1, <1>2, <1>4 DEF ShapeInv, TypeOK, Sides, s
<1>6. FlowInv'
  BY <1>0, <1>1, <1>5, FlowKept DEF config, history
<1>7. ShapeInv'
  BY <1>0, <1>1, <1>4, <1>5 DEF ShapeInv, TypeOK, config, history
<1>8. ClientInv(conn.client, asked)' /\ ServerInv(conn.server)'
  BY <1>0, <1>1, <1>4, <1>5 DEF history
<1>9. LoopInv' /\ EndsForAReason'
  BY <1>0, <1>1, <1>4, <1>5 DEF LoopInv, EndsForAReason, config
<1> QED
  BY <1>6, <1>7, <1>8, <1>9 DEF IndInv

(* A side that is open reads, and only such a side.                        *)
LEMMA WhoReads ==
  ASSUME IndInv
  PROVE  /\ conn.client.reading => conn.client.handle = "open" /\ conn.client.why = {}
         /\ conn.server.reading => conn.server.handle = "open"
BY DEF IndInv, ClientInv, ServerInv, Connections, Handles

LEMMA IndReadData == ASSUME NEW d \in Sides, IndInv, ReadData(d) PROVE IndInv'
<1>0. /\ Polls(d) /\ busy' = busy \cup {d}
      /\ UNCHANGED <<config, net, named, conn, running, history>>
  BY DEF ReadData
<1>1. /\ ShapeInv /\ ClientInv(conn.client, asked) /\ LoopInv /\ EndsForAReason /\ FlowInv
      /\ ServerInv(conn.server) /\ buffer \in [Sides -> Texts] /\ wire \in [Sides -> Texts]
  BY DEF IndInv, ShapeInv
<1>2. PICK k \in 1..Len(wire[d]) :
        /\ buffer' = [buffer EXCEPT ![d] = buffer[d] \o SubSeq(wire[d], 1, k)]
        /\ wire' = [wire EXCEPT ![d] = SubSeq(wire[d], k + 1, Len(wire[d]))]
  BY DEF ReadData
<1> DEFINE b == buffer[d] \o SubSeq(wire[d], 1, k)
           w == SubSeq(wire[d], k + 1, Len(wire[d]))
<1>3. /\ buffer[d] \in Texts /\ wire[d] \in Texts
  BY <1>1
<1>4. b \in Texts /\ w \in Texts
  BY <1>3, TextMoves
<1>5. \A M, n : Carries(buffer[d], wire[d], M, n) => Carries(b, w, M, n)
  BY <1>3, CarriesOn
<1>6. buffer' = [buffer EXCEPT ![d] = b] /\ wire' = [wire EXCEPT ![d] = w]
  BY <1>2
<1> HIDE DEF b, w
<1>7. /\ buffer' \in [Sides -> Texts] /\ wire' \in [Sides -> Texts]
      /\ buffer'[d] = b /\ wire'[d] = w
      /\ \A e \in Sides : e # d => buffer'[e] = buffer[e] /\ wire'[e] = wire[e]
  BY <1>1, <1>4, <1>6
<1>8. \A e \in Sides : \A M, n : Carries(buffer[e], wire[e], M, n) => Carries(buffer'[e], wire'[e], M, n)
  <2> TAKE e \in Sides
  <2> TAKE M, n
  <2>1. CASE e = d
    BY <1>5, <1>7, <2>1, Zenon
  <2>2. CASE e # d
    BY <1>7, <2>2, Zenon
  <2> QED
    BY <2>1, <2>2
<1>9. FlowInv'
  <2>1. PICK q, a \in Nat : /\ Carries(buffer["server"], wire["server"], Requests, q)
                            /\ Carries(buffer["client"], wire["client"], Responses(kind), a)
                            /\ OneAtATime(q + a)
    BY <1>1 DEF FlowInv
  <2>2. "client" \in Sides /\ "server" \in Sides /\ kind' = kind
    BY <1>0 DEF Sides, config
  <2>3. /\ Carries(buffer'["server"], wire'["server"], Requests, q)
        /\ Carries(buffer'["client"], wire'["client"], Responses(kind), a)
    BY <1>8, <2>1, <2>2, Zenon
  <2>4. OneAtATime(q + a)'
    BY <1>0, <2>1 DEF OneAtATime, config, history
  <2> QED
    BY <2>1, <2>2, <2>3, <2>4 DEF FlowInv
<1>10. ShapeInv'
  BY <1>0, <1>1, <1>7 DEF ShapeInv, TypeOK, config, history
<1>11. ClientInv(conn.client, asked)' /\ ServerInv(conn.server)'
  BY <1>0, <1>1 DEF history
<1>12. LoopInv'
  <2>1. d = "client" => conn.client.handle = "open" /\ conn.client.owed = 0
    BY <1>0, WhoReads DEF Polls
  <2>2. d = "server" => conn.server.handle = "open"
    BY <1>0, WhoReads DEF Polls
  <2> QED
    BY <1>0, <1>1, <2>1, <2>2 DEF LoopInv
<1>13. EndsForAReason'
  BY <1>0, <1>1 DEF EndsForAReason, config
<1> QED
  BY <1>9, <1>10, <1>11, <1>12, <1>13 DEF IndInv

(* A line is taken from the buffer of side d.                              *)
LineTaken(d) ==
  /\ buffer' \in [Sides -> Texts] /\ buffer'[d] = AfterLine(buffer[d])
  /\ \A e \in Sides \ {d} : buffer'[e] = buffer[e]

(* A line is taken and nothing else changes.                               *)
LEMMA TakesLine ==
  ASSUME NEW d \in Sides, buffer \in [Sides -> Texts], AfterLine(buffer[d]) \in Texts,
         buffer' = [buffer EXCEPT ![d] = AfterLine(@)]
  PROVE  LineTaken(d)
BY DEF LineTaken

(* What a line of the buffer of the client can be.                         *)
LEMMA ClientLine ==
  ASSUME IndInv, NEW a \in Nat, Carries(buffer.client, wire.client, Responses(kind), a),
         HasLine(buffer["client"])
  PROVE  \E m \in Responses(kind) : Taken(buffer.client, wire.client, Responses(kind), a, m)
<1>1. buffer["client"] \in Texts /\ wire["client"] \in Texts
  BY DEF IndInv, ShapeInv, Sides
<1> QED
  BY <1>1, ResponsesAreWords, CarriesLess

(* What a line of the buffer of the server can be.                         *)
LEMMA ServerLine ==
  ASSUME IndInv, NEW q \in Nat, Carries(buffer.server, wire.server, Requests, q),
         HasLine(buffer["server"])
  PROVE  \E m \in Requests : Taken(buffer.server, wire.server, Requests, q, m)
<1>1. buffer["server"] \in Texts /\ wire["server"] \in Texts
  BY DEF IndInv, ShapeInv, Sides
<1> QED
  BY <1>1, RequestsAreWords, CarriesLess

(* The messages on their way, by name.                                     *)
LEMMA FlowIs ==
  ASSUME FlowInv
  PROVE  \E q, a \in Nat : /\ Carries(buffer.server, wire.server, Requests, q)
                           /\ Carries(buffer.client, wire.client, Responses(kind), a)
                           /\ OneAtATime(q + a)
BY DEF FlowInv

(* A response that is no message: the answer without a name.               *)
LEMMA IndClientSkips == ASSUME IndInv, Unparseable("client") PROVE IndInv'
<1>0. /\ HasLine(buffer["client"]) /\ ParseMessage(Tokens(FirstLine(buffer["client"]))) = NoMessage
      /\ buffer' = [buffer EXCEPT !["client"] = AfterLine(@)] /\ dropped' = TRUE
      /\ UNCHANGED <<config, net, named, conn, wire, busy, running, asked, heard>>
  BY DEF Unparseable
<1>1. /\ ShapeInv /\ ClientInv(conn.client, asked) /\ LoopInv /\ EndsForAReason /\ FlowInv
      /\ ServerInv(conn.server) /\ buffer \in [Sides -> Texts] /\ heard \in Nat
      /\ asked \in Nat /\ dropped \in BOOLEAN
  BY PingToSendAssumption DEF IndInv, ShapeInv, TypeOK, ClientInv
<1>2. PICK q, a \in Nat : /\ Carries(buffer.server, wire.server, Requests, q)
                          /\ Carries(buffer.client, wire.client, Responses(kind), a)
                          /\ OneAtATime(q + a)
  BY <1>1, FlowIs
<1>3. PICK m \in Responses(kind) : Taken(buffer.client, wire.client, Responses(kind), a, m)
  BY <1>0, <1>2, ClientLine
<1>4. /\ AfterLine(buffer["client"]) \in Texts /\ a > 0
      /\ Carries(AfterLine(buffer["client"]), wire.client, Responses(kind), a - 1)
  BY <1>3 DEF Taken
<1>5. LineTaken("client")
  BY <1>0, <1>1, <1>4, TakesLine DEF Sides
<1>6. FlowInv'
  <2>1. /\ Carries(buffer'.server, wire'.server, Requests, q)
        /\ Carries(buffer'.client, wire'.client, Responses(kind'), a - 1)
    BY <1>0, <1>2, <1>4, <1>5 DEF LineTaken, Sides, config
  <2>2. OneAtATime(q + (a - 1))'
    BY <1>0, <1>1, <1>2, <1>4 DEF OneAtATime, config
  <2>3. a - 1 \in Nat
    BY <1>4
  <2> QED
    BY <1>2, <2>1, <2>2, <2>3 DEF FlowInv
<1>7. ShapeInv'
  BY <1>0, <1>1, <1>5 DEF ShapeInv, TypeOK, config, LineTaken
<1>8. ClientInv(conn.client, asked)' /\ ServerInv(conn.server)' /\ LoopInv' /\ EndsForAReason'
  BY <1>0, <1>1 DEF LoopInv, EndsForAReason, config
<1> QED
  BY <1>6, <1>7, <1>8 DEF IndInv

(* A request is always a message.                                          *)
LEMMA ServerSkipsNothing == ASSUME IndInv PROVE ~Unparseable("server")
<1> SUFFICES ASSUME Unparseable("server")  PROVE FALSE
  OBVIOUS
<1>0. HasLine(buffer["server"]) /\ ParseMessage(Tokens(FirstLine(buffer["server"]))) = NoMessage
  BY DEF Unparseable
<1>1. FlowInv
  BY DEF IndInv
<1>2. PICK q, a \in Nat : Carries(buffer.server, wire.server, Requests, q)
  BY <1>1, FlowIs
<1>3. PICK m \in Requests : Taken(buffer.server, wire.server, Requests, q, m)
  BY <1>0, <1>2, ServerLine
<1> QED
  BY <1>0, <1>3, RequestMeans DEF Taken

LEMMA IndClientMessage == ASSUME IndInv, Message("client") PROVE IndInv' /\ Grows("server")
<1> DEFINE r == conn["client"]
           type == ParseMessage(Tokens(FirstLine(buffer["client"]))).type
<1>0. /\ Running("client") /\ "client" \in busy /\ HasLine(buffer["client"])
      /\ buffer' = [buffer EXCEPT !["client"] = AfterLine(@)] /\ heard' = heard + 1
      /\ UNCHANGED <<config, net, named, busy, running, dropped>>
  BY DEF Message
<1>1. PICK u \in Answers(r) : Becomes("client", Receive(r, Meaning(type), u), r.owed, <<>>)
  BY DEF Message
<1> HIDE DEF type
<1>2. /\ ShapeInv /\ ClientInv(r, asked) /\ LoopInv /\ EndsForAReason /\ FlowInv
      /\ ServerInv(conn.server) /\ buffer \in [Sides -> Texts] /\ heard \in Nat
      /\ asked \in Nat /\ dropped \in BOOLEAN
  BY PingToSendAssumption DEF IndInv, ShapeInv, TypeOK, ClientInv
<1>3. r.handle = "open" /\ r.owed = 0
  BY <1>0, <1>2 DEF LoopInv
<1> DEFINE s == Receive(r, Meaning(type), u)
<1> HIDE DEF s
<1>4. HasReceived(r, s, asked)
  BY <1>2, <1>3, ClientReceives DEF s
<1>5. /\ ClientInv(s, asked) /\ s.st = "Received" /\ s.owed = 0 /\ s.why = {} /\ s.handle = "open"
      /\ s \in Connections
  BY <1>4 DEF HasReceived, ClientInv
<1>6. ClientBecame(s, 0)
  <2>1. Becomes("client", s, 0, <<>>) /\ <<>> \in Seq(Requests) /\ 0 \in 0..Len(<<>>)
        /\ s.owed = 0 + 0 /\ 0 \in Nat
    BY <1>1, <1>3, <1>5 DEF s
  <2> QED
    BY <1>2, <1>5, <2>1, ClientSends
<1>7. PICK q, a \in Nat : /\ Carries(buffer.server, wire.server, Requests, q)
                          /\ Carries(buffer.client, wire.client, Responses(kind), a)
                          /\ OneAtATime(q + a)
  BY <1>2, FlowIs
<1>8. PICK m \in Responses(kind) : Taken(buffer.client, wire.client, Responses(kind), a, m)
  BY <1>0, <1>7, ClientLine
<1>9. /\ AfterLine(buffer["client"]) \in Texts /\ a > 0
      /\ Carries(AfterLine(buffer["client"]), wire.client, Responses(kind), a - 1)
  BY <1>8 DEF Taken
<1>10. LineTaken("client")
  BY <1>0, <1>2, <1>9, TakesLine DEF Sides
<1>11. asked' = asked /\ conn'.client = s /\ conn'.server = conn.server
  BY <1>2, <1>6 DEF ClientBecame
<1>12. FlowInv'
  <2>1. /\ Carries(buffer'.server, wire'.server, Requests, q)
        /\ Carries(buffer'.client, wire'.client, Responses(kind'), a - 1)
    <3>1. Carries(buffer.server, wire'.server, Requests, q + 0) /\ wire'.client = wire.client
      BY <1>6, <1>7 DEF ClientBecame
    <3>2. q + 0 = q
      OBVIOUS
    <3> QED
      BY <1>0, <1>9, <1>10, <3>1, <3>2 DEF LineTaken, Sides, config
  <2>2. OneAtATime(q + (a - 1))'
    BY <1>0, <1>2, <1>5, <1>7, <1>9, <1>11 DEF OneAtATime, config
  <2>3. a - 1 \in Nat
    BY <1>9
  <2> QED
    BY <1>7, <2>1, <2>2, <2>3 DEF FlowInv
<1> HIDE DEF r
<1>13. ShapeInv'
  BY <1>0, <1>2, <1>6, <1>10 DEF ShapeInv, TypeOK, config, LineTaken, ClientBecame
<1>14. ClientInv(conn.client, asked)' /\ ServerInv(conn.server)'
  BY <1>2, <1>5, <1>11
<1>15. LoopInv'
  BY <1>0, <1>2, <1>3, <1>5, <1>11 DEF LoopInv, r
<1>16. EndsForAReason'
  BY <1>0, <1>2, <1>3, <1>5, <1>11 DEF EndsForAReason, ClientInv, r, config
<1> QED
  BY <1>12, <1>13, <1>14, <1>15, <1>16, <1>6 DEF IndInv, ClientBecame

(* What the server answers to a request, and how many messages it is.      *)
LEMMA ServerAnswers ==
  ASSUME NEW r, ServerInv(r), r.handle = "open", r.kind = kind, kind = "NodeIn" => named,
         NEW u \in Answers(r), NEW m \in Requests
  PROVE  \E k \in Nat : /\ HasAnswered(r, Receive(r, Meaning(m.type), u), k)
                        /\ Replies(m.type, u.others) \in Seq(Responses(kind))
                        /\ Len(Replies(m.type, u.others)) = k
                        /\ kind = "ServerIn" => k = 1
<1>0. r.kind \in InKinds /\ m.type \in {"HANDSH", "PING"}
  BY RequestMeans DEF ServerInv
<1>1. u.others \in Nat /\ (r.kind # "NodeIn" => u.others = 0)
  BY AnswerFacts
<1>2. /\ HasAnswered(r, Receive(r, "Handshake", u), 1 + u.others)
      /\ HasAnswered(r, Receive(r, "Ping", u), 1)
  BY ServerReceives
<1>3. /\ Replies("HANDSH", u.others) \in Seq(Responses(kind))
      /\ Len(Replies("HANDSH", u.others)) = 1 + u.others
      /\ Replies("PING", u.others) \in Seq(Responses(kind))
      /\ Len(Replies("PING", u.others)) = 1
  BY <1>0, <1>1, ServerReplies
<1>4. Meaning("HANDSH") = "Handshake" /\ Meaning("PING") = "Ping"
  BY DEF Meaning
<1>5. 1 + u.others \in Nat /\ 1 \in Nat /\ (kind = "ServerIn" => 1 + u.others = 1)
  BY <1>1
<1>6. CASE m.type = "HANDSH"
  BY <1>2, <1>3, <1>4, <1>5, <1>6
<1>7. CASE m.type = "PING"
  BY <1>2, <1>3, <1>4, <1>5, <1>7
<1> QED
  BY <1>0, <1>6, <1>7

LEMMA IndServerMessage == ASSUME IndInv, Message("server") PROVE IndInv' /\ Grows("client")
<1> DEFINE r == conn["server"]
           type == ParseMessage(Tokens(FirstLine(buffer["server"]))).type
<1>0. /\ "server" \in busy /\ HasLine(buffer["server"])
      /\ buffer' = [buffer EXCEPT !["server"] = AfterLine(@)] /\ heard' = heard + 0
      /\ UNCHANGED <<config, net, named, busy, running, dropped>>
  BY DEF Message
<1>1. PICK u \in Answers(r) :
        Becomes("server", Receive(r, Meaning(type), u), r.owed, Replies(type, u.others))
  BY DEF Message
<1>2. /\ ShapeInv /\ ClientInv(conn.client, asked) /\ LoopInv /\ EndsForAReason /\ FlowInv
      /\ ServerInv(r) /\ buffer \in [Sides -> Texts] /\ heard \in Nat
      /\ asked \in Nat /\ dropped \in BOOLEAN /\ r.owed \in Nat
      /\ kind = r.kind /\ (kind = "NodeIn" => named)
  BY PingToSendAssumption DEF IndInv, ShapeInv, TypeOK, ClientInv, ServerInv, Connections
<1>3. r.handle = "open"
  BY <1>0, <1>2 DEF LoopInv
<1>4. PICK q, a \in Nat : /\ Carries(buffer.server, wire.server, Requests, q)
                          /\ Carries(buffer.client, wire.client, Responses(kind), a)
                          /\ OneAtATime(q + a)
  BY <1>2, FlowIs
<1>5. PICK m \in Requests : Taken(buffer.server, wire.server, Requests, q, m)
  BY <1>0, <1>4, ServerLine
<1>6. /\ AfterLine(buffer["server"]) \in Texts /\ q > 0 /\ type = m.type
      /\ Carries(AfterLine(buffer["server"]), wire.server, Requests, q - 1)
  BY <1>5, RequestMeans DEF Taken
<1> HIDE DEF r, type
<1>7. PICK k \in Nat : /\ HasAnswered(r, Receive(r, Meaning(m.type), u), k)
                       /\ Replies(m.type, u.others) \in Seq(Responses(kind))
                       /\ Len(Replies(m.type, u.others)) = k
                       /\ kind = "ServerIn" => k = 1
  BY <1>2, <1>3, ServerAnswers
<1> DEFINE s == Receive(r, Meaning(m.type), u)
           ms == Replies(m.type, u.others)
<1>8. Becomes("server", s, r.owed, ms) /\ ms \in Seq(Responses(kind)) /\ k \in 0..Len(ms)
      /\ HasAnswered(r, s, k)
  BY <1>1, <1>6, <1>7
<1> HIDE DEF s, ms
<1>9. /\ ServerInv(s) /\ s.kind = r.kind /\ s.handle = "open" /\ s.why = {} /\ s.owed = r.owed + k
      /\ s \in Connections
  BY <1>8 DEF HasAnswered, ServerInv
<1>10. r.owed \in Int
  BY <1>2
<1>11. ServerBecame(s, k)
  BY <1>2, <1>8, <1>9, <1>10, ServerResponds
<1>12. LineTaken("server")
  BY <1>0, <1>2, <1>6, TakesLine DEF Sides
<1>13. asked' = asked /\ conn'.server = s /\ conn'.client = conn.client
  BY <1>11 DEF ServerBecame
<1>14. FlowInv'
  <2>1. /\ Carries(buffer'.server, wire'.server, Requests, q - 1)
        /\ Carries(buffer'.client, wire'.client, Responses(kind'), a + k)
    <3>1. Carries(buffer.client, wire'.client, Responses(kind), a + k) /\ wire'.server = wire.server
      BY <1>4, <1>11 DEF ServerBecame
    <3> QED
      BY <1>0, <1>6, <1>12, <3>1 DEF LineTaken, Sides, config
  <2>2. OneAtATime((q - 1) + (a + k))'
    <3>1. kind = "ServerIn" => (q - 1) + (a + k) = q + a
      BY <1>7
    <3> QED
      BY <1>0, <1>2, <1>4, <1>13, <3>1 DEF OneAtATime, config
  <2>3. q - 1 \in Nat /\ a + k \in Nat
    BY <1>6
  <2> QED
    BY <2>1, <2>2, <2>3 DEF FlowInv
<1>15. ShapeInv'
  BY <1>0, <1>2, <1>9, <1>11, <1>12 DEF ShapeInv, TypeOK, config, LineTaken, ServerBecame
<1>16. ClientInv(conn.client, asked)' /\ ServerInv(conn.server)'
  BY <1>2, <1>9, <1>13
<1>17. LoopInv'
  BY <1>0, <1>2, <1>9, <1>13 DEF LoopInv
<1>18. EndsForAReason'
  BY <1>0, <1>2, <1>9, <1>13 DEF EndsForAReason, config
<1> QED
  BY <1>14, <1>15, <1>16, <1>17, <1>18, <1>11 DEF IndInv, ServerBecame

LEMMA IndClientReadDone == ASSUME IndInv, ReadDone("client") PROVE IndInv' /\ Grows("server")
<1> DEFINE r == conn["client"]
           ms == <<ClientMessage(r)>>
<1>0. /\ "client" \in busy /\ busy' = busy \ {"client"}
      /\ UNCHANGED <<config, net, named, buffer, running, heard, dropped>>
  BY DEF ReadDone
<1>1. PICK u \in Answers(r) : Becomes("client", Process(r, u), r.owed, ms)
  BY DEF ReadDone
<1>2. /\ ShapeInv /\ ClientInv(r, asked) /\ LoopInv /\ EndsForAReason /\ FlowInv
      /\ ServerInv(conn.server) /\ heard \in Nat
  BY DEF IndInv, ShapeInv
<1>3. r.handle = "open" /\ r.owed = 0
  BY <1>0, <1>2 DEF LoopInv
<1> DEFINE s == Process(r, u)
<1> HIDE DEF s
<1>4. HasProcessed(r, s, asked)
  BY <1>2, <1>3, ClientProcesses DEF s
<1> DEFINE k == s.owed
<1>5. k \in {0, 1} /\ ClientInv(s, asked + k) /\ s \in Connections
  BY <1>2, <1>4 DEF HasProcessed, Became, ClientInv
<1>6. /\ s.st # "Received"
      /\ s.why \subseteq (IF again THEN {"done"} ELSE {"done", "restart"})
      /\ k = 1 => s.why = {}
      /\ k = 1 \/ "done" \in s.why => r.st = "Received"
  BY <1>4, <1>5 DEF HasProcessed, ClientInv, Connections, Handles
<1>7. Becomes("client", s, 0, ms) /\ ms \in Seq(Requests) /\ k \in 0..Len(ms) /\ s.owed = 0 + k
  BY <1>1, <1>3, <1>5, ClientAsks DEF s
<1> HIDE DEF ms
<1>8. ClientBecame(s, k)
  BY <1>2, <1>5, <1>7, ClientSends
<1> HIDE DEF k
<1>9. FlowInv'
  BY <1>0, <1>2, <1>5, <1>6, <1>8, FlowAsks DEF config
<1>10. asked' = asked + k /\ conn'.client = s /\ conn'.server = conn.server
  BY <1>8 DEF ClientBecame
<1> HIDE DEF r
<1>11. ShapeInv'
  BY <1>0, <1>2, <1>8 DEF ShapeInv, TypeOK, config, ClientBecame
<1>12. ClientInv(conn.client, asked)' /\ ServerInv(conn.server)'
  BY <1>2, <1>5, <1>10
<1>13. LoopInv'
  BY <1>0, <1>2, <1>3, <1>6, <1>10 DEF LoopInv, r
<1>14. EndsForAReason'
  BY <1>0, <1>2, <1>3, <1>6, <1>10 DEF EndsForAReason, ClientInv, r, config
<1> QED
  BY <1>9, <1>11, <1>12, <1>13, <1>14, <1>8 DEF IndInv, ClientBecame

(* The server sends nothing when it has read; its process() does nothing.  *)
LEMMA FlowAnswersNothing ==
  ASSUME FlowInv, NEW s, ServerBecame(s, 0), UNCHANGED <<kind, buffer, heard, dropped>>
  PROVE  FlowInv'
<1>1. PICK q, a \in Nat : /\ Carries(buffer.server, wire.server, Requests, q)
                          /\ Carries(buffer.client, wire.client, Responses(kind), a)
                          /\ OneAtATime(q + a)
  BY FlowIs
<1>2. /\ conn'.client = conn.client /\ asked' = asked /\ wire'.server = wire.server
      /\ Carries(buffer.client, wire'.client, Responses(kind), a + 0) /\ a + 0 = a
  BY <1>1 DEF ServerBecame
<1>3. /\ Carries(buffer'.server, wire'.server, Requests, q)
      /\ Carries(buffer'.client, wire'.client, Responses(kind'), a)
  BY <1>1, <1>2
<1>4. OneAtATime(q + a)'
  BY <1>1, <1>2 DEF OneAtATime
<1> QED
  BY <1>1, <1>3, <1>4 DEF FlowInv

(* No step of the server sends a request.                                  *)
LEMMA ServerAsksNothing ==
  ASSUME ShapeInv, asked \in Nat, NEW s \in Connections, NEW owed, owed = s.owed,
         NEW m \in Requests, Becomes("server", s, owed, <<m>>)
  PROVE  ServerBecame(s, 0)
<1>1. owed \in Nat
  BY DEF Connections
<1>2. Becomes("server", s, owed, <<>>)
  <2>1. s.owed - owed = 0
    BY <1>1
  <2>2. SubSeq(<<m>>, 1, 0) = SubSeq(<<>>, 1, 0)
    OBVIOUS
  <2> QED
    BY <2>1, <2>2 DEF Becomes
<1>3. <<>> \in Seq(Responses(kind)) /\ 0 \in 0..Len(<<>>) /\ owed \in Int /\ s.owed = owed + 0
  BY <1>1
<1> QED
  BY <1>2, <1>3, ServerResponds

LEMMA IndServerReadDone == ASSUME IndInv, ReadDone("server") PROVE IndInv' /\ Grows("client")
<1> DEFINE r == conn["server"]
<1>0. /\ busy' = busy \ {"server"}
      /\ UNCHANGED <<config, net, named, buffer, running, heard, dropped>>
  BY DEF ReadDone
<1>1. PICK u \in Answers(r) : Becomes("server", Process(r, u), r.owed, <<ClientMessage(r)>>)
  BY DEF ReadDone
<1>2. /\ ShapeInv /\ ClientInv(conn.client, asked) /\ LoopInv /\ EndsForAReason /\ FlowInv
      /\ ServerInv(r) /\ asked \in Nat
  BY PingToSendAssumption DEF IndInv, ClientInv
<1>3. Process(r, u) = r /\ r \in Connections
  BY <1>2, ProcessKind DEF ServerInv
<1>4. ClientMessage(r) \in Requests
  BY Zenon DEF ClientMessage, Requests
<1>5. ServerBecame(r, 0)
  BY <1>1, <1>2, <1>3, <1>4, ServerAsksNothing
<1>6. FlowInv'
  BY <1>0, <1>2, <1>5, FlowAnswersNothing DEF config
<1>7. asked' = asked /\ conn'.server = conn.server /\ conn'.client = conn.client
  BY <1>5 DEF ServerBecame
<1> HIDE DEF r
<1>8. ShapeInv'
  BY <1>0, <1>2, <1>5, <1>7 DEF ShapeInv, TypeOK, config, ServerBecame
<1>9. ClientInv(conn.client, asked)' /\ ServerInv(conn.server)'
  BY <1>2, <1>7 DEF r
<1>10. LoopInv' /\ EndsForAReason'
  BY <1>0, <1>2, <1>7 DEF LoopInv, EndsForAReason, config
<1> QED
  BY <1>6, <1>8, <1>9, <1>10, <1>5 DEF IndInv, ServerBecame

LEMMA IndClientReadStop == ASSUME IndInv, ReadStop("client") PROVE IndInv'
<1> DEFINE r == conn["client"]
           s == Close(r, "eof")
<1>0. /\ Running("client") /\ "client" \notin busy /\ r.reading /\ r.owed = 0 /\ Gone("server")
      /\ conn' = [conn EXCEPT !["client"] = s]
      /\ UNCHANGED <<config, net, named, wire, buffer, busy, running, history>>
  BY DEF ReadStop, Polls, Idle, Far
<1>1. /\ ShapeInv /\ ClientInv(r, asked) /\ LoopInv /\ EndsForAReason /\ FlowInv
      /\ ServerInv(conn.server)
  BY DEF IndInv
<1>2. r.handle = "open" /\ r.why = {}
  BY <1>0, WhoReads
<1>3. net # "up"
  <2> SUFFICES ASSUME net = "up"  PROVE FALSE
    OBVIOUS
  <2>1. conn.server.why # {}
    BY <1>0, <1>1 DEF Gone, ServerInv
  <2> QED
    BY <1>1, <1>2, <2>1 DEF EndsForAReason
<1> HIDE DEF s
<1>4. /\ ClientInv(s, asked) /\ s.st = "Closing" /\ s.owed = 0 /\ s.handle = "closing"
      /\ s.why = {"eof"}
  BY <1>0, <1>1, <1>2, ClientLosesServer DEF s
<1>5. s \in Connections
  BY <1>4 DEF ClientInv
<1>6. conn' \in [Sides -> Connections] /\ conn'.client = s /\ conn'.server = conn.server
  BY <1>0, <1>1, <1>5 DEF ShapeInv, TypeOK, Sides
<1> HIDE DEF r
<1>7. FlowInv'
  BY <1>0, <1>1, <1>4, <1>6, FlowKept DEF config, history
<1>8. ShapeInv'
  BY <1>0, <1>1, <1>6 DEF ShapeInv, TypeOK, config, history
<1>9. ClientInv(conn.client, asked)' /\ ServerInv(conn.server)'
  BY <1>0, <1>1, <1>4, <1>6 DEF history
<1>10. LoopInv' /\ EndsForAReason'
  BY <1>0, <1>1, <1>3, <1>4, <1>6 DEF LoopInv, EndsForAReason, Running, config
<1> QED
  BY <1>7, <1>8, <1>9, <1>10 DEF IndInv

LEMMA IndServerReadStop == ASSUME IndInv, ReadStop("server") PROVE IndInv'
<1> DEFINE r == conn["server"]
           s == Close(r, "eof")
<1>0. /\ "server" \notin busy /\ r.reading /\ Gone("client")
      /\ conn' = [conn EXCEPT !["server"] = s]
      /\ UNCHANGED <<config, net, named, wire, buffer, busy, running, history>>
  BY DEF ReadStop, Polls, Idle, Far
<1>1. /\ ShapeInv /\ ClientInv(conn.client, asked) /\ LoopInv /\ EndsForAReason /\ FlowInv
      /\ ServerInv(r)
  BY DEF IndInv
<1>2. r.handle = "open"
  BY <1>0, WhoReads
<1>3. net = "up" => conn.client.why # {}
  BY <1>0, <1>1 DEF Gone, ClientInv
<1> HIDE DEF s
<1>4. ServerInv(s) /\ s.kind = r.kind /\ s.handle = "closing" /\ s.owed = r.owed
  BY <1>1, <1>2, ServerLosesClient DEF s
<1>5. s \in Connections
  BY <1>4 DEF ServerInv
<1>6. conn' \in [Sides -> Connections] /\ conn'.server = s /\ conn'.client = conn.client
  BY <1>0, <1>1, <1>5 DEF ShapeInv, TypeOK, Sides
<1>7. FlowInv'
  BY <1>0, <1>1, <1>6, FlowKept DEF config, history
<1>8. ShapeInv'
  BY <1>0, <1>1, <1>4, <1>6 DEF ShapeInv, TypeOK, config, history
<1>9. ClientInv(conn.client, asked)' /\ ServerInv(conn.server)'
  BY <1>0, <1>1, <1>4, <1>6 DEF history
<1>10. LoopInv' /\ EndsForAReason'
  BY <1>0, <1>1, <1>3, <1>4, <1>6 DEF LoopInv, EndsForAReason, config
<1> QED
  BY <1>7, <1>8, <1>9, <1>10 DEF IndInv

LEMMA IndClientWriteDone == ASSUME IndInv, WriteDone("client") PROVE IndInv' /\ Grows("server")
<1> DEFINE r == conn["client"]
           ms == <<ClientMessage(r)>>
<1>0. /\ Running("client") /\ "client" \notin busy /\ r.owed > 0
      /\ UNCHANGED <<config, net, named, buffer, busy, running, heard, dropped>>
  BY DEF WriteDone, Idle
<1>1. /\ ShapeInv /\ ClientInv(r, asked) /\ LoopInv /\ EndsForAReason /\ FlowInv
      /\ ServerInv(conn.server) /\ heard \in Nat
  BY DEF IndInv, ShapeInv
<1>2. PICK ok \in IF Gone("server") \/ Gone("client") THEN BOOLEAN ELSE {TRUE}, u \in Answers(r) :
        Becomes("client", OnWrite(r, ok, u), r.owed - 1, ms)
  BY DEF WriteDone, Far
<1>3. ok \in BOOLEAN /\ (~ok => Gone("server") \/ Gone("client"))
  BY <1>2
<1> DEFINE s == OnWrite(r, ok, u)
<1> HIDE DEF s
<1>4. /\ r.owed = 1 /\ r.handle = "open" /\ r.st = "Sending"
      /\ ClientInv(s, asked) /\ s.owed = 0 /\ s.st # "Received" /\ "done" \notin s.why
      /\ ok => s.why \subseteq {"restart"} /\ (again => s.why = {})
      /\ s.handle \in {"open", "closing"}
  BY <1>0, <1>1, <1>2, <1>3, ClientWrote DEF s
<1>5. s \in Connections /\ r.why = {}
  BY <1>1, <1>4 DEF ClientInv
<1>6. net = "up" => ok
  <2> SUFFICES ASSUME net = "up", ~ok  PROVE FALSE
    OBVIOUS
  <2>1. conn.server.why # {}
    BY <1>1, <1>3, <1>4 DEF Gone, ServerInv
  <2> QED
    BY <1>1, <1>5, <2>1 DEF EndsForAReason
<1>7. Becomes("client", s, 0, ms) /\ ms \in Seq(Requests) /\ 0 \in 0..Len(ms) /\ s.owed = 0 + 0
      /\ 0 \in Nat
  BY <1>2, <1>4, ClientAsks DEF s
<1> HIDE DEF ms
<1>8. ClientBecame(s, 0)
  BY <1>1, <1>5, <1>7, ClientSends
<1>9. FlowInv'
  BY <1>0, <1>1, <1>4, <1>8, FlowAsks DEF config
<1>10. asked' = asked /\ conn'.client = s /\ conn'.server = conn.server
  BY <1>1, <1>8 DEF ClientBecame, ClientInv
<1> HIDE DEF r
<1>11. ShapeInv'
  BY <1>0, <1>1, <1>8 DEF ShapeInv, TypeOK, config, ClientBecame
<1>12. ClientInv(conn.client, asked)' /\ ServerInv(conn.server)'
  BY <1>1, <1>4, <1>10
<1>13. LoopInv'
  BY <1>0, <1>1, <1>4, <1>10 DEF LoopInv, r
<1>14. EndsForAReason'
  BY <1>0, <1>1, <1>4, <1>5, <1>6, <1>10 DEF EndsForAReason, r, config
<1> QED
  BY <1>9, <1>11, <1>12, <1>13, <1>14, <1>8 DEF IndInv, ClientBecame

LEMMA IndServerWriteDone == ASSUME IndInv, WriteDone("server") PROVE IndInv' /\ Grows("client")
<1> DEFINE r == conn["server"]
<1>0. /\ "server" \notin busy /\ r.owed > 0
      /\ UNCHANGED <<config, net, named, buffer, busy, running, heard, dropped>>
  BY DEF WriteDone, Idle
<1>1. /\ ShapeInv /\ ClientInv(conn.client, asked) /\ LoopInv /\ EndsForAReason /\ FlowInv
      /\ ServerInv(r) /\ asked \in Nat
  BY PingToSendAssumption DEF IndInv, ClientInv
<1>2. PICK ok \in IF Gone("client") \/ Gone("server") THEN BOOLEAN ELSE {TRUE}, u \in Answers(r) :
        Becomes("server", OnWrite(r, ok, u), r.owed - 1, <<ClientMessage(r)>>)
  BY DEF WriteDone, Far
<1>3. ok \in BOOLEAN /\ (~ok => Gone("client") \/ Gone("server"))
  BY <1>2
<1> DEFINE s == OnWrite(r, ok, u)
<1> HIDE DEF s
<1>4. HasWritten(r, s) /\ (ok => s.why = r.why)
  BY <1>0, <1>1, <1>3, ServerWrote DEF s
<1>5. /\ ServerInv(s) /\ s.kind = r.kind /\ s \in Connections /\ s.owed = r.owed - 1
      /\ s.handle = r.handle \/ s.handle = "closing"
  BY <1>1, <1>4 DEF HasWritten, ServerInv, Connections
<1>6. net = "up" /\ ~ok => conn.client.why # {}
  <2> SUFFICES ASSUME net = "up", ~ok  PROVE conn.client.why # {}
    OBVIOUS
  <2>1. CASE Gone("client")
    BY <1>1, <2>1 DEF Gone, ClientInv
  <2>2. CASE Gone("server")
    BY <1>1, <2>2 DEF Gone, ServerInv, EndsForAReason
  <2> QED
    BY <1>3, <2>1, <2>2
<1>7. ClientMessage(r) \in Requests
  BY Zenon DEF ClientMessage, Requests
<1>8. Becomes("server", s, s.owed, <<ClientMessage(r)>>)
  BY <1>2, <1>5 DEF s
<1>9. ServerBecame(s, 0)
  BY <1>1, <1>5, <1>7, <1>8, ServerAsksNothing
<1>10. FlowInv'
  BY <1>0, <1>1, <1>9, FlowAnswersNothing DEF config
<1>11. asked' = asked /\ conn'.server = s /\ conn'.client = conn.client
  BY <1>9 DEF ServerBecame
<1>12. ShapeInv'
  BY <1>0, <1>1, <1>5, <1>9 DEF ShapeInv, TypeOK, config, ServerBecame
<1>13. ClientInv(conn.client, asked)' /\ ServerInv(conn.server)'
  BY <1>1, <1>5, <1>11
<1>14. LoopInv'
  BY <1>0, <1>1, <1>11 DEF LoopInv
<1>15. EndsForAReason'
  BY <1>0, <1>1, <1>3, <1>4, <1>6, <1>11 DEF EndsForAReason, config
<1> QED
  BY <1>10, <1>12, <1>13, <1>14, <1>15, <1>9 DEF IndInv, ServerBecame

LEMMA IndClientCloseDone == ASSUME IndInv, CloseDone("client") PROVE IndInv'
<1> DEFINE r == conn["client"]
           s == OnClose(r)
<1>0. /\ r.handle = "closing" /\ conn' = [conn EXCEPT !["client"] = s] /\ "client" \notin busy
      /\ UNCHANGED <<config, net, named, wire, buffer, busy, running, history>>
  BY DEF CloseDone, Idle
<1>1. /\ ShapeInv /\ ClientInv(r, asked) /\ LoopInv /\ EndsForAReason /\ FlowInv
      /\ ServerInv(conn.server)
  BY DEF IndInv
<1> HIDE DEF s
<1>2. /\ ClientInv(s, asked) /\ s.st = "Closed" /\ s.owed = 0 /\ s.handle = "closed"
      /\ s.why = r.why
  BY <1>0, <1>1, ClientIsClosed DEF s
<1>3. s \in Connections
  BY <1>2 DEF ClientInv
<1>4. conn' \in [Sides -> Connections] /\ conn'.client = s /\ conn'.server = conn.server
  BY <1>0, <1>1, <1>3 DEF ShapeInv, TypeOK, Sides
<1>5. FlowInv'
  BY <1>0, <1>1, <1>2, <1>4, FlowKept DEF config, history
<1>6. ShapeInv'
  BY <1>0, <1>1, <1>4 DEF ShapeInv, TypeOK, config, history
<1>7. ClientInv(conn.client, asked)' /\ ServerInv(conn.server)'
  BY <1>0, <1>1, <1>2, <1>4 DEF history
<1>8. LoopInv' /\ EndsForAReason'
  BY <1>0, <1>1, <1>2, <1>4 DEF LoopInv, EndsForAReason, config
<1> QED
  BY <1>5, <1>6, <1>7, <1>8 DEF IndInv

LEMMA IndServerCloseDone == ASSUME IndInv, CloseDone("server") PROVE IndInv'
<1> DEFINE r == conn["server"]
           s == OnClose(r)
<1>0. /\ r.handle = "closing" /\ r.owed = 0 /\ conn' = [conn EXCEPT !["server"] = s]
      /\ "server" \notin busy
      /\ UNCHANGED <<config, net, named, wire, buffer, busy, running, history>>
  BY DEF CloseDone, Idle
<1>1. /\ ShapeInv /\ ClientInv(conn.client, asked) /\ LoopInv /\ EndsForAReason /\ FlowInv
      /\ ServerInv(r)
  BY DEF IndInv
<1> HIDE DEF s
<1>2. ServerInv(s) /\ s.kind = r.kind /\ s.handle = "closed" /\ s.owed = 0
  BY <1>0, <1>1, ServerIsClosed DEF s
<1>3. s \in Connections /\ r.why # {}
  BY <1>0, <1>1, <1>2 DEF ServerInv
<1>4. conn' \in [Sides -> Connections] /\ conn'.server = s /\ conn'.client = conn.client
  BY <1>0, <1>1, <1>3 DEF ShapeInv, TypeOK, Sides
<1>5. FlowInv'
  BY <1>0, <1>1, <1>4, FlowKept DEF config, history
<1>6. ShapeInv'
  BY <1>0, <1>1, <1>2, <1>4 DEF ShapeInv, TypeOK, config, history
<1>7. ClientInv(conn.client, asked)' /\ ServerInv(conn.server)'
  BY <1>0, <1>1, <1>2, <1>4 DEF history
<1>8. LoopInv' /\ EndsForAReason'
  BY <1>0, <1>1, <1>2, <1>3, <1>4 DEF LoopInv, EndsForAReason, config
<1> QED
  BY <1>5, <1>6, <1>7, <1>8 DEF IndInv

LEMMA IndLoopEnds == ASSUME IndInv, LoopEnds PROVE IndInv'
<1> DEFINE r == conn["client"]
           s == [r EXCEPT !.obj = "freed"]
<1>0. /\ r.handle # "none" /\ ~Alive(r) /\ running' = FALSE /\ "client" \notin busy
      /\ UNCHANGED <<config, net, named, wire, buffer, busy, history>>
  BY DEF LoopEnds, Idle
<1>1. /\ ShapeInv /\ ClientInv(r, asked) /\ LoopInv /\ EndsForAReason /\ FlowInv
      /\ ServerInv(conn.server) /\ r \in Connections /\ conn \in [Sides -> Connections]
  BY DEF IndInv, ShapeInv, TypeOK, ClientInv
<1>2. conn' = [conn EXCEPT !["client"] = s]
  BY DEF LoopEnds
<1>3. /\ s \in Connections /\ s.kind = r.kind /\ s.handle = r.handle /\ s.stream = r.stream
      /\ s.why = r.why /\ s.reading = r.reading /\ s.owed = r.owed /\ s.sends = r.sends
      /\ s.st = r.st
  BY <1>1 DEF Connections
<1>4. r.handle \in {"failed", "closed"}
  BY <1>0, <1>1 DEF ClientInv, Connections, Handles, Alive
<1> HIDE DEF s
<1>5. conn' \in [Sides -> Connections] /\ conn'.client = s /\ conn'.server = conn.server
  BY <1>1, <1>2, <1>3 DEF Sides
<1>6. ClientInv(s, asked)
  BY <1>1, <1>3 DEF ClientInv
<1>7. FlowInv'
  BY <1>0, <1>1, <1>3, <1>5, FlowKept DEF config, history
<1>8. ShapeInv'
  BY <1>0, <1>1, <1>5 DEF ShapeInv, TypeOK, config, history
<1>9. ClientInv(conn.client, asked)' /\ ServerInv(conn.server)'
  BY <1>0, <1>1, <1>5, <1>6 DEF history
<1>10. LoopInv' /\ EndsForAReason'
  BY <1>0, <1>1, <1>3, <1>4, <1>5 DEF LoopInv, EndsForAReason, config
<1> QED
  BY <1>7, <1>8, <1>9, <1>10 DEF IndInv

LEMMA IndStutter == IndInv /\ UNCHANGED vars => IndInv'
<1> SUFFICES ASSUME IndInv, UNCHANGED vars  PROVE IndInv'
  OBVIOUS
<1>1. FlowInv'
  BY FlowKept DEF IndInv, vars, config, history
<1>2. ShapeInv'
  BY DEF IndInv, vars, config, history, ShapeInv, TypeOK
<1>3. ClientInv(conn.client, asked)' /\ ServerInv(conn.server)'
  BY DEF IndInv, vars, config, history
<1>4. LoopInv' /\ EndsForAReason'
  BY DEF IndInv, vars, config, history, LoopInv, EndsForAReason
<1> QED
  BY <1>1, <1>2, <1>3, <1>4 DEF IndInv

(* All callbacks of one side.                                              *)
LEMMA IndHandler == ASSUME NEW d \in Sides, IndInv, Handler(d) PROVE IndInv'
<1>1. CASE ReadData(d)
  BY <1>1, IndReadData
<1>2. CASE d = "client" /\ ~ReadData(d)
  BY <1>2, IndClientMessage, IndClientSkips, IndClientReadDone, IndClientReadStop,
     IndClientWriteDone, IndClientCloseDone DEF Handler
<1>3. CASE d = "server" /\ ~ReadData(d)
  BY <1>3, IndServerMessage, ServerSkipsNothing, IndServerReadDone, IndServerReadStop,
     IndServerWriteDone, IndServerCloseDone DEF Handler
<1> QED
  BY <1>1, <1>2, <1>3 DEF Sides

(* Every step keeps the invariant.                                         *)
LEMMA IndStep == IndInv /\ [Next]_vars => IndInv'
<1> SUFFICES ASSUME IndInv, [Next]_vars  PROVE IndInv'
  OBVIOUS
<1>1. "client" \in Sides /\ "server" \in Sides
  BY DEF Sides
<1>2. CASE Client
  BY <1>1, <1>2, IndStartConnect, IndConnectDone, IndHandler, IndLoopEnds DEF Client
<1>3. CASE Server
  BY <1>1, <1>3, IndAccept, IndHandler DEF Server
<1> QED
  BY <1>2, <1>3, IndSetName, IndNetFails, IndStutter DEF Next

-----------------------------------------------------------------------------
(* What follows *)

(* The inductive invariant holds in every state.                           *)
THEOREM Invariance == Spec => []IndInv
<1> QED
  BY IndInit, IndStep, PTL DEF Spec

(* Every variable keeps its shape.                                         *)
THEOREM TypeCorrect == Spec => []TypeOK
<1>1. IndInv => TypeOK
  BY DEF IndInv, ShapeInv
<1> QED
  BY <1>1, Invariance, PTL

(* The client objects are deleted only when libuv holds nothing that calls *)
(* back into them (app.cpp:125).                                           *)
THEOREM Deletion == Spec => []DeletedWhenDone
<1>1. IndInv => DeletedWhenDone
  BY DEF IndInv, LoopInv, ClientInv, DeletedWhenDone, Connections
<1> QED
  BY <1>1, Invariance, PTL

(* A client that ends by itself has sent all its messages, and a server    *)
(* has answered each of them (net_client.cpp:378).                         *)
THEOREM Answered == Spec => []AllAnswered
<1>1. IndInv => AllAnswered
  <2> SUFFICES ASSUME IndInv  PROVE AllAnswered
    OBVIOUS
  <2>1. /\ ClientInv(conn.client, asked) /\ asked \in 0..(1 + PingToSend) /\ heard \in Nat
        /\ conn.client.handle \in Handles /\ PingToSend \in Nat
    BY PingToSendAssumption DEF IndInv, ShapeInv, ClientInv, Connections
  <2>2. "done" \in conn.client.why => asked = 1 + PingToSend
    BY <2>1 DEF ClientInv, Handles
  <2>3. "done" \in conn.client.why /\ kind = "ServerIn" => heard = asked
    <3>1. \E n \in Nat : OneAtATime(n)
      BY DEF IndInv, FlowInv
    <3> QED
      BY <2>1, <3>1 DEF OneAtATime
  <2> QED
    BY <2>1, <2>2, <2>3 DEF AllAnswered
<1> QED
  BY <1>1, Invariance, PTL

(* Without a failure, a connection ends only because the client is done,   *)
(* or asks to read twice where that is refused; the server follows it.     *)
THEOREM Reasoned == Spec => []EndsForAReason
<1>1. IndInv => EndsForAReason
  BY DEF IndInv
<1> QED
  BY <1>1, Invariance, PTL

(* Only an answer to a handshake without a name is not understood          *)
(* (app.cpp:35, net_client.cpp:170).                                       *)
THEOREM Dropping == Spec => OnlyBlankDropped
<1>1. ASSUME IndInv, [Next]_vars, dropped' # dropped
      PROVE  /\ kind = "ServerIn" /\ "client" \in busy
             /\ FirstLine(buffer.client) = <<"HANDSHRESP", "V01", Blank, "addr">>
  <2>1. Unparseable("client")
    <3>1. ~Unparseable("server")
      BY <1>1, ServerSkipsNothing
    <3> QED
      BY <1>1, <3>1 DEF Next, Client, Server, Handler, StartConnect, ConnectDone, Accept,
         SetName, ReadData, Message, ReadDone, ReadStop, WriteDone, CloseDone, LoopEnds,
         NetFails, history, vars
  <2>2. /\ HasLine(buffer["client"]) /\ "client" \in busy
        /\ ParseMessage(Tokens(FirstLine(buffer["client"]))) = NoMessage
    BY <2>1 DEF Unparseable
  <2>3. FlowInv /\ kind \in InKinds
    BY <1>1, ServerKindsAssumption DEF IndInv, ShapeInv, TypeOK
  <2>4. PICK q, a \in Nat : Carries(buffer.client, wire.client, Responses(kind), a)
    BY <2>3, FlowIs
  <2>5. PICK m \in Responses(kind) : Taken(buffer.client, wire.client, Responses(kind), a, m)
    BY <1>1, <2>2, <2>4, ClientLine
  <2>6. ReadBack(m) = NoMessage /\ FirstLine(buffer["client"]) = <<m.type>> \o m.fields
    BY <2>2, <2>5 DEF Taken
  <2>7. kind # "NodeIn" /\ m = Welcome(Blank)
    BY <2>6, ResponseMeans
  <2>8. m.type = "HANDSHRESP" /\ m.fields = <<"V01", Blank, "addr">>
    BY <2>7 DEF Welcome, Msg
  <2>9. FirstLine(buffer["client"]) = <<"HANDSHRESP", "V01", Blank, "addr">>
    BY <2>6, <2>8, FourWords, Zenon
  <2> QED
    BY <2>2, <2>3, <2>7, <2>9 DEF InKinds
<1>2. IndInv /\ [Next]_vars => [dropped' # dropped =>
         /\ kind = "ServerIn" /\ "client" \in busy
         /\ FirstLine(buffer.client) = <<"HANDSHRESP", "V01", Blank, "addr">>]_vars
  BY <1>1
<1> QED
  BY <1>2, Invariance, PTL DEF Spec, OnlyBlankDropped

-----------------------------------------------------------------------------
(* The lines of either direction *)

Whole(t) == t = <<>> \/ t[Len(t)] = Terminator

(* A text of lines stays, has whole lines added or the first one taken.    *)
LineStep(t, u) ==
  \/ u = t
  \/ Len(u) > Len(t) /\ SubSeq(u, 1, Len(t)) = t /\ Whole(u)
  \/ HasLine(t) /\ u = AfterLine(t)

(* The words of LineChannel are those of Wire.                             *)
LEMMA SameWire ==
  ASSUME NEW t
  PROVE  /\ (ToServer!Complete(t) <=> Whole(t)) /\ (ToClient!Complete(t) <=> Whole(t))
         /\ (ToServer!HasLine(t) <=> HasLine(t)) /\ (ToClient!HasLine(t) <=> HasLine(t))
         /\ ToServer!AfterLine(t) = AfterLine(t) /\ ToClient!AfterLine(t) = AfterLine(t)
<1>1. (ToServer!Complete(t) <=> Whole(t)) /\ (ToClient!Complete(t) <=> Whole(t))
  BY DEF ToServer!Complete, ToClient!Complete, ToServer!Terminator, ToClient!Terminator,
     Whole, Terminator
<1>2. (ToServer!HasLine(t) <=> HasLine(t)) /\ (ToClient!HasLine(t) <=> HasLine(t))
  BY DEF ToServer!HasLine, ToClient!HasLine, ToServer!Terminator, ToClient!Terminator,
     HasLine, Terminator
<1>3. ToServer!AfterLine(t) = AfterLine(t) /\ ToClient!AfterLine(t) = AfterLine(t)
  BY Zenon DEF ToServer!AfterLine, ToClient!AfterLine, ToServer!LineEnd, ToClient!LineEnd,
     ToServer!Terminator, ToClient!Terminator, AfterLine, LineEnd, Terminator
<1> QED
  BY <1>1, <1>2, <1>3

(* No message is on its way in part.                                       *)
LEMMA WholeTexts ==
  IndInv => /\ Whole(buffer.server \o wire.server) /\ Whole(buffer.client \o wire.client)
<1> SUFFICES ASSUME IndInv
             PROVE  /\ Whole(buffer.server \o wire.server) /\ Whole(buffer.client \o wire.client)
  OBVIOUS
<1>1. FlowInv
  BY DEF IndInv
<1>2. PICK q, a \in Nat : /\ Carries(buffer.server, wire.server, Requests, q)
                          /\ Carries(buffer.client, wire.client, Responses(kind), a)
  BY <1>1, FlowIs
<1>3. PICK s \in Seq(Requests) : buffer.server \o wire.server = TextOf(s)
  BY <1>2 DEF Carries
<1>4. PICK t \in Seq(Responses(kind)) : buffer.client \o wire.client = TextOf(t)
  BY <1>2 DEF Carries
<1>5. Whole(TextOf(s))
  BY RequestsAreWords, TextEnds DEF Whole
<1>6. Whole(TextOf(t))
  BY ResponsesAreWords, TextEnds DEF Whole
<1> QED
  BY <1>3, <1>4, <1>5, <1>6, Zenon

LEMMA WholeTextsAfter ==
  IndInv' => (Whole(buffer.server \o wire.server) /\ Whole(buffer.client \o wire.client))'
BY WholeTexts, PTL

(* What is added to a text are lines.                                      *)
LEMMA LinesAdded ==
  ASSUME NEW t \in Texts, NEW x \in Texts, NEW u, u = t \o x, Whole(u)
  PROVE  LineStep(t, u)
<1>1. t \in Seq(Words \cup {Terminator}) /\ x \in Seq(Words \cup {Terminator})
  BY DEF Texts
<1>2. CASE x = <<>>
  BY <1>1, <1>2, ConcatEmptySeq DEF LineStep
<1>3. CASE x # <<>>
  <2>1. Len(u) = Len(t) + Len(x) /\ Len(x) > 0 /\ Len(t) \in Nat /\ Len(x) \in Nat
    BY <1>1, <1>3, EmptySeq, ConcatProperties
  <2>2. SubSeq(u, 1, Len(t)) = t
    BY <1>1, <2>1
  <2>3. Len(u) > Len(t)
    <3> DEFINE k == Len(t)
               n == Len(x)
    <3>1. Len(u) = k + n /\ n > 0 /\ k \in Nat /\ n \in Nat
      BY <2>1
    <3> HIDE DEF k, n
    <3>2. Len(u) > k
      BY <3>1
    <3> QED
      BY <3>2 DEF k
  <2> QED
    BY <2>2, <2>3, Zenon DEF LineStep
<1> QED
  BY <1>2, <1>3

(* The first line of the buffer is the first line of the text.             *)
LEMMA LineRemoved ==
  ASSUME NEW b \in Texts, NEW w \in Texts, HasLine(b)
  PROVE  LineStep(b \o w, AfterLine(b) \o w)
<1>1. HasLine(b \o w) /\ AfterLine(b \o w) = AfterLine(b) \o w
  BY LineStays DEF Texts
<1> QED
  BY <1>1 DEF LineStep

(* The text of side d as a step finds and leaves it.                       *)
Moves(d) == LineStep(buffer[d] \o wire[d], buffer'[d] \o wire'[d])

(* A side to which text is sent has lines added.                           *)
LEMMA MoreMoves ==
  ASSUME NEW d \in Sides, IndInv, IndInv', Grows(d), buffer'[d] = buffer[d]
  PROVE  Moves(d)
<1>1. buffer[d] \in Texts /\ wire[d] \in Texts /\ wire'[d] \in Texts
  BY DEF IndInv, ShapeInv
<1>2. PICK x \in Texts : wire'[d] = wire[d] \o x
  BY DEF Grows
<1>3. Whole(buffer'[d] \o wire'[d])
  BY WholeTextsAfter DEF Sides
<1>4. /\ buffer[d] \o wire[d] \in Texts
      /\ buffer'[d] \o wire'[d] = (buffer[d] \o wire[d]) \o x
  <2> DEFINE S == Words \cup {Terminator}
  <2>1. Texts = Seq(S)
    BY DEF Texts
  <2> HIDE DEF S
  <2>2. \A t, u \in Seq(S) : t \o u \in Seq(S)
    BY ConcatProperties
  <2>3. \A t, u, v \in Seq(S) : (t \o u) \o v = t \o (u \o v)
    BY ConcatAssociative, SMTT(30)
  <2>4. (buffer[d] \o wire[d]) \o x = buffer[d] \o (wire[d] \o x)
    BY <1>1, <2>1, <2>3, Zenon
  <2> QED
    BY <1>1, <1>2, <2>1, <2>2, <2>4, Zenon
<1> QED
  BY <1>3, <1>4, LinesAdded DEF Moves

(* A side that takes a line from its buffer takes the first one.           *)
LEMMA LessMoves ==
  ASSUME NEW d \in Sides, IndInv, HasLine(buffer[d]), buffer'[d] = AfterLine(buffer[d]),
         wire'[d] = wire[d]
  PROVE  Moves(d)
<1>1. buffer[d] \in Texts /\ wire[d] \in Texts
  BY DEF IndInv, ShapeInv
<1> QED
  BY <1>1, LineRemoved DEF Moves

LEMMA SameMoves ==
  ASSUME NEW d, buffer'[d] \o wire'[d] = buffer[d] \o wire[d]
  PROVE  Moves(d)
BY DEF Moves, LineStep

(* Side d becomes something, and the other side may have more to read.     *)
LEMMA BecomesMoves ==
  ASSUME NEW d \in Sides, IndInv, IndInv', Grows(Far(d)), UNCHANGED buffer,
         NEW r, NEW owed, NEW messages, Becomes(d, r, owed, messages)
  PROVE  \A e \in Sides : Moves(e)
<1>1. wire \in [Sides -> Texts] /\ Far(d) \in Sides
  BY DEF IndInv, ShapeInv, Far, Sides
<1>2. \A e \in Sides : e # Far(d) => wire'[e] = wire[e]
  BY <1>1 DEF Becomes
<1>3. Moves(Far(d))
  BY <1>1, MoreMoves
<1> QED
  BY <1>2, <1>3, SameMoves

(* A message is taken on one side, and its replies are added on the other. *)
LEMMA MessageMoves ==
  ASSUME NEW d \in Sides, IndInv, IndInv', Grows(Far(d)), Message(d)
  PROVE  \A e \in Sides : Moves(e)
<1>1. PICK r, owed, messages : Becomes(d, r, owed, messages)
  BY DEF Message
<1>2. HasLine(buffer[d]) /\ buffer' = [buffer EXCEPT ![d] = AfterLine(buffer[d])]
  BY DEF Message
<1>3. /\ wire \in [Sides -> Texts] /\ buffer \in [Sides -> Texts] /\ Far(d) \in Sides
      /\ Far(d) # d
  BY DEF IndInv, ShapeInv, Far, Sides
<1>4. wire'[d] = wire[d]
  BY <1>1, <1>3 DEF Becomes
<1>5. buffer'[d] = AfterLine(buffer[d]) /\ buffer'[Far(d)] = buffer[Far(d)]
  BY <1>2, <1>3
<1>6. Moves(d) /\ Moves(Far(d))
  BY <1>2, <1>3, <1>4, <1>5, LessMoves, MoreMoves
<1>7. \A e \in Sides : e = d \/ e = Far(d)
  BY DEF Sides, Far
<1> QED
  BY <1>6, <1>7

(* A read moves text within its side.                                      *)
LEMMA ReadDataMoves ==
  ASSUME NEW d \in Sides, IndInv, ReadData(d)
  PROVE  \A e \in Sides : Moves(e)
<1>1. PICK k \in 1..Len(wire[d]) :
        /\ buffer' = [buffer EXCEPT ![d] = buffer[d] \o SubSeq(wire[d], 1, k)]
        /\ wire' = [wire EXCEPT ![d] = SubSeq(wire[d], k + 1, Len(wire[d]))]
  BY DEF ReadData
<1>2. wire \in [Sides -> Texts] /\ buffer \in [Sides -> Texts]
  BY DEF IndInv, ShapeInv
<1> DEFINE b == buffer[d] \o SubSeq(wire[d], 1, k)
           w == SubSeq(wire[d], k + 1, Len(wire[d]))
<1>3. b \o w = buffer[d] \o wire[d]
  BY <1>2, TextMoves
<1>4. buffer' = [buffer EXCEPT ![d] = b] /\ wire' = [wire EXCEPT ![d] = w]
  BY <1>1
<1> HIDE DEF b, w
<1>5. \A e \in Sides : \/ e = d /\ buffer'[e] = b /\ wire'[e] = w
                       \/ e # d /\ buffer'[e] = buffer[e] /\ wire'[e] = wire[e]
  BY <1>2, <1>4
<1> QED
  BY <1>3, <1>5, SameMoves

(* A line is skipped.                                                      *)
LEMMA SkipMoves ==
  ASSUME NEW d \in Sides, IndInv, Unparseable(d)
  PROVE  \A e \in Sides : Moves(e)
<1>1. /\ HasLine(buffer[d]) /\ buffer' = [buffer EXCEPT ![d] = AfterLine(buffer[d])]
      /\ wire' = wire
  BY DEF Unparseable
<1>2. buffer \in [Sides -> Texts]
  BY DEF IndInv, ShapeInv
<1>3. /\ buffer'[d] = AfterLine(buffer[d]) /\ wire'[d] = wire[d]
      /\ \A e \in Sides : e # d => buffer'[e] = buffer[e] /\ wire'[e] = wire[e]
  BY <1>1, <1>2
<1>4. Moves(d)
  BY <1>1, <1>3, LessMoves
<1> QED
  BY <1>3, <1>4, SameMoves

(* Every step does one of these on either side.                            *)
LEMMA StepMoves == ASSUME IndInv, [Next]_vars  PROVE \A e \in Sides : Moves(e)
<1>1. IndInv'
  BY IndStep
<1>2. /\ Far("client") = "server" /\ Far("server") = "client"
      /\ "client" \in Sides /\ "server" \in Sides
  BY DEF Far, Sides
<1>3. ASSUME UNCHANGED <<buffer, wire>>  PROVE \A e \in Sides : Moves(e)
  BY <1>3, SameMoves
<1>4. CASE ConnectDone
  <2>1. UNCHANGED buffer /\ \E r, owed, messages : Becomes("client", r, owed, messages)
    BY <1>4 DEF ConnectDone
  <2>2. Grows("server")
    BY <1>4, IndConnectDone
  <2> QED
    BY <1>1, <1>2, <2>1, <2>2, BecomesMoves
<1>5. CASE ReadDone("client") \/ WriteDone("client")
  <2>1. UNCHANGED buffer /\ \E r, owed, messages : Becomes("client", r, owed, messages)
    BY <1>5 DEF ReadDone, WriteDone
  <2>2. Grows("server")
    BY <1>5, IndClientReadDone, IndClientWriteDone
  <2> QED
    BY <1>1, <1>2, <2>1, <2>2, BecomesMoves
<1>6. CASE ReadDone("server") \/ WriteDone("server")
  <2>1. UNCHANGED buffer /\ \E r, owed, messages : Becomes("server", r, owed, messages)
    BY <1>6 DEF ReadDone, WriteDone
  <2>2. Grows("client")
    BY <1>6, IndServerReadDone, IndServerWriteDone
  <2> QED
    BY <1>1, <1>2, <2>1, <2>2, BecomesMoves
<1>7. CASE Message("client")
  BY <1>1, <1>2, <1>7, IndClientMessage, MessageMoves
<1>8. CASE Message("server")
  BY <1>1, <1>2, <1>8, IndServerMessage, MessageMoves
<1>9. CASE \E d \in Sides : ReadData(d) \/ Unparseable(d)
  BY <1>9, ReadDataMoves, SkipMoves
<1>10. CASE \/ StartConnect \/ Accept \/ SetName \/ NetFails \/ LoopEnds \/ UNCHANGED vars
            \/ \E d \in Sides : ReadStop(d) \/ CloseDone(d)
  <2>1. UNCHANGED <<buffer, wire>>
    BY <1>10 DEF StartConnect, Accept, SetName, NetFails, LoopEnds, vars, ReadStop, CloseDone
  <2> QED
    BY <1>3, <2>1
<1> QED
  BY <1>2, <1>4, <1>5, <1>6, <1>7, <1>8, <1>9, <1>10 DEF Next, Client, Server, Handler

(* However the text is cut into reads, both directions are channels of     *)
(* whole lines in order: Session implements two copies of LineChannel      *)
(* (net_client.cpp:160).                                                   *)
THEOREM Channels == Spec => LinesSpec
<1>1. Init => ToServer!Init /\ ToClient!Init
  <2> SUFFICES ASSUME Init  PROVE ToServer!Init /\ ToClient!Init
    OBVIOUS
  <2>1. /\ buffer["server"] = <<>> /\ wire["server"] = <<>>
        /\ buffer["client"] = <<>> /\ wire["client"] = <<>>
    BY DEF Init, Sides
  <2>2. <<>> \o <<>> = <<>>
    OBVIOUS
  <2> QED
    BY <2>1, <2>2 DEF ToServer!Init, ToClient!Init
<1>2. IndInv /\ [Next]_vars => [ToServer!Next]_(buffer.server \o wire.server)
  <2> SUFFICES ASSUME IndInv, [Next]_vars  PROVE [ToServer!Next]_(buffer.server \o wire.server)
    OBVIOUS
  <2>1. LineStep(buffer.server \o wire.server, (buffer.server \o wire.server)')
    BY StepMoves DEF Sides, Moves
  <2> QED
    BY <2>1, SameWire DEF LineStep, ToServer!Next, ToServer!Send, ToServer!Take
<1>3. IndInv /\ [Next]_vars => [ToClient!Next]_(buffer.client \o wire.client)
  <2> SUFFICES ASSUME IndInv, [Next]_vars  PROVE [ToClient!Next]_(buffer.client \o wire.client)
    OBVIOUS
  <2>1. LineStep(buffer.client \o wire.client, (buffer.client \o wire.client)')
    BY StepMoves DEF Sides, Moves
  <2> QED
    BY <2>1, SameWire DEF LineStep, ToClient!Next, ToClient!Send, ToClient!Take
<1> QED
  BY <1>1, <1>2, <1>3, Invariance, PTL DEF Spec, LinesSpec, ToServer!Spec, ToClient!Spec
=============================================================================
