----------------------------- MODULE WireProofs -----------------------------
(***************************************************************************)
(* What is written for a sequence of messages, and what the receive buffer *)
(* makes of it, for messages of any number and length.                     *)
(*                                                                         *)
(* The library's induction theorems have a predicate as parameter; here    *)
(* induction is over sets (Induction), from the well-foundedness of Nat.   *)
(***************************************************************************)
EXTENDS Wire, SequenceTheorems, WellFoundedInduction, TLAPS

-----------------------------------------------------------------------------
(* Induction over sets of numbers *)

(* The order of the numbers, as a relation.                                *)
LEMMA Ordered ==
  \E R : IsWellFoundedOn(R, Nat) /\ \A x, y \in Nat : x < y => <<x, y>> \in R
<1> DEFINE R == OpToRel(<, Nat)
<1>1. IsWellFoundedOn(R, Nat)
  BY NatLessThanWellFounded, Zenon
<1>2. \A x, y \in Nat : x < y => <<x, y>> \in R
  BY DEF OpToRel
<1> HIDE DEF R
<1> QED
  BY <1>1, <1>2, Zenon

(* A set of numbers that has some has a least one.                         *)
LEMMA Least ==
  ASSUME NEW T, T \subseteq Nat, T # {}
  PROVE  \E m \in T : \A k \in T : m <= k
<1>1. PICK R : IsWellFoundedOn(R, Nat) /\ \A x, y \in Nat : x < y => <<x, y>> \in R
  BY Ordered
<1>2. IsWellFoundedOn(R, Nat)
  BY <1>1
<1>3. \E x \in T : \A y \in T : ~ (<<y, x>> \in R)
  BY <1>2, WFMin
<1>4. PICK x \in T : \A y \in T : ~ (<<y, x>> \in R)
  BY <1>3
<1>5. ASSUME NEW k \in T  PROVE x <= k
  <2>1. x \in Nat /\ k \in Nat
    OBVIOUS
  <2>2. ~(k < x)
    BY <1>1, <1>4, <2>1
  <2> QED
    BY <2>1, <2>2
<1> QED
  BY <1>5

(* A set with 0 and the successors of its numbers has all of them.         *)
LEMMA Induction ==
  ASSUME NEW S, 0 \in S, \A i \in Nat : i \in S => i + 1 \in S
  PROVE  Nat \subseteq S
<1> SUFFICES ASSUME ~(Nat \subseteq S)  PROVE FALSE
  OBVIOUS
<1> DEFINE T == {i \in Nat : i \notin S}
<1>1. T # {} /\ T \subseteq Nat
  OBVIOUS
<1> HIDE DEF T
<1>2. PICK m \in T : \A k \in T : m <= k
  BY <1>1, Least
<1>3. m \in Nat /\ m # 0 /\ m - 1 \in Nat
  BY DEF T
<1>4. m - 1 \notin T
  BY <1>2, <1>3
<1>5. (m - 1) + 1 \in S
  BY <1>3, <1>4 DEF T
<1>6. (m - 1) + 1 = m
  BY <1>3
<1> QED
  BY <1>5, <1>6 DEF T

-----------------------------------------------------------------------------
(* The text of messages *)

IsText(f, ms, n) ==
  f = [i \in 0..n |-> IF i = 0 THEN <<>> ELSE f[i - 1] \o OnWire(ms[i])]

(* The recursive function of TextOf exists.                                *)
LEMMA TextExists ==
  ASSUME NEW ms, NEW n \in Nat
  PROVE  \E f : IsText(f, ms, n)
<1> DEFINE S == {k \in Nat : \E f : IsText(f, ms, k)}
<1>1. 0 \in S
  <2> DEFINE f == [i \in 0..0 |-> <<>>]
  <2>1. IsText(f, ms, 0)
    BY DEF IsText
  <2> QED
    BY <2>1
<1>2. ASSUME NEW k \in Nat, k \in S  PROVE k + 1 \in S
  <2>1. PICK f : IsText(f, ms, k)
    BY <1>2
  <2> DEFINE g == [i \in 0..(k + 1) |-> IF i = k + 1 THEN f[k] \o OnWire(ms[k + 1]) ELSE f[i]]
  <2>2. ASSUME NEW i \in 0..(k + 1)
        PROVE  g[i] = IF i = 0 THEN <<>> ELSE g[i - 1] \o OnWire(ms[i])
    <3>1. CASE i = k + 1
      <4>1. i - 1 = k /\ i # 0 /\ k \in 0..(k + 1) /\ k # k + 1
        BY <3>1
      <4>2. g[i] = f[k] \o OnWire(ms[k + 1]) /\ g[k] = f[k]
        BY <3>1, <4>1
      <4> QED
        BY <3>1, <4>1, <4>2
    <3>2. CASE i # k + 1
      <4>1. i \in 0..k /\ g[i] = f[i]
        BY <3>2
      <4>2. i # 0 => g[i - 1] = f[i - 1]
        BY <4>1
      <4>3. f[i] = IF i = 0 THEN <<>> ELSE f[i - 1] \o OnWire(ms[i])
        BY <2>1, <4>1, Zenon DEF IsText
      <4> QED
        BY <4>1, <4>2, <4>3
    <3> QED
      BY <3>1, <3>2
  <2>3. IsText(g, ms, k + 1)
    BY <2>2 DEF IsText
  <2> QED
    BY <2>3
<1> HIDE DEF S
<1>3. Nat \subseteq S
  BY <1>1, <1>2, Induction
<1> QED
  BY <1>3 DEF S

(* Texts agree as long as their messages do.                               *)
LEMMA TextUnique ==
  ASSUME NEW f, NEW ms, NEW n \in Nat, IsText(f, ms, n),
         NEW g, NEW ns, NEW k \in Nat, IsText(g, ns, k),
         NEW j \in Nat, j <= n, j <= k, \A i \in 1..j : ms[i] = ns[i]
  PROVE  f[j] = g[j]
<1> DEFINE S == {i \in Nat : i <= j => f[i] = g[i]}
<1>1. 0 \in S
  <2>1. 0 \in 0..n /\ 0 \in 0..k
    OBVIOUS
  <2>2. f[0] = <<>> /\ g[0] = <<>>
    BY <2>1, Zenon DEF IsText
  <2> QED
    BY <2>2
<1>2. ASSUME NEW i \in Nat, i \in S  PROVE i + 1 \in S
  <2> SUFFICES ASSUME i + 1 <= j  PROVE f[i + 1] = g[i + 1]
    OBVIOUS
  <2>1. i + 1 \in 0..n /\ i + 1 \in 0..k /\ i + 1 # 0 /\ (i + 1) - 1 = i /\ i + 1 \in 1..j
    OBVIOUS
  <2>2. f[i + 1] = f[i] \o OnWire(ms[i + 1])
    BY <2>1, Zenon DEF IsText
  <2>3. g[i + 1] = g[i] \o OnWire(ns[i + 1])
    BY <2>1, Zenon DEF IsText
  <2>4. f[i] = g[i]
    BY <1>2
  <2>5. ms[i + 1] = ns[i + 1]
    BY <2>1
  <2> QED
    BY <2>2, <2>3, <2>4, <2>5
<1> HIDE DEF S
<1>3. Nat \subseteq S
  BY <1>1, <1>2, Induction
<1> QED
  BY <1>3 DEF S

(* TextOf is its last value.                                               *)
LEMMA TextIs ==
  ASSUME NEW ms, Len(ms) \in Nat
  PROVE  \E f : IsText(f, ms, Len(ms)) /\ TextOf(ms) = f[Len(ms)]
<1> DEFINE text == CHOOSE f : IsText(f, ms, Len(ms))
<1>1. \E f : IsText(f, ms, Len(ms))
  BY TextExists
<1>2. IsText(text, ms, Len(ms))
  BY <1>1
<1>3. TextOf(ms) = text[Len(ms)]
  BY DEF TextOf, IsText
<1> QED
  BY <1>2, <1>3

(* TextOf, message by message.                                             *)
LEMMA TextEmpty == TextOf(<<>>) = <<>>
<1>1. Len(<<>>) = 0
  OBVIOUS
<1>2. PICK f : IsText(f, <<>>, 0) /\ TextOf(<<>>) = f[0]
  BY <1>1, TextIs
<1>3. 0 \in 0..0
  OBVIOUS
<1> QED
  BY <1>2, <1>3, Zenon DEF IsText

LEMMA TextAppend ==
  ASSUME NEW M, NEW ms \in Seq(M), NEW m \in M
  PROVE  TextOf(Append(ms, m)) = TextOf(ms) \o OnWire(m)
<1> DEFINE n == Len(ms)
           ns == Append(ms, m)
<1>1. n \in Nat /\ Len(ns) = n + 1 /\ ns[n + 1] = m /\ \A i \in 1..n : ns[i] = ms[i]
  OBVIOUS
<1> HIDE DEF ns
<1>2. PICK f : IsText(f, ms, n) /\ TextOf(ms) = f[n]
  BY <1>1, TextIs
<1>3. PICK g : IsText(g, ns, n + 1) /\ TextOf(ns) = g[n + 1]
  BY <1>1, TextIs
<1>4. f[n] = g[n]
  <2>1. n + 1 \in Nat /\ n <= n /\ n <= n + 1
    BY <1>1
  <2> QED
    BY <1>1, <1>2, <1>3, <2>1, TextUnique
<1>5. g[n + 1] = g[n] \o OnWire(ns[n + 1])
  <2>1. n + 1 \in 0..(n + 1) /\ n + 1 # 0 /\ (n + 1) - 1 = n
    BY <1>1
  <2>2. g[n + 1] = g[(n + 1) - 1] \o OnWire(ns[n + 1])
    BY <1>3, <2>1, Zenon DEF IsText
  <2> QED
    BY <2>1, <2>2
<1> QED
  BY <1>1, <1>2, <1>3, <1>4, <1>5 DEF ns

(* Induction over sequences, from the front: T has all those of M.         *)
LEMMA SeqInduction ==
  ASSUME NEW M, NEW T, <<>> \in T,
         \A s \in Seq(M) : s \in T => \A x \in M : Append(s, x) \in T
  PROVE  Seq(M) \subseteq T
<1> DEFINE S == {n \in Nat : \A s \in Seq(M) : Len(s) = n => s \in T}
<1>1. 0 \in S
  OBVIOUS
<1>2. ASSUME NEW n \in Nat, n \in S  PROVE n + 1 \in S
  <2> SUFFICES ASSUME NEW s \in Seq(M), Len(s) = n + 1  PROVE s \in T
    OBVIOUS
  <2> DEFINE t == SubSeq(s, 1, n)
             x == s[n + 1]
  <2>1. t \in Seq(M) /\ Len(t) = n /\ x \in M
    OBVIOUS
  <2>2. s = Append(t, x)
    OBVIOUS
  <2>3. t \in T
    BY <1>2, <2>1
  <2> QED
    BY <2>1, <2>2, <2>3
<1> HIDE DEF S
<1>3. Nat \subseteq S
  BY <1>1, <1>2, Induction
<1> QED
  BY <1>3 DEF S

(* The text of messages of words is a sequence of words.                   *)
LEMMA TextInSeq ==
  ASSUME NEW M, NEW W, \A m \in M : OnWire(m) \in Seq(W), NEW ms \in Seq(M)
  PROVE  TextOf(ms) \in Seq(W)
<1> DEFINE T == {s \in Seq(M) : TextOf(s) \in Seq(W)}
<1>1. <<>> \in T
  <2>1. TextOf(<<>>) \in Seq(W) /\ <<>> \in Seq(M)
    <3> HIDE DEF T
    <3>1. <<>> \in Seq(W) /\ <<>> \in Seq(M)
      OBVIOUS
    <3> QED
      BY <3>1, TextEmpty, Zenon
  <2> QED
    BY <2>1
<1>2. ASSUME NEW s \in Seq(M), s \in T, NEW m \in M  PROVE Append(s, m) \in T
  <2>1. TextOf(Append(s, m)) = TextOf(s) \o OnWire(m)
    BY TextAppend
  <2>2. Append(s, m) \in Seq(M)
    OBVIOUS
  <2>3. OnWire(m) \in Seq(W) /\ TextOf(s) \in Seq(W)
    BY <1>2
  <2>4. TextOf(s) \o OnWire(m) \in Seq(W)
    BY <2>3
  <2>5. TextOf(Append(s, m)) \in Seq(W)
    BY <2>1, <2>4, Zenon
  <2> QED
    BY <2>2, <2>5
<1> HIDE DEF T
<1>3. Seq(M) \subseteq T
  BY <1>1, <1>2, SeqInduction
<1> QED
  BY <1>3 DEF T

(* The text of two sequences of messages is the one after the other.       *)
LEMMA TextConcat ==
  ASSUME NEW M, NEW W, \A m \in M : OnWire(m) \in Seq(W),
         NEW ms \in Seq(M), NEW ns \in Seq(M)
  PROVE  TextOf(ms \o ns) = TextOf(ms) \o TextOf(ns)
<1> DEFINE T == {s \in Seq(M) : TextOf(ms \o s) = TextOf(ms) \o TextOf(s)}
<1>1. <<>> \in T
  <2>1. ms \o <<>> = ms
    OBVIOUS
  <2>2. TextOf(ms) \in Seq(W)
    BY TextInSeq
  <2>3. TextOf(ms) \o <<>> = TextOf(ms)
    BY <2>2
  <2>4. TextOf(ms \o <<>>) = TextOf(ms) \o TextOf(<<>>) /\ <<>> \in Seq(M)
    <3> HIDE DEF T
    <3>1. <<>> \in Seq(M)
      OBVIOUS
    <3> QED
      BY <2>1, <2>3, <3>1, TextEmpty, Zenon
  <2> QED
    BY <2>4
<1>2. ASSUME NEW s \in Seq(M), s \in T, NEW m \in M  PROVE Append(s, m) \in T
  <2>1. TextOf(Append(s, m)) = TextOf(s) \o OnWire(m)
    BY TextAppend
  <2>2. ms \o Append(s, m) = Append(ms \o s, m) /\ ms \o s \in Seq(M)
    OBVIOUS
  <2>3. TextOf(Append(ms \o s, m)) = TextOf(ms \o s) \o OnWire(m)
    BY <2>2, TextAppend
  <2>4. OnWire(m) \in Seq(W) /\ TextOf(s) \in Seq(W) /\ TextOf(ms) \in Seq(W)
    BY TextInSeq
  <2>5. (TextOf(ms) \o TextOf(s)) \o OnWire(m) = TextOf(ms) \o (TextOf(s) \o OnWire(m))
    BY <2>4, SMTT(30)
  <2>6. TextOf(ms \o s) = TextOf(ms) \o TextOf(s)
    BY <1>2
  <2>7. TextOf(ms \o Append(s, m)) = TextOf(ms) \o TextOf(Append(s, m))
    BY <2>1, <2>2, <2>3, <2>5, <2>6, Zenon
  <2>8. Append(s, m) \in Seq(M)
    OBVIOUS
  <2> QED
    BY <2>7, <2>8
<1> HIDE DEF T
<1>3. Seq(M) \subseteq T
  BY <1>1, <1>2, SeqInduction
<1> QED
  BY <1>3 DEF T

(* The text of one message.                                                *)
LEMMA TextOne ==
  ASSUME NEW W, NEW m, OnWire(m) \in Seq(W)
  PROVE  TextOf(<<m>>) = OnWire(m)
<1>1. <<m>> = Append(<<>>, m) /\ <<>> \in Seq({m}) /\ m \in {m}
  OBVIOUS
<1>2. TextOf(Append(<<>>, m)) = TextOf(<<>>) \o OnWire(m)
  BY <1>1, TextAppend
<1>3. <<>> \o OnWire(m) = OnWire(m)
  OBVIOUS
<1> QED
  BY <1>1, <1>2, <1>3, TextEmpty, Zenon

(* The text of messages starts with the first of them.                     *)
LEMMA TextHead ==
  ASSUME NEW M, NEW W, \A m \in M : OnWire(m) \in Seq(W),
         NEW ms \in Seq(M), ms # <<>>
  PROVE  /\ Head(ms) \in M /\ Tail(ms) \in Seq(M)
         /\ TextOf(ms) = OnWire(Head(ms)) \o TextOf(Tail(ms))
<1>1. /\ Head(ms) \in M /\ Tail(ms) \in Seq(M) /\ <<Head(ms)>> \in Seq(M)
      /\ ms = <<Head(ms)>> \o Tail(ms)
  OBVIOUS
<1>2. TextOf(<<Head(ms)>> \o Tail(ms)) = TextOf(<<Head(ms)>>) \o TextOf(Tail(ms))
  BY <1>1, TextConcat
<1>3. TextOf(<<Head(ms)>>) = OnWire(Head(ms))
  BY <1>1, TextOne
<1> QED
  BY <1>1, <1>2, <1>3, Zenon

-----------------------------------------------------------------------------
(* The receive buffer *)

(* LineEnd is the first terminator, if there is one.                       *)
LEMMA LineEndIs ==
  ASSUME NEW W, NEW t \in Seq(W), NEW i \in 1..Len(t), t[i] = Terminator,
         \A j \in 1..(i - 1) : t[j] # Terminator
  PROVE  HasLine(t) /\ LineEnd(t) = i
<1> DEFINE P(k) == t[k] = Terminator /\ \A j \in 1..(k - 1) : t[j] # Terminator
<1>1. DOMAIN t = 1..Len(t)
  OBVIOUS
<1>2. \A k \in DOMAIN t : P(k) => k = i
  <2> SUFFICES ASSUME NEW k \in 1..Len(t), P(k), k # i  PROVE FALSE
    BY <1>1
  <2>1. k \in Nat /\ i \in Nat /\ (k < i \/ i < k)
    OBVIOUS
  <2>2. k < i => k \in 1..(i - 1)
    BY <2>1
  <2>3. i < k => i \in 1..(k - 1)
    BY <2>1
  <2> QED
    BY <2>1, <2>2, <2>3
<1>3. i \in DOMAIN t /\ P(i)
  OBVIOUS
<1>4. LineEnd(t) = CHOOSE k \in DOMAIN t : P(k)
  BY DEF LineEnd
<1>5. HasLine(t)
  BY <1>1 DEF HasLine
<1> HIDE DEF P
<1> QED
  BY <1>2, <1>3, <1>4, <1>5

LEMMA LineEndExists ==
  ASSUME NEW W, NEW t \in Seq(W), HasLine(t)
  PROVE  /\ LineEnd(t) \in 1..Len(t) /\ t[LineEnd(t)] = Terminator
         /\ \A j \in 1..(LineEnd(t) - 1) : t[j] # Terminator
<1> DEFINE T == {i \in 1..Len(t) : t[i] = Terminator}
<1>1. T # {} /\ T \subseteq Nat
  BY DEF HasLine
<1> HIDE DEF T
<1>2. PICK m \in T : \A k \in T : m <= k
  BY <1>1, Least
<1>3. m \in 1..Len(t) /\ t[m] = Terminator
  BY DEF T
<1>4. \A j \in 1..(m - 1) : t[j] # Terminator
  <2> SUFFICES ASSUME NEW j \in 1..(m - 1), t[j] = Terminator  PROVE FALSE
    OBVIOUS
  <2>1. j \in 1..Len(t) /\ ~(m <= j)
    BY <1>3
  <2> QED
    BY <1>2, <2>1 DEF T
<1>5. LineEnd(t) = m
  BY <1>3, <1>4, LineEndIs
<1> QED
  BY <1>3, <1>4, <1>5

(* A line is cut at its terminator, whatever comes after it.               *)
LEMMA LineOf ==
  ASSUME NEW W, NEW line \in Seq(W), NEW rest \in Seq(W), Terminator \in W,
         \A i \in 1..Len(line) : line[i] # Terminator
  PROVE  LET t == line \o <<Terminator>> \o rest
         IN  HasLine(t) /\ FirstLine(t) = line /\ AfterLine(t) = rest
<1> DEFINE t == line \o <<Terminator>> \o rest
           n == Len(line)
<1>1. /\ t \in Seq(W) /\ n \in Nat /\ Len(t) = n + 1 + Len(rest) /\ t[n + 1] = Terminator
      /\ \A i \in 1..n : t[i] = line[i]
      /\ \A i \in 1..Len(rest) : t[n + 1 + i] = rest[i]
  OBVIOUS
<1> HIDE DEF t
<1>2. n + 1 \in 1..Len(t) /\ (n + 1) - 1 = n
  BY <1>1
<1>3. HasLine(t) /\ LineEnd(t) = n + 1
  BY <1>1, <1>2, LineEndIs, ZenonT(30)
<1>4. FirstLine(t) = SubSeq(t, 1, n) /\ AfterLine(t) = SubSeq(t, n + 2, Len(t))
  BY <1>1, <1>3 DEF FirstLine, AfterLine
<1>5. SubSeq(t, 1, n) = line
  BY <1>1
<1>6. SubSeq(t, n + 2, Len(t)) = rest
  BY <1>1
<1> QED
  BY <1>3, <1>4, <1>5, <1>6 DEF t

(* What is cut from the front of a text is not of what comes after it.     *)
LEMMA DropConcat ==
  ASSUME NEW W, NEW t \in Seq(W), NEW u \in Seq(W), NEW i \in 0..Len(t)
  PROVE  SubSeq(t \o u, i + 1, Len(t \o u)) = SubSeq(t, i + 1, Len(t)) \o u
<1> DEFINE a == SubSeq(t, 1, i)
           b == SubSeq(t, i + 1, Len(t))
           c == b \o u
<1>1. a \in Seq(W) /\ Len(a) = i /\ b \in Seq(W)
  OBVIOUS
<1>2. t = a \o b
  <2>1. 1 \in 1..(Len(t) + 1) /\ i \in (1 - 1)..Len(t) /\ Len(t) \in i..Len(t)
    OBVIOUS
  <2>2. a \o b = SubSeq(t, 1, Len(t))
    BY <2>1, ConcatAdjacentSubSeq
  <2>3. SubSeq(t, 1, Len(t)) = t
    BY SubSeqFull
  <2> QED
    BY <2>2, <2>3
<1>3. c \in Seq(W) /\ t \o u = a \o c
  <2> HIDE DEF a, b
  <2> QED
    BY <1>1, <1>2, ConcatAssociative, ConcatProperties
<1> HIDE DEF a, b, c
<1>4. SubSeq(a \o c, Len(a) + 1, Len(a \o c)) = c
  <2>1. /\ a \o c \in Seq(W) /\ Len(a \o c) = Len(a) + Len(c)
        /\ Len(a) \in Nat /\ Len(c) \in Nat
    <3>1. a \in Seq(W) /\ c \in Seq(W)
      BY <1>1, <1>3
    <3> QED
      BY <3>1, ConcatProperties, LenProperties
  <2>2. CASE Len(c) = 0
    <3>1. c = <<>>
      BY <1>3, <2>2, EmptySeq
    <3>2. SubSeq(a \o c, Len(a) + 1, Len(a \o c)) = <<>>
      BY <2>1, <2>2, SubSeqEmpty
    <3> QED
      BY <3>1, <3>2
  <2>3. CASE Len(c) # 0
    <3>1. /\ Len(a) + 1 \in (Len(a) + 1)..(Len(a) + Len(c))
          /\ Len(a) + Len(c) \in (Len(a) + 1)..(Len(a) + Len(c))
          /\ (Len(a) + 1) - Len(a) = 1 /\ (Len(a) + Len(c)) - Len(a) = Len(c)
      BY <2>1, <2>3
    <3>2. SubSeq(a \o c, Len(a) + 1, Len(a) + Len(c)) = SubSeq(c, 1, Len(c))
      BY <1>1, <1>3, <3>1, SubSeqOfConcat2, SMTT(30)
    <3>3. SubSeq(c, 1, Len(c)) = c
      BY <1>3, SubSeqFull
    <3> QED
      BY <2>1, <3>2, <3>3
  <2> QED
    BY <2>2, <2>3
<1> QED
  BY <1>1, <1>3, <1>4 DEF b, c

(* The first line is the first line when more arrives.                     *)
LEMMA LineStays ==
  ASSUME NEW W, NEW t \in Seq(W), NEW u \in Seq(W), HasLine(t)
  PROVE  /\ HasLine(t \o u) /\ FirstLine(t \o u) = FirstLine(t)
         /\ AfterLine(t \o u) = AfterLine(t) \o u /\ AfterLine(t) \in Seq(W)
<1> DEFINE i == LineEnd(t)
           v == t \o u
<1>1. /\ i \in 1..Len(t) /\ t[i] = Terminator /\ \A j \in 1..(i - 1) : t[j] # Terminator
  BY LineEndExists
<1> HIDE DEF i
<1>2. /\ v \in Seq(W) /\ Len(v) = Len(t) + Len(u) /\ \A j \in 1..Len(t) : v[j] = t[j]
      /\ i \in 1..Len(v) /\ v[i] = Terminator /\ \A j \in 1..(i - 1) : v[j] # Terminator
  BY <1>1
<1>3. HasLine(v) /\ LineEnd(v) = i
  <2> HIDE DEF v
  <2> QED
    BY <1>2, LineEndIs
<1>4. SubSeq(v, 1, i - 1) = SubSeq(t, 1, i - 1)
  BY <1>1
<1>5. SubSeq(v, i + 1, Len(v)) = SubSeq(t, i + 1, Len(t)) \o u
  <2>1. i \in 0..Len(t)
    BY <1>1
  <2> QED
    BY <2>1, DropConcat
<1>6. SubSeq(t, i + 1, Len(t)) \in Seq(W)
  BY <1>1
<1> QED
  BY <1>3, <1>4, <1>5, <1>6 DEF FirstLine, AfterLine, i

-----------------------------------------------------------------------------
(* The parser *)

IsTokens(f, line, n) ==
  f = [i \in 0..n |-> IF i = 0 THEN <<>>
                      ELSE IF line[i] = Blank THEN f[i - 1] ELSE Append(f[i - 1], line[i])]

(* The recursive function of Tokens exists, and is determined by the line. *)
LEMMA TokensExist ==
  ASSUME NEW line, NEW n \in Nat
  PROVE  \E f : IsTokens(f, line, n)
<1> DEFINE S == {k \in Nat : \E f : IsTokens(f, line, k)}
<1>1. 0 \in S
  <2> DEFINE f == [i \in 0..0 |-> <<>>]
  <2>1. IsTokens(f, line, 0)
    BY DEF IsTokens
  <2> QED
    BY <2>1
<1>2. ASSUME NEW k \in Nat, k \in S  PROVE k + 1 \in S
  <2>1. PICK f : IsTokens(f, line, k)
    BY <1>2
  <2> DEFINE w == line[k + 1]
             last == IF w = Blank THEN f[k] ELSE Append(f[k], w)
             g == [i \in 0..(k + 1) |-> IF i = k + 1 THEN last ELSE f[i]]
  <2>2. ASSUME NEW i \in 0..(k + 1)
        PROVE  g[i] = IF i = 0 THEN <<>>
                      ELSE IF line[i] = Blank THEN g[i - 1] ELSE Append(g[i - 1], line[i])
    <3>1. CASE i = k + 1
      <4>1. i - 1 = k /\ i # 0 /\ k \in 0..(k + 1) /\ k # k + 1
        BY <3>1
      <4>2. g[i] = last /\ g[k] = f[k]
        BY <3>1, <4>1
      <4> QED
        BY <3>1, <4>1, <4>2
    <3>2. CASE i # k + 1
      <4>1. i \in 0..k /\ g[i] = f[i]
        BY <3>2
      <4>2. i # 0 => g[i - 1] = f[i - 1]
        <5> HIDE DEF last
        <5> QED
          BY <4>1
      <4>3. f[i] = IF i = 0 THEN <<>>
                   ELSE IF line[i] = Blank THEN f[i - 1] ELSE Append(f[i - 1], line[i])
        BY <2>1, <4>1, Zenon DEF IsTokens
      <4> QED
        BY <4>1, <4>2, <4>3
    <3> QED
      BY <3>1, <3>2
  <2>3. IsTokens(g, line, k + 1)
    BY <2>2 DEF IsTokens
  <2> HIDE DEF g
  <2>4. \E h : IsTokens(h, line, k + 1)
    BY <2>3
  <2> QED
    BY <2>4
<1> HIDE DEF S
<1>3. Nat \subseteq S
  BY <1>1, <1>2, Induction
<1> QED
  BY <1>3 DEF S

LEMMA TokensUnique ==
  ASSUME NEW f, NEW s, NEW n \in Nat, IsTokens(f, s, n),
         NEW g, NEW t, NEW k \in Nat, IsTokens(g, t, k),
         n <= k, \A i \in 1..n : s[i] = t[i]
  PROVE  f[n] = g[n]
<1> DEFINE S == {i \in Nat : i <= n => f[i] = g[i]}
<1>1. 0 \in S
  <2>1. 0 \in 0..n /\ 0 \in 0..k
    OBVIOUS
  <2>2. f[0] = <<>> /\ g[0] = <<>>
    BY <2>1, Zenon DEF IsTokens
  <2> QED
    BY <2>2
<1>2. ASSUME NEW i \in Nat, i \in S  PROVE i + 1 \in S
  <2> SUFFICES ASSUME i + 1 <= n  PROVE f[i + 1] = g[i + 1]
    OBVIOUS
  <2>1. i + 1 \in 0..n /\ i + 1 \in 0..k /\ i + 1 # 0 /\ (i + 1) - 1 = i /\ i + 1 \in 1..n
    OBVIOUS
  <2>2. f[i + 1] = IF s[i + 1] = Blank THEN f[i] ELSE Append(f[i], s[i + 1])
    BY <2>1, Zenon DEF IsTokens
  <2>3. g[i + 1] = IF t[i + 1] = Blank THEN g[i] ELSE Append(g[i], t[i + 1])
    BY <2>1, Zenon DEF IsTokens
  <2>4. f[i] = g[i]
    BY <1>2
  <2>5. s[i + 1] = t[i + 1]
    BY <2>1
  <2> QED
    BY <2>2, <2>3, <2>4, <2>5
<1> HIDE DEF S
<1>3. Nat \subseteq S
  BY <1>1, <1>2, Induction
<1> QED
  BY <1>3 DEF S

(* Tokens is its last value.                                               *)
LEMMA TokensAre ==
  ASSUME NEW line, Len(line) \in Nat
  PROVE  \E f : IsTokens(f, line, Len(line)) /\ Tokens(line) = f[Len(line)]
<1> DEFINE tokens == CHOOSE f : IsTokens(f, line, Len(line))
<1>1. \E f : IsTokens(f, line, Len(line))
  BY TokensExist
<1>2. IsTokens(tokens, line, Len(line))
  BY <1>1
<1>3. Tokens(line) = tokens[Len(line)]
  BY DEF Tokens, IsTokens
<1> QED
  BY <1>2, <1>3

(* Tokens, word by word.                                                   *)
LEMMA TokensEmpty == Tokens(<<>>) = <<>>
<1>1. Len(<<>>) = 0
  OBVIOUS
<1>2. PICK f : IsTokens(f, <<>>, 0) /\ Tokens(<<>>) = f[0]
  BY <1>1, TokensAre
<1>3. 0 \in 0..0
  OBVIOUS
<1> QED
  BY <1>2, <1>3, Zenon DEF IsTokens

LEMMA TokensAppend ==
  ASSUME NEW W, NEW line \in Seq(W), NEW w \in W
  PROVE  Tokens(Append(line, w)) = IF w = Blank THEN Tokens(line) ELSE Append(Tokens(line), w)
<1> DEFINE n == Len(line)
           more == Append(line, w)
<1>1. n \in Nat /\ Len(more) = n + 1 /\ more[n + 1] = w /\ \A i \in 1..n : line[i] = more[i]
  OBVIOUS
<1> HIDE DEF more
<1>2. PICK f : IsTokens(f, line, n) /\ Tokens(line) = f[n]
  BY <1>1, TokensAre
<1>3. PICK g : IsTokens(g, more, n + 1) /\ Tokens(more) = g[n + 1]
  BY <1>1, TokensAre
<1>4. f[n] = g[n]
  <2>1. n + 1 \in Nat /\ n <= n + 1
    BY <1>1
  <2> QED
    BY <1>1, <1>2, <1>3, <2>1, TokensUnique
<1>5. g[n + 1] = IF more[n + 1] = Blank THEN g[n] ELSE Append(g[n], more[n + 1])
  <2>1. n + 1 \in 0..(n + 1) /\ n + 1 # 0 /\ (n + 1) - 1 = n
    BY <1>1
  <2>2. g[n + 1] = IF more[n + 1] = Blank THEN g[(n + 1) - 1]
                   ELSE Append(g[(n + 1) - 1], more[n + 1])
    BY <1>3, <2>1, Zenon DEF IsTokens
  <2> QED
    BY <2>1, <2>2
<1> QED
  BY <1>1, <1>2, <1>3, <1>4, <1>5 DEF more

(* A line without an empty word is its own tokens.                         *)
LEMMA TokensFull ==
  ASSUME NEW W, Blank \notin W, NEW line \in Seq(W)
  PROVE  Tokens(line) = line
<1> DEFINE T == {s \in Seq(W) : Tokens(s) = s}
<1>1. <<>> \in T
  <2>1. <<>> \in Seq(W) /\ Tokens(<<>>) = <<>>
    BY TokensEmpty, EmptySeq
  <2> QED
    BY <2>1
<1>2. ASSUME NEW s \in Seq(W), s \in T, NEW x \in W  PROVE Append(s, x) \in T
  <2>1. Tokens(Append(s, x)) = IF x = Blank THEN Tokens(s) ELSE Append(Tokens(s), x)
    BY TokensAppend
  <2>2. Tokens(s) = s /\ x # Blank
    BY <1>2
  <2>3. Append(s, x) \in Seq(W)
    BY AppendProperties
  <2>4. Tokens(Append(s, x)) = Append(s, x)
    BY <2>1, <2>2
  <2> QED
    BY <2>3, <2>4
<1> HIDE DEF T
<1>3. Seq(W) \subseteq T
  BY <1>1, <1>2, SeqInduction
<1> QED
  BY <1>3 DEF T

-----------------------------------------------------------------------------
(* From messages to text and back *)

(* A message of words from W: none of them is the terminator.              *)
Wordy(m, W) == /\ Terminator \notin W /\ m.type \in W /\ m.fields \in Seq(W)

(* What is written for a message.                                          *)
LEMMA OnWireInSeq ==
  ASSUME NEW W, NEW m, Wordy(m, W)
  PROVE  OnWire(m) \in Seq(W \cup {Terminator})
<1> DEFINE V == W \cup {Terminator}
<1>1. m.type \in V /\ m.fields \in Seq(V)
  BY SeqMonotonic DEF Wordy
<1>2. <<m.type>> \in Seq(V) /\ <<Terminator>> \in Seq(V)
  BY <1>1
<1> HIDE DEF V
<1>3. <<m.type>> \o m.fields \in Seq(V)
  BY <1>1, <1>2, ConcatProperties
<1>4. <<m.type>> \o m.fields \o <<Terminator>> \in Seq(V)
  BY <1>2, <1>3, ConcatProperties
<1> QED
  BY <1>4 DEF OnWire, V

Line(m) == <<m.type>> \o m.fields
Reads(buffer, rest, ms) == buffer \o rest = TextOf(ms)

(* FirstIsRead, with its equations as predicates.                          *)
LEMMA FirstIsTaken ==
  ASSUME NEW W, NEW M, \A m \in M : Wordy(m, W), NEW ms \in Seq(M),
         NEW buffer \in Seq(W \cup {Terminator}), NEW rest \in Seq(W \cup {Terminator}),
         Reads(buffer, rest, ms), HasLine(buffer)
  PROVE  /\ ms # <<>> /\ Head(ms) \in M /\ Tail(ms) \in Seq(M)
         /\ FirstLine(buffer) = Line(Head(ms))
         /\ AfterLine(buffer) \in Seq(W \cup {Terminator})
         /\ Reads(AfterLine(buffer), rest, Tail(ms))
<1> DEFINE V == W \cup {Terminator}
           t == buffer \o rest
<1>0. t = TextOf(ms)
  BY DEF Reads
<1>1. \A m \in M : OnWire(m) \in Seq(V)
  BY OnWireInSeq
<1>2. buffer \in Seq(V) /\ rest \in Seq(V) /\ Terminator \in V
  OBVIOUS
<1>3. W \subseteq V
  OBVIOUS
<1> HIDE DEF V
<1>4. /\ HasLine(t) /\ FirstLine(t) = FirstLine(buffer)
      /\ AfterLine(t) = AfterLine(buffer) \o rest /\ AfterLine(buffer) \in Seq(V)
  BY <1>2, LineStays
<1>5. ms # <<>>
  <2> SUFFICES ASSUME ms = <<>>  PROVE FALSE
    OBVIOUS
  <2>1. t = <<>>
    BY <1>0, TextEmpty
  <2> HIDE DEF t
  <2>2. ~HasLine(<<>>)
    BY DEF HasLine
  <2> QED
    BY <1>4, <2>1, <2>2
<1> DEFINE m == Head(ms)
           line == <<m.type>> \o m.fields
           more == TextOf(Tail(ms))
<1>6. m \in M /\ Tail(ms) \in Seq(M) /\ TextOf(ms) = OnWire(m) \o more
  BY <1>1, <1>5, TextHead
<1>7. more \in Seq(V)
  BY <1>1, <1>6, TextInSeq
<1>8. Wordy(m, W)
  BY <1>6
<1> HIDE DEF m, more
<1>9. <<m.type>> \in Seq(W) /\ m.fields \in Seq(W) /\ Terminator \notin W
  BY <1>8 DEF Wordy
<1>10. line \in Seq(W)
  BY <1>9, ConcatProperties
<1> HIDE DEF line
<1>11. line \in Seq(V) /\ \A i \in 1..Len(line) : line[i] # Terminator
  BY <1>3, <1>9, <1>10, SeqMonotonic, ElementOfSeq
<1>12. t = line \o <<Terminator>> \o more
  BY <1>0, <1>6 DEF line, OnWire
<1> HIDE DEF t
<1>13. FirstLine(t) = line /\ AfterLine(t) = more
  BY <1>2, <1>7, <1>11, <1>12, LineOf
<1> QED
  BY <1>4, <1>5, <1>6, <1>13 DEF line, m, more, V, Line, Reads

(* What the buffer has of messages on their way, if it has a line, starts  *)
(* with the whole first message; after it comes what is left of the text.  *)
THEOREM FirstIsRead ==
  ASSUME NEW W, NEW M, \A m \in M : Wordy(m, W), NEW ms \in Seq(M),
         NEW buffer \in Seq(W \cup {Terminator}), NEW rest \in Seq(W \cup {Terminator}),
         buffer \o rest = TextOf(ms), HasLine(buffer)
  PROVE  /\ ms # <<>> /\ Head(ms) \in M /\ Tail(ms) \in Seq(M)
         /\ FirstLine(buffer) = <<Head(ms).type>> \o Head(ms).fields
         /\ AfterLine(buffer) \in Seq(W \cup {Terminator})
         /\ AfterLine(buffer) \o rest = TextOf(Tail(ms))
<1>1. Reads(buffer, rest, ms)
  BY DEF Reads
<1>2. /\ ms # <<>> /\ Head(ms) \in M /\ Tail(ms) \in Seq(M)
      /\ FirstLine(buffer) = Line(Head(ms))
      /\ AfterLine(buffer) \in Seq(W \cup {Terminator})
      /\ Reads(AfterLine(buffer), rest, Tail(ms))
  BY <1>1, FirstIsTaken
<1> QED
  BY <1>2 DEF Reads, Line

(* A text of messages ends with the last word of a message.                *)
LEMMA TextEnds ==
  ASSUME NEW W, NEW M, \A m \in M : Wordy(m, W), NEW ms \in Seq(M), TextOf(ms) # <<>>
  PROVE  TextOf(ms)[Len(TextOf(ms))] = Terminator
<1> DEFINE V == W \cup {Terminator}
<1>1. \A m \in M : OnWire(m) \in Seq(V)
  BY OnWireInSeq
<1>2. ms # <<>>
  BY TextEmpty
<1>3. PICK s \in Seq(M), m \in M : ms = Append(s, m)
  BY <1>2, SequenceEmptyOrAppend
<1>4. TextOf(ms) = TextOf(s) \o OnWire(m)
  BY <1>3, TextAppend
<1>5. TextOf(s) \in Seq(V)
  BY <1>1, TextInSeq
<1> DEFINE line == <<m.type>> \o m.fields
           t == TextOf(s)
<1>6. line \in Seq(V) /\ <<Terminator>> \in Seq(V)
  <2>1. Wordy(m, W)
    OBVIOUS
  <2>2. m.type \in V /\ m.fields \in Seq(V)
    BY <2>1, SeqMonotonic DEF Wordy
  <2>3. <<m.type>> \in Seq(V) /\ <<Terminator>> \in Seq(V)
    BY <2>2
  <2> HIDE DEF V
  <2> QED
    BY <2>2, <2>3, ConcatProperties
<1>7. OnWire(m) = line \o <<Terminator>>
  BY DEF OnWire
<1> HIDE DEF line, t, V
<1>8. (t \o (line \o <<Terminator>>))[Len(t \o (line \o <<Terminator>>))] = Terminator
  <2>1. /\ line \o <<Terminator>> \in Seq(V) /\ Len(line \o <<Terminator>>) = Len(line) + 1
        /\ (line \o <<Terminator>>)[Len(line) + 1] = Terminator /\ Len(line) \in Nat
    BY <1>6
  <2> DEFINE u == line \o <<Terminator>>
  <2> HIDE DEF u
  <2>2. /\ t \in Seq(V) /\ u \in Seq(V) /\ Len(u) \in Nat /\ Len(u) > 0 /\ u[Len(u)] = Terminator
    BY <1>5, <2>1 DEF t, u
  <2>3. (t \o u)[Len(t \o u)] = Terminator
    BY <2>2
  <2> QED
    BY <2>3 DEF u
<1> QED
  BY <1>4, <1>7, <1>8 DEF t

(* One word in front of a line.                                            *)
LEMMA Prepend ==
  ASSUME NEW W, NEW x \in W, NEW s \in Seq(W)
  PROVE  /\ <<x>> \o s \in Seq(W) /\ Len(<<x>> \o s) = Len(s) + 1
         /\ <<x>> \o s # <<>> /\ (<<x>> \o s)[1] = x
         /\ SubSeq(<<x>> \o s, 2, Len(<<x>> \o s)) = s
<1> DEFINE head == <<x>>
<1>0. head \in Seq(W) /\ Len(head) = 1 /\ head[1] = x /\ Len(s) \in Nat
  OBVIOUS
<1> HIDE DEF head
<1>1. 1 \in 1..(Len(head) + Len(s)) /\ 1 <= Len(head)
  BY <1>0
<1>2. /\ head \o s \in Seq(W) /\ Len(head \o s) = 1 + Len(s)
      /\ (head \o s)[1] = head[1]
  BY <1>0, <1>1, ConcatProperties
<1>3. head \o s # <<>>
  BY <1>0, <1>2, EmptySeq
<1>4. 1 \in 0..Len(head) /\ 1 + 1 = 2
  BY <1>0
<1>5. SubSeq(head \o s, 2, Len(head \o s)) = SubSeq(head, 2, Len(head)) \o s
  BY <1>0, <1>4, DropConcat
<1>6. SubSeq(head, 2, Len(head)) = <<>>
  BY <1>0, SubSeqEmpty
<1>7. <<>> \o s = s
  BY ConcatEmptySeq
<1> QED
  BY <1>0, <1>2, <1>3, <1>5, <1>6, <1>7 DEF head

(* A message with as many fields as its keyword has, none of them empty,   *)
(* is read as it was written (net_client.cpp:165, message.cpp:128).        *)
THEOREM ReadAsWritten ==
  ASSUME NEW W, Blank \notin W, NEW type \in W, NEW fields \in Seq(W),
         type \in Keywords, Len(fields) + 1 = MinTokens[type]
  PROVE  ParseMessage(Tokens(<<type>> \o fields)) = [type |-> type, fields |-> fields]
<1> DEFINE line == <<type>> \o fields
<1>1. /\ line \in Seq(W) /\ Len(line) = Len(fields) + 1 /\ line # <<>> /\ line[1] = type
      /\ SubSeq(line, 2, Len(line)) = fields
  BY Prepend, ZenonT(30)
<1> HIDE DEF line
<1>2. Tokens(line) = line
  BY <1>1, TokensFull
<1>3. Len(line) = MinTokens[line[1]] /\ line[1] \in Keywords
  BY <1>1
<1>4. Len(line) \in Nat
  BY <1>1, LenProperties
<1>5. Len(line) >= MinTokens[line[1]]
  <2>1. \A n \in Nat : n >= n
    OBVIOUS
  <2> QED
    BY <1>3, <1>4, <2>1, Zenon
<1> QED
  BY <1>1, <1>2, <1>3, <1>5, Zenon DEF ParseMessage, line
=============================================================================
