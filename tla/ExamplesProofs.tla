--------------------------- MODULE ExamplesProofs ---------------------------
(***************************************************************************)
(* Proofs about the example programs, for any pair of a server and a       *)
(* client, any number of datagram clients and duplicates, and any faults.  *)
(*                                                                         *)
(* A line can be in many places at once, in parts, and a datagram in one   *)
(* of four.  What is inductive is about all the places together:           *)
(*  - over streams, what the server has taken, what is on the wire, what   *)
(*    has been lost and what the client has not written yet is, in this    *)
(*    order, all that the client has to say; and the way back likewise;    *)
(*  - over datagrams, what is on the network, in the server's queue, in    *)
(*    the server or in the client's queue has been asked, and there is one *)
(*    such datagram at most for a client if nothing comes twice.           *)
(***************************************************************************)
EXTENDS Examples, SequenceTheorems, TLAPS

-----------------------------------------------------------------------------
(* Texts, and the states of the programs.                                  *)

Texts == Seq(Symbols)

ServerPcs == {"create", "accept", "loop", "echo", "read", "more", "write", "cancel",
              "close", "error", "spin"} \cup Ended
ClientPcs == {"key", "connect", "test", "echo", "quit", "loop", "read", "more",
              "write", "cancel", "close", "error", "spin"} \cup Ended

ServerStates == [name : {"streams", "test_ss"}, pc : ServerPcs,
                 conn : {"none", "listening", "open", "closed"},
                 str : Texts, out : Texts, doQuit : BOOLEAN]
ClientStates == [name : {"streamc", "test_sc"}, silent : BOOLEAN, pc : ClientPcs,
                 conn : {"none", "open", "closed"},
                 key : KeyFiles, out : Texts, udata : 0..2]

StreamTypes ==
  /\ faults \subseteq StreamFaults \cup DatagramFaults
  /\ keyfile \in KeyFiles
  /\ keylen \in {516, 616} /\ cut \in BOOLEAN
  /\ server \in ServerStates /\ client \in ClientStates
  /\ toServer \in Texts /\ toClient \in Texts /\ echoed \in Texts /\ heard \in Texts

\* One text behind the other; the provers need not see that it is \o.
s ++ t == s \o t

\* A text and its first symbol.
LEMMA TextFacts ==
  ASSUME NEW s \in Texts
  PROVE  /\ \A x \in Symbols : /\ Append(s, x) \in Texts /\ <<x>> \in Texts
                               /\ Append(s, x) = s ++ <<x>>
         /\ s # <<>> => /\ Head(s) \in Symbols /\ <<Head(s)>> \in Texts /\ Tail(s) \in Texts
                        /\ <<Head(s)>> ++ Tail(s) = s
         /\ s ++ <<>> = s /\ <<>> ++ s = s
         /\ Len(s) \in Nat /\ (s = <<>> <=> Len(s) = 0)
<1>1. s \in Seq(Symbols) BY DEF Texts
<1>3. \A x \in Symbols : Append(s, x) \in Texts /\ <<x>> \in Texts BY <1>1 DEF Texts
<1>4. \A x \in Symbols : Append(s, x) = s ++ <<x>> BY <1>1 DEF ++
<1>6. s # <<>> => Head(s) \in Symbols /\ <<Head(s)>> \in Texts /\ Tail(s) \in Texts
  BY <1>1 DEF Texts
<1>7. s # <<>> => <<Head(s)>> ++ Tail(s) = s BY <1>1 DEF ++
<1>8. s ++ <<>> = s /\ <<>> ++ s = s BY <1>1 DEF ++
<1>9. Len(s) \in Nat /\ (s = <<>> <=> Len(s) = 0) BY <1>1
<1> QED BY <1>3, <1>4, <1>6, <1>7, <1>8, <1>9

\* There is a text with nothing in it.
LEMMA EmptyText == <<>> \in Texts
BY DEF Texts

\* What one text behind another is, place by place.
LEMMA Joins ==
  ASSUME NEW s \in Texts, NEW t \in Texts
  PROVE  /\ s ++ t \in Texts
         /\ Len(s) \in Nat /\ Len(t) \in Nat /\ Len(s ++ t) = Len(s) + Len(t)
         /\ \A i \in 1..Len(s) + Len(t) :
              (s ++ t)[i] = IF i <= Len(s) THEN s[i] ELSE t[i - Len(s)]
<1>1. s \in Seq(Symbols) /\ t \in Seq(Symbols)
  BY DEF Texts
<1>2. Len(s) \in Nat /\ Len(t) \in Nat
  BY <1>1, LenProperties
<1> QED BY <1>1, <1>2, ConcatProperties DEF Texts, ++

\* It does not matter which two are joined first.
LEMMA Assoc ==
  ASSUME NEW s \in Texts, NEW t \in Texts, NEW u \in Texts
  PROVE  (s ++ t) ++ u = s ++ (t ++ u)
<1>1. s \in Seq(Symbols) /\ t \in Seq(Symbols) /\ u \in Seq(Symbols)
  BY DEF Texts
<1> QED BY <1>1 DEF ++

\* Texts with the same symbols are the same.
LEMMA SameText ==
  ASSUME NEW s \in Texts, NEW t \in Texts, Len(s) = Len(t),
         \A i \in 1..Len(s) : s[i] = t[i]
  PROVE  s = t
BY SeqEqual DEF Texts

\* A sequence is what comes before a place and what comes behind it.
LEMMA CutAndJoin ==
  ASSUME NEW S, NEW s \in Seq(S), NEW k \in 0..Len(s)
  PROVE  /\ SubSeq(s, 1, k) \in Seq(S) /\ Len(SubSeq(s, 1, k)) = k
         /\ SubSeq(s, k + 1, Len(s)) \in Seq(S)
         /\ Len(SubSeq(s, k + 1, Len(s))) = Len(s) - k
         /\ SubSeq(s, 1, k) \o SubSeq(s, k + 1, Len(s)) = s
<1> DEFINE a == SubSeq(s, 1, k)
           b == SubSeq(s, k + 1, Len(s))
<1>1. Len(s) \in Nat /\ k \in Int /\ k <= Len(s) /\ 0 <= k
  BY LenProperties
<1>2. \A i \in 1..Len(s) : s[i] \in S
  BY ElementOfSeq
<1>3. a \in Seq(S) /\ Len(a) = k /\ \A i \in 1..k : a[i] = s[i]
  <2>1. \A i \in 1..k : s[i] \in S
    BY <1>1, <1>2
  <2>2. /\ SubSeq(s, 1, k) \in Seq(S)
        /\ Len(SubSeq(s, 1, k)) = IF 1 <= k THEN k - 1 + 1 ELSE 0
        /\ \A i \in 1..(k - 1 + 1) : SubSeq(s, 1, k)[i] = s[1 + i - 1]
    BY <1>1, <2>1, SubSeqProperties
  <2> QED BY <1>1, <2>2
<1>4. b \in Seq(S) /\ Len(b) = Len(s) - k /\ \A i \in 1..Len(b) : b[i] = s[k + i]
  <2>1. \A i \in (k + 1)..Len(s) : s[i] \in S
    BY <1>1, <1>2
  <2>2. /\ SubSeq(s, k + 1, Len(s)) \in Seq(S)
        /\ Len(SubSeq(s, k + 1, Len(s)))
             = IF k + 1 <= Len(s) THEN Len(s) - (k + 1) + 1 ELSE 0
        /\ \A i \in 1..(Len(s) - (k + 1) + 1) :
             SubSeq(s, k + 1, Len(s))[i] = s[(k + 1) + i - 1]
    BY <1>1, <2>1, SubSeqProperties
  <2> QED BY <1>1, <2>2
<1> HIDE DEF a, b
<1>5. /\ a \o b \in Seq(S) /\ Len(a \o b) = Len(s)
      /\ \A i \in 1..Len(s) : (a \o b)[i] = IF i <= k THEN a[i] ELSE b[i - k]
  BY <1>1, <1>3, <1>4, ConcatProperties
<1>6. ASSUME NEW i \in 1..Len(s) PROVE (a \o b)[i] = s[i]
  <2>1. CASE i <= k
    BY <1>1, <1>3, <1>5, <2>1
  <2>2. CASE ~(i <= k)
    <3>1. i - k \in 1..Len(b) /\ k + (i - k) = i
      BY <1>1, <1>4, <2>2
    <3> QED BY <1>4, <1>5, <2>2, <3>1
  <2> QED BY <2>1, <2>2
<1>7. a \o b = s
  BY <1>5, <1>6, SeqEqual
<1> QED BY <1>3, <1>4, <1>7 DEF a, b

\* The same of a text of which a part is written (ssWrite, scWrite).
LEMMA CutTexts ==
  ASSUME NEW s \in Texts, NEW n \in 1..Len(s)
  PROVE  /\ SubSeq(s, 1, n) \in Texts /\ SubSeq(s, n + 1, Len(s)) \in Texts
         /\ SubSeq(s, 1, n) ++ SubSeq(s, n + 1, Len(s)) = s
         /\ n = Len(s) <=> SubSeq(s, n + 1, Len(s)) = <<>>
<1> DEFINE r == SubSeq(s, n + 1, Len(s))
<1>1. s \in Seq(Symbols) /\ Len(s) \in Nat /\ n \in 0..Len(s)
  BY DEF Texts
<1>2. SubSeq(s, 1, n) \in Texts /\ r \in Texts /\ SubSeq(s, 1, n) ++ r = s /\ Len(r) = Len(s) - n
  BY <1>1, CutAndJoin DEF Texts, ++
<1> HIDE DEF r
<1>3. r = <<>> <=> Len(r) = 0
  BY <1>2, TextFacts
<1>4. n = Len(s) <=> Len(r) = 0
  BY <1>1, <1>2
<1> QED BY <1>2, <1>3, <1>4 DEF r

\* The same of a text of which a line is read (streamsReceive).
LEMMA TwoHeads ==
  ASSUME NEW w \in Texts, Len(w) >= 2
  PROVE  /\ Tail(Tail(w)) \in Texts /\ w = <<w[1], w[2]>> ++ Tail(Tail(w)) /\ Head(w) = w[1]
<1> DEFINE v == Tail(w)
           r == Tail(v)
<1>1. w \in Seq(Symbols) /\ w # <<>> /\ Len(w) \in Nat
  BY DEF Texts
<1>2. /\ v \in Seq(Symbols) /\ Len(v) = Len(w) - 1 /\ Head(w) = w[1]
      /\ \A i \in 1..Len(v) : v[i] = w[i + 1]
  BY <1>1, HeadTailProperties
<1>3. v # <<>>
  <2>1. v = <<>> <=> Len(v) = 0
    BY <1>2, TextFacts DEF Texts
  <2> QED BY <1>1, <1>2, <2>1
<1> HIDE DEF v
<1>4. /\ r \in Seq(Symbols) /\ Len(r) = Len(v) - 1
      /\ \A i \in 1..Len(r) : r[i] = v[i + 1]
  BY <1>2, <1>3, HeadTailProperties
<1> HIDE DEF r
<1>5. r \in Texts /\ Len(r) = Len(w) - 2 /\ \A i \in 1..Len(r) : r[i] = w[i + 2]
  <2>1. ASSUME NEW i \in 1..Len(r) PROVE r[i] = w[i + 2]
    <3>1. i + 1 \in 1..Len(v) /\ (i + 1) + 1 = i + 2
      BY <1>1, <1>2, <1>4
    <3> QED BY <3>1, <1>2, <1>4
  <2> QED BY <1>1, <1>2, <1>4, <2>1 DEF Texts
<1> DEFINE h == <<w[1], w[2]>>
<1>6. h \in Texts /\ Len(h) = 2 /\ h[1] = w[1] /\ h[2] = w[2]
  <2>1. w[1] \in Symbols /\ w[2] \in Symbols
    BY <1>1, ElementOfSeq
  <2> QED BY <2>1 DEF Texts
<1> HIDE DEF h
<1>j. /\ h ++ r \in Texts /\ Len(h ++ r) = Len(h) + Len(r)
      /\ \A i \in 1..Len(h) + Len(r) : (h ++ r)[i] = IF i <= Len(h) THEN h[i] ELSE r[i - Len(h)]
  <2>1. h \in Texts /\ r \in Texts
    BY <1>5, <1>6
  <2> QED BY <2>1, Joins
<1>7. Len(h ++ r) = Len(w) /\ h ++ r \in Texts
  BY <1>1, <1>5, <1>6, <1>j
<1>8. ASSUME NEW i \in 1..Len(w) PROVE (h ++ r)[i] = w[i]
  <2>1. (h ++ r)[i] = IF i <= 2 THEN h[i] ELSE r[i - 2]
    BY <1>1, <1>5, <1>6, <1>j
  <2>2. CASE i <= 2
    <3>1. i = 1 \/ i = 2
      BY <2>2
    <3> QED BY <2>1, <2>2, <3>1, <1>6
  <2>3. CASE ~(i <= 2)
    <3>1. i - 2 \in 1..Len(r) /\ (i - 2) + 2 = i
      BY <1>1, <1>5, <2>3
    <3>2. r[i - 2] = w[(i - 2) + 2]
      BY <3>1, <1>5
    <3> QED BY <2>1, <2>3, <3>1, <3>2
  <2> QED BY <2>2, <2>3
<1>9. h ++ r = w
  BY <1>7, <1>8, SameText
<1> QED BY <1>2, <1>5, <1>9 DEF r, v, h, Texts

-----------------------------------------------------------------------------
(* Lines.                                                                  *)

\* What a client has to say up to its n-th line.
Said(n) == IF n = 0 THEN <<>> ELSE IF n = 1 THEN Line("test") ELSE Line("test") ++ Line("quit")

\* What streams.c answers to "test".
Re == <<"re">> ++ Line("test")

\* The two lines of a client.
LEMMA LineTexts ==
  /\ Line("test") \in Texts /\ Len(Line("test")) = 2
  /\ Line("test")[1] = "test" /\ Line("test")[2] = "nl"
  /\ Line("quit") \in Texts /\ Len(Line("quit")) = 2
  /\ Line("quit")[1] = "quit" /\ Line("quit")[2] = "nl"
  /\ <<"re">> \in Texts /\ Len(<<"re">>) = 1
BY DEF Line, Texts, Symbols

\* What a client says is a text, and so is the answer of streams.c.
LEMMA SaidTexts ==
  /\ Said(0) = <<>> /\ Said(1) = Line("test") /\ Said(2) = Line("test") ++ Line("quit")
  /\ Said(0) \in Texts /\ Said(1) \in Texts /\ Said(2) \in Texts
  /\ \A n \in 0..2 : Said(n) \in Texts
  /\ Re \in Texts /\ Len(Re) = 3 /\ Re # <<>>
<1>1. Said(0) = <<>> /\ Said(1) = Line("test") /\ Said(2) = Line("test") ++ Line("quit")
  BY DEF Said
<1>2. Said(0) \in Texts /\ Said(1) \in Texts /\ Said(2) \in Texts
  BY <1>1, EmptyText, LineTexts, Joins
<1>3. \A n \in 0..2 : Said(n) \in Texts
  <2>1. \A n \in 0..2 : n = 0 \/ n = 1 \/ n = 2
    OBVIOUS
  <2> QED BY <1>2, <2>1
<1>4. Re \in Texts /\ Len(Re) = 3
  <2> DEFINE r == <<"re">>
             t == Line("test")
  <2>1. r \in Texts /\ t \in Texts
    BY LineTexts
  <2>2. Len(r) = 1 /\ Len(t) = 2
    BY LineTexts
  <2> HIDE DEF r, t
  <2>3. r ++ t \in Texts /\ Len(r ++ t) = Len(r) + Len(t)
    BY <2>1, Joins
  <2>4. Len(r ++ t) = 3
    BY <2>2, <2>3
  <2> QED BY <2>3, <2>4 DEF Re, r, t
<1>5. Re # <<>>
  <2>1. Re = <<>> <=> Len(Re) = 0
    BY <1>4, TextFacts
  <2> QED BY <1>4, <2>1
<1> QED BY <1>1, <1>2, <1>3, <1>4, <1>5

\* Every second symbol that a client says ends a line.
LEMMA SaidAt ==
  ASSUME NEW u \in 0..2
  PROVE  /\ Len(Said(u)) = 2 * u
         /\ \A i \in 1..2 * u : Said(u)[i] = (IF i = 1 THEN "test" ELSE IF i = 3 THEN "quit" ELSE "nl")
<1> DEFINE t == Line("test")
           q == Line("quit")
<1>1. CASE u = 0
  BY <1>1, SaidTexts
<1>2. CASE u = 1
  <2>1. Said(u) = t
    BY <1>2, SaidTexts
  <2>2. \A i \in 1..2 : i = 1 \/ i = 2
    OBVIOUS
  <2> QED BY <1>2, <2>1, <2>2, LineTexts
<1>3. CASE u = 2
  <2>1. Said(u) = t ++ q
    BY <1>3, SaidTexts
  <2>2. /\ t \in Texts /\ Len(t) = 2 /\ t[1] = "test" /\ t[2] = "nl"
        /\ q \in Texts /\ Len(q) = 2 /\ q[1] = "quit" /\ q[2] = "nl"
    BY LineTexts
  <2> HIDE DEF t, q
  <2>j. /\ Len(t ++ q) = Len(t) + Len(q)
        /\ \A i \in 1..Len(t) + Len(q) : (t ++ q)[i] = IF i <= Len(t) THEN t[i] ELSE q[i - Len(t)]
    <3>1. t \in Texts /\ q \in Texts
      BY <2>2
    <3> QED BY <3>1, Joins
  <2>3. Len(t ++ q) = 4 /\ \A i \in 1..4 : (t ++ q)[i] = IF i <= 2 THEN t[i] ELSE q[i - 2]
    BY <2>2, <2>j
  <2>4. (t ++ q)[1] = "test" /\ (t ++ q)[2] = "nl" /\ (t ++ q)[3] = "quit" /\ (t ++ q)[4] = "nl"
    BY <2>2, <2>3
  <2>5. \A i \in 1..4 : i = 1 \/ i = 2 \/ i = 3 \/ i = 4
    OBVIOUS
  <2> QED BY <1>3, <2>1, <2>3, <2>4, <2>5
<1> QED BY <1>1, <1>2, <1>3

\* There is no "quit" in what the client says but at its end.
LEMMA Quits ==
  ASSUME NEW x \in Texts, NEW y \in Texts, NEW u \in 0..2,
         (x ++ Line("quit")) ++ y = Said(u)
  PROVE  u = 2 /\ y = <<>> /\ x ++ Line("quit") = Said(2)
<1> DEFINE l == Line("quit")
           q == x ++ l
<1>1. l \in Texts /\ Len(l) = 2 /\ l[1] = "quit"
  BY LineTexts
<1> HIDE DEF l
<1>j. /\ q \in Texts /\ Len(q) = Len(x) + Len(l) /\ Len(x) \in Nat
      /\ \A i \in 1..Len(x) + Len(l) : q[i] = IF i <= Len(x) THEN x[i] ELSE l[i - Len(x)]
  <2>1. l \in Texts
    BY <1>1
  <2> QED BY <2>1, Joins
<1> HIDE DEF q
<1>2. q \in Texts /\ Len(q) = Len(x) + 2 /\ Len(x) \in Nat
  BY <1>1, <1>j
<1>3. q[Len(x) + 1] = "quit"
  <2>1. q[Len(x) + 1] = l[(Len(x) + 1) - Len(x)]
    BY <1>1, <1>2, <1>j
  <2>2. (Len(x) + 1) - Len(x) = 1
    BY <1>2
  <2> QED BY <1>1, <2>1, <2>2
<1>k. /\ Len(q ++ y) = Len(q) + Len(y) /\ Len(y) \in Nat
      /\ \A i \in 1..Len(q) + Len(y) : (q ++ y)[i] = IF i <= Len(q) THEN q[i] ELSE y[i - Len(q)]
  <2>1. q \in Texts
    BY <1>2
  <2> QED BY <2>1, Joins
<1>4. Len(q ++ y) = Len(x) + 2 + Len(y) /\ (q ++ y)[Len(x) + 1] = "quit" /\ Len(y) \in Nat
  BY <1>2, <1>3, <1>k
<1>5. q ++ y = Said(u)
  BY DEF q, l
<1>6. Len(x) + 2 + Len(y) = 2 * u /\ Len(x) + 1 \in 1..2 * u /\ Said(u)[Len(x) + 1] = "quit"
  <2>1. Len(Said(u)) = 2 * u
    BY SaidAt
  <2> QED BY <1>2, <1>4, <1>5, <2>1
<1>7. Len(x) + 1 = 3
  BY <1>6, SaidAt
<1>8. u = 2 /\ Len(y) = 0
  BY <1>2, <1>4, <1>6, <1>7
<1>9. y = <<>>
  BY <1>8, TextFacts
<1>10. q = Said(2)
  BY <1>2, <1>5, <1>8, <1>9, TextFacts
<1> QED BY <1>8, <1>9, <1>10 DEF q, l

\* A wire that holds a line holds the one that comes next.
LEMMA NextLine ==
  ASSUME NEW w \in Texts, NEW y \in Texts, NEW u \in 0..2, HasLine(w)
  PROVE  /\ w ++ y = Said(u) =>
              /\ u # 0 /\ Head(w) = "test" /\ Tail(Tail(w)) \in Texts
              /\ w = Line("test") ++ Tail(Tail(w))
         /\ Line("test") ++ (w ++ y) = Said(u) =>
              /\ u = 2 /\ Head(w) = "quit" /\ Tail(Tail(w)) = <<>>
              /\ w = Line("quit") /\ y = <<>>
<1>1. PICK i \in 1..Len(w) : w[i] = "nl"
  BY DEF HasLine, Contains
<1>2. Len(w) \in Nat /\ Len(y) \in Nat /\ i \in Nat
  BY <1>1, TextFacts
<1> DEFINE v == w ++ y
<1>j. /\ v \in Texts /\ Len(v) = Len(w) + Len(y)
      /\ \A k \in 1..Len(w) + Len(y) : v[k] = IF k <= Len(w) THEN w[k] ELSE y[k - Len(w)]
  BY Joins
<1> HIDE DEF v
<1>3. v \in Texts /\ Len(v) = Len(w) + Len(y) /\ \A k \in 1..Len(w) : v[k] = w[k]
  BY <1>2, <1>j
<1>4. ASSUME v = Said(u)
      PROVE  /\ u # 0 /\ Head(w) = "test" /\ Tail(Tail(w)) \in Texts
             /\ w = Line("test") ++ Tail(Tail(w))
  <2>1. i \in 1..2 * u /\ Said(u)[i] = "nl" /\ Len(w) <= 2 * u
    <3>1. Len(Said(u)) = 2 * u
      BY SaidAt
    <3> QED BY <1>1, <1>2, <1>3, <1>4, <3>1
  <2>2. i # 1 /\ Len(w) >= 2 /\ u # 0
    BY <1>1, <1>2, <2>1, SaidAt
  <2>3. w[1] = "test" /\ w[2] = "nl"
    <3>1. w[1] = Said(u)[1] /\ w[2] = Said(u)[2]
      BY <1>2, <1>3, <1>4, <2>2
    <3>2. 1 \in 1..2 * u /\ 2 \in 1..2 * u
      BY <2>1, <2>2, <1>2
    <3> QED BY <3>1, <3>2, SaidAt
  <2>4. Tail(Tail(w)) \in Texts /\ w = <<w[1], w[2]>> ++ Tail(Tail(w)) /\ Head(w) = w[1]
    BY <2>2, TwoHeads
  <2> QED BY <2>2, <2>3, <2>4 DEF Line
<1>5. ASSUME Line("test") ++ v = Said(u)
      PROVE  u = 2 /\ Head(w) = "quit" /\ Tail(Tail(w)) = <<>> /\ w = Line("quit") /\ y = <<>>
  <2> DEFINE t == Line("test")
  <2>1. t \in Texts /\ Len(t) = 2 /\ t ++ v = Said(u)
    BY <1>5, LineTexts
  <2> HIDE DEF t
  <2>j. /\ Len(t ++ v) = Len(t) + Len(v)
        /\ \A k \in 1..Len(t) + Len(v) : (t ++ v)[k] = IF k <= Len(t) THEN t[k] ELSE v[k - Len(t)]
    <3>1. t \in Texts /\ v \in Texts
      BY <1>3, <2>1
    <3> QED BY <3>1, Joins
  <2>2. /\ 2 * u = 2 + Len(w) + Len(y)
        /\ \A k \in 1..Len(w) : Said(u)[k + 2] = w[k]
    <3>1. Len(t ++ v) = 2 + Len(w) + Len(y)
      BY <1>2, <1>3, <2>1, <2>j
    <3>2. ASSUME NEW k \in 1..Len(w) PROVE (t ++ v)[k + 2] = w[k]
      <4>1. k + 2 \in 1..Len(t) + Len(v) /\ ~(k + 2 <= 2) /\ (k + 2) - 2 = k
        BY <1>2, <1>3, <2>1
      <4>2. (t ++ v)[k + 2] = v[(k + 2) - 2]
        BY <1>3, <2>1, <4>1, <2>j
      <4> QED BY <4>1, <4>2, <1>3
    <3> QED BY <2>1, <3>1, <3>2, SaidAt
  <2>3. Said(u)[i + 2] = "nl" /\ i + 2 \in 1..2 * u
    BY <1>1, <1>2, <2>2
  <2>4. i + 2 = 4
    <3>1. i + 2 # 3
      BY <2>3, SaidAt
    <3> QED BY <1>1, <1>2, <2>2, <2>3, <3>1
  <2>5. u = 2 /\ Len(w) = 2 /\ Len(y) = 0
    <3>1. i = 2 /\ u \in {0, 1, 2} /\ Len(w) >= 2
      BY <1>1, <1>2, <2>4
    <3>2. 2 * u = 2 + Len(w) + Len(y)
      BY <2>2
    <3>3. u # 0 /\ u # 1
      BY <1>2, <3>1, <3>2
    <3>4. u = 2
      BY <3>1, <3>3
    <3>5. \A a, b \in Nat : a >= 2 /\ 2 * 2 = 2 + a + b => a = 2 /\ b = 0
      OBVIOUS
    <3>6. 2 * 2 = 2 + Len(w) + Len(y)
      BY <3>2, <3>4
    <3> QED BY <1>2, <3>1, <3>4, <3>5, <3>6
  <2>6. w[1] = "quit" /\ w[2] = "nl"
    <3>1. w[1] = Said(2)[3] /\ w[2] = Said(2)[4]
      BY <2>2, <2>5
    <3>2. Said(2)[3] = "quit" /\ Said(2)[4] = "nl"
      BY SaidAt
    <3> QED BY <3>1, <3>2
  <2>7. w = <<"quit", "nl">>
    <3>1. w \in Seq(Symbols)
      BY DEF Texts
    <3> QED BY <2>5, <2>6, <3>1
  <2>8. Head(w) = "quit" /\ Tail(Tail(w)) = <<>>
    BY <2>7
  <2> QED BY <2>5, <2>7, <2>8, TextFacts DEF Line
<1> QED BY <1>4, <1>5 DEF v

\* A beginning.
LEMMA Prefix ==
  ASSUME NEW s \in Texts, NEW t \in Texts
  PROVE  /\ IsPrefix(s, s ++ t)
         /\ IsPrefix(s, t) => Len(s) <= Len(t) /\ (Len(s) = Len(t) => s = t)
         /\ IsPrefix(s, t) => \A r \in Texts : IsPrefix(s, t ++ r)
<1>1. s \in Seq(Symbols) /\ t \in Seq(Symbols)
  BY DEF Texts
<1>2. IsPrefix(s, s ++ t)
  BY <1>1 DEF IsPrefix, ++
<1>3. ASSUME IsPrefix(s, t)
      PROVE  Len(s) <= Len(t) /\ (Len(s) = Len(t) => s = t)
  <2>1. Len(s) <= Len(t) /\ SubSeq(s, 1, Len(s)) = SubSeq(t, 1, Len(s))
    BY <1>3 DEF IsPrefix
  <2>2. SubSeq(s, 1, Len(s)) = s /\ SubSeq(t, 1, Len(t)) = t
    BY <1>1
  <2> QED BY <2>1, <2>2
<1>4. ASSUME IsPrefix(s, t), NEW r \in Texts
      PROVE  IsPrefix(s, t ++ r)
  <2>1. r \in Seq(Symbols)
    BY DEF Texts
  <2>2. Len(s) <= Len(t) /\ SubSeq(s, 1, Len(s)) = SubSeq(t, 1, Len(s))
    BY <1>4 DEF IsPrefix
  <2>3. SubSeq(t ++ r, 1, Len(s)) = SubSeq(t, 1, Len(s))
    BY <1>1, <2>1, <2>2 DEF ++
  <2>4. Len(s) <= Len(t ++ r)
    BY <1>1, <2>1, <2>2 DEF ++
  <2> QED BY <2>2, <2>3, <2>4 DEF IsPrefix
<1> QED BY <1>2, <1>3, <1>4

-----------------------------------------------------------------------------
(* The invariant of the streams.                                           *)

\* Where the client is in its program.
ClientAt ==
  /\ client.conn = "none" => client.udata = 0 /\ client.out = <<>>
  /\ client.pc \in {"key", "connect"} => client.conn = "none"
  /\ client.name = "streamc" =>
       /\ client.out = <<>>
       /\ client.pc \in {"key", "connect", "test", "echo", "quit", "close", "error", "spin"} \cup Ended
       /\ client.pc = "test" => client.udata = 0
       /\ client.pc \in {"echo", "quit"} => client.udata = 1
       /\ client.pc \in {"test", "echo", "quit", "close", "error", "spin"} => client.conn # "none"
       /\ client.pc \in {"test", "echo", "quit"} /\ client.conn = "closed" => server.conn # "open"
  /\ client.name = "test_sc" =>
       /\ client.pc \in {"key", "connect", "loop", "read", "more", "write", "cancel", "done"}
       /\ client.pc \in {"read", "more", "write", "cancel"} => client.conn = "open"
       /\ client.pc = "loop" => client.conn # "none"

\* Where the server is in its.
ServerAt ==
  /\ server.conn \in {"none", "listening"} =>
       server.str = <<>> /\ server.out = <<>> /\ ~server.doQuit
  /\ server.pc = "create" => server.conn = "none"
  /\ server.conn = "listening" => server.pc \in {"accept", "loop"}
  /\ server.name = "streams" =>
       /\ server.out = <<>>
       /\ server.pc \in {"create", "accept", "loop", "echo", "close", "error", "spin"} \cup Ended
       /\ server.pc = "accept" => server.conn \in {"listening", "open"} /\ echoed = <<>>
       /\ server.pc \in {"loop", "echo", "close", "error", "spin"} => server.conn = "open"
       /\ server.pc \in Ended => server.conn # "open"
       /\ server.pc = "echo" => server.str = <<"test">> /\ echoed = <<>>
       /\ echoed \in {<<>>, Re}
       /\ server.pc = "close" => server.doQuit
       /\ server.doQuit => server.pc \in {"close", "done"} /\ echoed = Re
  /\ server.name = "test_ss" =>
       /\ server.pc \in {"create", "loop", "read", "more", "write", "cancel", "done"}
       /\ server.pc \in {"read", "more", "write", "cancel"} => server.conn = "open"
       /\ server.pc = "loop" => server.conn # "none"
       /\ server.pc = "done" => server.conn # "open"
       /\ server.doQuit /\ server.conn = "open" /\ server.pc # "cancel" =>
            echoed ++ server.out = Said(2)

\* Before there is a stream there is nothing on it.
Unconnected ==
  /\ server.conn = "open" => client.conn # "none"
  /\ client.conn = "none" \/ server.conn \in {"none", "listening"} =>
       toServer = <<>> /\ toClient = <<>> /\ echoed = <<>> /\ heard = <<>>

\* What the server has taken from the stream.
Taken == IF server.name = "test_ss" THEN echoed ++ (server.out ++ server.str)
         ELSE IF server.pc = "close" THEN Said(2)
         ELSE IF server.pc = "echo" \/ echoed # <<>> THEN Said(1) ELSE <<>>

\* It is what the client has to say, but for what is on its way, what is lost
\* and what has not been written yet.
Upstream ==
  server.conn = "open" /\ server.pc \notin {"cancel", "error", "spin"} =>
    \E lost \in Texts :
      /\ Taken ++ (toServer ++ (lost ++ client.out)) = Said(client.udata)
      /\ lost # <<>> => cut \/ client.conn # "open" \/ client.pc = "cancel"

\* What the server has answered is what the client has heard, what is on its
\* way and what is lost.
Downstream ==
  \E lost \in Texts :
    /\ heard ++ (toClient ++ lost) = echoed
    /\ lost # <<>> => cut \/ client.conn # "open"

\* What is answered, and that a server that is done with a "quit" has answered
\* it all.
Finished ==
  /\ IsPrefix(echoed, Answers)
  /\ server.name = "test_ss" /\ server.pc \in {"cancel", "done"} /\ server.doQuit
       /\ "memory" \notin faults => echoed = Said(2)

StreamInv == /\ StreamTypes /\ ClientAt /\ ServerAt /\ Unconnected
             /\ Upstream /\ Downstream /\ Finished

-----------------------------------------------------------------------------
(* Steps of the server.                                                    *)

\* A step that moves no data but may throw some away.
LEMMA ServerGoes ==
  ASSUME StreamInv, UNCHANGED <<faults, client, keylen, cut, heard, toClient, echoed>>,
         keyfile' \in KeyFiles, server' \in ServerStates, toServer' \in Texts,
         server'.name = server.name, ServerAt',
         server'.conn = "open" =>
           /\ server.conn = "open"
           /\ \/ server'.pc \in {"cancel", "error", "spin"}
              \/ /\ server.pc \notin {"cancel", "error", "spin"}
                 /\ Taken' = Taken /\ toServer' = toServer,
         server'.conn \in {"none", "listening"} => server.conn \in {"none", "listening"},
         server.conn # "open" => toServer' \in {toServer, <<>>},
         server'.name = "test_ss" /\ server'.pc \in {"cancel", "done"} /\ server'.doQuit
           /\ "memory" \notin faults => echoed = Said(2)
  PROVE  StreamInv'
<1>1. StreamTypes'
  BY DEF StreamInv, StreamTypes
<1>2. ClientAt'
  BY DEF StreamInv, ClientAt
<1>3. Unconnected'
  BY DEF StreamInv, Unconnected
<1>4. Upstream'
  BY DEF StreamInv, Upstream
<1>5. Downstream'
  BY DEF StreamInv, Downstream
<1>6. Finished'
  <2>1. Answers' = Answers
    BY DEF Answers, Answer
  <2> QED BY <2>1 DEF StreamInv, Finished
<1> QED BY <1>1, <1>2, <1>3, <1>4, <1>5, <1>6 DEF StreamInv

\* What is done to the key file leaves it in one of its states.
LEMMA KeyFileTypes ==
  ASSUME keyfile \in KeyFiles
  PROVE  /\ Outdated \in KeyFiles /\ Written \subseteq KeyFiles
         /\ "none" \in KeyFiles /\ "stale" \in KeyFiles /\ "fresh" \in KeyFiles
BY DEF Outdated, Written, KeyFiles

\* streams.c creates its session (43-56): no stream yet.
LEMMA streamsCreateKeeps ==
  ASSUME StreamInv, streamsCreate, UNCHANGED faults
  PROVE  StreamInv'
<1> USE DEF streamsCreate
<1>1. server \in ServerStates /\ keyfile' \in KeyFiles /\ toServer' \in Texts
  BY KeyFileTypes DEF StreamInv, StreamTypes
<1>2. server.conn = "none" /\ server.str = <<>> /\ server.out = <<>> /\ ~server.doQuit /\ echoed = <<>>
  BY DEF StreamInv, ServerAt, Unconnected
<1>3. /\ server' \in ServerStates
      /\ server'.name = "streams" /\ server'.str = <<>> /\ server'.out = <<>> /\ ~server'.doQuit
      /\ \/ server'.pc = "failed" /\ server'.conn = "none"
         \/ server'.pc = "accept" /\ server'.conn = "listening"
  <2>1. CASE server' = [server EXCEPT !.pc = "failed"]
    BY <1>1, <1>2, <2>1 DEF ServerStates, ServerPcs, Ended
  <2>2. CASE server' = [server EXCEPT !.pc = "accept", !.conn = "listening"]
    BY <1>1, <1>2, <2>2 DEF ServerStates, ServerPcs, Ended
  <2> QED BY <2>1, <2>2
<1>4. ServerAt'
  BY <1>2, <1>3 DEF ServerAt, Ended
<1> QED BY <1>1, <1>2, <1>3, <1>4, ServerGoes

\* It accepts (58-64), or leaves.
LEMMA streamsAcceptKeeps ==
  ASSUME StreamInv, streamsAccept, UNCHANGED faults
  PROVE  StreamInv'
<1> USE DEF streamsAccept
<1>1. server \in ServerStates /\ keyfile' \in KeyFiles /\ toServer' \in Texts
  BY KeyFileTypes, EmptyText DEF StreamInv, StreamTypes
<1>2. server.out = <<>> /\ echoed = <<>> /\ ~server.doQuit /\ server.conn \in {"listening", "open"}
  BY DEF StreamInv, ServerAt, Ended
<1>3. /\ server' \in ServerStates
      /\ server'.name = "streams" /\ server'.str = server.str /\ server'.out = <<>> /\ ~server'.doQuit
      /\ \/ server'.pc = "loop" /\ server'.conn = "open" /\ server.conn = "open" /\ toServer' = toServer
         \/ server'.pc = "failed" /\ server'.conn = "closed" /\ toServer' = <<>>
  <2>1. CASE server' = [server EXCEPT !.pc = "loop"] /\ server.conn = "open" /\ toServer' = toServer
    BY <1>1, <1>2, <2>1 DEF ServerStates, ServerPcs, Ended
  <2>2. CASE server' = [server EXCEPT !.pc = "failed", !.conn = "closed"] /\ toServer' = <<>>
    BY <1>1, <1>2, <2>2 DEF ServerStates, ServerPcs, Ended
  <2> QED BY <2>1, <2>2
<1>4. ServerAt'
  BY <1>2, <1>3 DEF StreamInv, ServerAt, Ended
<1>5. Taken' = Taken \/ server'.conn = "closed"
  BY <1>2, <1>3 DEF Taken
<1> QED BY <1>1, <1>2, <1>3, <1>4, <1>5, ServerGoes

\* It closes its session (80-87) and throws away what it has not read.
LEMMA streamsCloseKeeps ==
  ASSUME StreamInv, streamsClose, UNCHANGED faults
  PROVE  StreamInv'
<1> USE DEF streamsClose
<1>1. server \in ServerStates /\ keyfile' \in KeyFiles /\ toServer' \in Texts
  BY KeyFileTypes, EmptyText DEF StreamInv, StreamTypes
<1>2. server.out = <<>> /\ server.conn = "open"
  BY DEF StreamInv, ServerAt, Ended
<1>3. /\ server' \in ServerStates
      /\ server'.name = "streams" /\ server'.str = server.str /\ server'.out = <<>>
      /\ server'.doQuit = server.doQuit /\ server'.conn = "closed"
      /\ \/ server.pc = "close" /\ server'.pc = "done"
         \/ server.pc = "error" /\ server'.pc = "failed"
  BY <1>1, <1>2 DEF ServerStates, ServerPcs, Ended
<1>4. ServerAt'
  BY <1>2, <1>3 DEF StreamInv, ServerAt, Ended
<1> QED BY <1>1, <1>2, <1>3, <1>4, ServerGoes

\* test_ss.c creates its session (151-181).
LEMMA scbCreatedServerKeeps ==
  ASSUME StreamInv, scbCreatedServer, UNCHANGED faults
  PROVE  StreamInv'
<1> USE DEF scbCreatedServer
<1>1. server \in ServerStates /\ keyfile' \in KeyFiles /\ toServer' \in Texts
  BY KeyFileTypes DEF StreamInv, StreamTypes
<1>2. server.conn = "none" /\ server.str = <<>> /\ server.out = <<>> /\ ~server.doQuit /\ echoed = <<>>
  BY DEF StreamInv, ServerAt, Unconnected
<1>3. /\ server' \in ServerStates
      /\ server'.name = "test_ss" /\ server'.str = <<>> /\ server'.out = <<>> /\ ~server'.doQuit
      /\ \/ server'.pc = "done" /\ server'.conn = "none"
         \/ server'.pc = "loop" /\ server'.conn = "listening"
  <2>1. CASE server' = [server EXCEPT !.pc = "done"]
    BY <1>1, <1>2, <2>1 DEF ServerStates, ServerPcs, Ended
  <2>2. CASE server' = [server EXCEPT !.pc = "loop", !.conn = "listening"]
    BY <1>1, <1>2, <2>2 DEF ServerStates, ServerPcs, Ended
  <2> QED BY <2>1, <2>2
<1>4. ServerAt'
  BY <1>2, <1>3 DEF ServerAt, Ended
<1> QED BY <1>1, <1>2, <1>3, <1>4, ServerGoes

\* Its accept fails (60-82).
LEMMA ssAcceptFailsKeeps ==
  ASSUME StreamInv, ssAcceptFails, UNCHANGED faults
  PROVE  StreamInv'
<1> USE DEF ssAcceptFails
<1>1. server \in ServerStates /\ keyfile' \in KeyFiles /\ toServer' \in Texts
  BY DEF StreamInv, StreamTypes
<1>2. server.str = <<>> /\ server.out = <<>> /\ ~server.doQuit
  BY DEF StreamInv, ServerAt
<1>3. /\ server' \in ServerStates
      /\ server'.name = "test_ss" /\ server'.str = <<>> /\ server'.out = <<>> /\ ~server'.doQuit
      /\ server'.pc = server.pc /\ server'.conn = "closed"
  BY <1>1, <1>2 DEF ServerStates
<1>4. ServerAt'
  BY <1>2, <1>3 DEF StreamInv, ServerAt, Ended
<1> QED BY <1>1, <1>2, <1>3, <1>4, ServerGoes

\* select() finds something to do.
LEMMA ssSelectKeeps ==
  ASSUME StreamInv, ssSelect, UNCHANGED faults
  PROVE  StreamInv'
<1> USE DEF ssSelect
<1>1. server \in ServerStates /\ keyfile' \in KeyFiles /\ toServer' \in Texts
  BY DEF StreamInv, StreamTypes
<1>2. PICK next \in {"read", "write"} : server' = [server EXCEPT !.pc = next]
  BY DEF Selected
<1>3. /\ server' \in ServerStates
      /\ server'.name = "test_ss" /\ server'.str = server.str /\ server'.out = server.out
      /\ server'.doQuit = server.doQuit /\ server'.pc \in {"read", "write"} /\ server'.conn = "open"
  BY <1>1, <1>2 DEF ServerStates, ServerPcs
<1>4. ServerAt'
  BY <1>2, <1>3 DEF StreamInv, ServerAt, Ended
<1>5. Taken' = Taken
  BY <1>3 DEF Taken
<1> QED BY <1>1, <1>2, <1>3, <1>4, <1>5, ServerGoes

\* test_ss.c leaves its loop (249-251) and throws away what it has not read.
LEMMA ssCancelKeeps ==
  ASSUME StreamInv, ssCancel, UNCHANGED faults
  PROVE  StreamInv'
<1> USE DEF ssCancel
<1>1. server \in ServerStates /\ keyfile' \in KeyFiles /\ toServer' \in Texts
  BY KeyFileTypes, EmptyText DEF StreamInv, StreamTypes
<1>3. /\ server' \in ServerStates
      /\ server'.name = "test_ss" /\ server'.str = server.str /\ server'.out = server.out
      /\ server'.doQuit = server.doQuit /\ server'.pc = "done" /\ server'.conn = "closed"
  BY <1>1 DEF ServerStates, ServerPcs, Ended
<1>4. ServerAt'
  BY <1>3 DEF StreamInv, ServerAt, Ended
<1>5. server.doQuit /\ "memory" \notin faults => echoed = Said(2)
  BY DEF StreamInv, Finished
<1> QED BY <1>1, <1>3, <1>4, <1>5, ServerGoes

\* The open end of a stream.
LEMMA Lost ==
  ASSUME StreamInv, server.conn = "open", server.pc \notin {"cancel", "error", "spin"}
  PROVE  /\ \E lost \in Texts :
              /\ Taken ++ (toServer ++ (lost ++ client.out)) = Said(client.udata)
              /\ lost # <<>> => cut \/ client.conn # "open" \/ client.pc = "cancel"
         /\ client.out \in Texts /\ client.udata \in 0..2 /\ toServer \in Texts
BY DEF StreamInv, Upstream, StreamTypes, ClientStates

\* streams.c takes a line off the wire (68-74): one more line is taken.
LEMMA streamsReceiveKeeps ==
  ASSUME StreamInv, streamsReceive, UNCHANGED faults
  PROVE  StreamInv'
<1> USE DEF streamsReceive
<1>1. server \in ServerStates /\ keyfile' \in KeyFiles /\ echoed \in Texts
  BY DEF StreamInv, StreamTypes
<1>2. server.out = <<>> /\ server.conn = "open" /\ ~server.doQuit /\ echoed \in {<<>>, Re}
  BY DEF StreamInv, ServerAt, Ended
<1>3. CASE ~HasLine(toServer)
  <2>1. /\ server' \in ServerStates
        /\ server'.name = "streams" /\ server'.str = server.str /\ server'.out = <<>>
        /\ ~server'.doQuit /\ server'.pc \in {"error", "spin"} /\ server'.conn = "open"
    <3>1. PICK next \in {"error", "spin"} : server' = [server EXCEPT !.pc = next]
      BY <1>3
    <3> QED BY <1>1, <1>2, <3>1 DEF ServerStates, ServerPcs
  <2>2. ServerAt'
    BY <1>2, <1>3, <2>1 DEF StreamInv, ServerAt, Ended
  <2>3. toServer' = toServer /\ toServer \in Texts
    BY <1>3 DEF StreamInv, StreamTypes
  <2> QED BY <1>1, <1>2, <1>3, <2>1, <2>2, <2>3, ServerGoes
<1>4. CASE HasLine(toServer)
  <2> DEFINE w == toServer
             o == client.out
             u == client.udata
  <2>1. PICK lost \in Texts : /\ Taken ++ (w ++ (lost ++ o)) = Said(u)
                              /\ lost # <<>> => cut \/ client.conn # "open" \/ client.pc = "cancel"
    BY <1>2, Lost
  <2>2. o \in Texts /\ u \in 0..2 /\ w \in Texts /\ lost ++ o \in Texts
    BY <1>2, Lost, Joins
  <2>3. \/ /\ echoed = <<>> /\ Taken = <<>> /\ Head(w) = "test"
           /\ Tail(Tail(w)) \in Texts
           /\ Said(1) ++ (Tail(Tail(w)) ++ (lost ++ o)) = Said(u)
        \/ /\ echoed = Re /\ Taken = Said(1) /\ Head(w) = "quit"
           /\ Tail(Tail(w)) \in Texts /\ Said(2) ++ (Tail(Tail(w)) ++ (lost ++ o)) = Said(u)
    <3>1. CASE echoed = <<>>
      <4>1. Taken = <<>>
        BY <3>1 DEF Taken
      <4>2. w ++ (lost ++ o) = Said(u)
        BY <2>1, <2>2, <4>1, Joins, TextFacts
      <4>3. Head(w) = "test" /\ Tail(Tail(w)) \in Texts /\ w = Line("test") ++ Tail(Tail(w))
        BY <1>4, <2>2, <4>2, NextLine
      <4> QED BY <3>1, <4>1, <4>2, <4>3, <2>2, Assoc, SaidTexts, LineTexts
    <3>2. CASE echoed = Re
      <4>1. Re # <<>> /\ Taken = Said(1)
        BY <1>2, <3>2, SaidTexts DEF Taken
      <4>2. Line("test") ++ (w ++ (lost ++ o)) = Said(u)
        BY <2>1, <4>1, SaidTexts
      <4>3. u = 2 /\ Head(w) = "quit" /\ Tail(Tail(w)) = <<>> /\ lost ++ o = <<>>
        BY <1>4, <2>2, <4>2, NextLine
      <4>4. Said(2) ++ (<<>> ++ <<>>) = Said(2)
        BY SaidTexts, EmptyText, TextFacts
      <4> QED BY <3>2, <4>1, <4>3, <4>4, EmptyText
    <3> QED BY <1>2, <3>1, <3>2
  <2>4. /\ server' \in ServerStates
        /\ server'.name = "streams" /\ server'.out = <<>> /\ server'.conn = "open"
        /\ server'.str = <<Head(w)>> /\ (server'.doQuit <=> Head(w) = "quit")
        /\ server'.pc = IF Head(w) = "quit" THEN "close" ELSE "echo"
    <3>1. <<Head(w)>> \in Texts /\ (Head(w) = "quit") \in BOOLEAN
      BY <2>3 DEF Texts, Symbols
    <3> QED BY <1>1, <1>2, <1>4, <3>1 DEF ServerStates, ServerPcs
  <2>5. toServer' = Tail(Tail(w)) /\ UNCHANGED <<client, keyfile, keylen, toClient, cut, echoed, heard>>
    BY <1>4
  <2>6. StreamTypes'
    BY <2>3, <2>4, <2>5 DEF StreamInv, StreamTypes
  <2>7. ServerAt'
    BY <2>3, <2>4, <2>5 DEF StreamInv, ServerAt, Ended
  <2>8. ClientAt' /\ Unconnected' /\ Downstream'
    BY <1>2, <2>4, <2>5 DEF StreamInv, ClientAt, Unconnected, Downstream
  <2>9. Upstream'
    <3>1. Taken' = IF Head(w) = "quit" THEN Said(2) ELSE Said(1)
      BY <2>4, <2>5 DEF Taken
    <3>2. Taken' ++ (toServer' ++ (lost ++ o)) = Said(u)
      BY <2>3, <2>5, <3>1
    <3> QED BY <2>1, <2>5, <3>2 DEF Upstream
  <2>10. Finished'
    BY <2>4, <2>5 DEF StreamInv, Finished, Answers, Answer
  <2> QED BY <2>6, <2>7, <2>8, <2>9, <2>10 DEF StreamInv
<1> QED BY <1>3, <1>4

\* The answers of a server to the first u lines.
Replies(name, u) ==
  (IF u = 0 THEN <<>> ELSE IF name = "test_ss" THEN Line("test") ELSE Re)
    ++ (IF u = 2 /\ name = "test_ss" THEN Line("quit") ELSE <<>>)

\* test_ss.c answers with what it was told, streams.c answers one line only.
LEMMA RepliesAre ==
  ASSUME NEW u \in 0..2
  PROVE  /\ Replies("test_ss", u) = Said(u) /\ Replies("streams", u) = IF u = 0 THEN <<>> ELSE Re
         /\ Replies("test_ss", u) \in Texts /\ Replies("streams", u) \in Texts
<1>1. <<>> ++ <<>> = <<>> /\ Re ++ <<>> = Re /\ Line("test") ++ <<>> = Line("test")
  <2>1. <<>> ++ <<>> = <<>>
    BY EmptyText, TextFacts
  <2>2. Re ++ <<>> = Re
    <3>1. Re \in Texts
      BY SaidTexts
    <3> QED BY <3>1, TextFacts
  <2>3. Line("test") ++ <<>> = Line("test")
    <3>1. Line("test") \in Texts
      BY LineTexts
    <3> QED BY <3>1, TextFacts
  <2> QED BY <2>1, <2>2, <2>3
<1>2. u = 0 \/ u = 1 \/ u = 2
  OBVIOUS
<1>3. Replies("test_ss", u) = Said(u)
  BY <1>1, <1>2, SaidTexts DEF Replies
<1>4. Replies("streams", u) = IF u = 0 THEN <<>> ELSE Re
  BY <1>1, <1>2 DEF Replies
<1> QED BY <1>3, <1>4, SaidTexts, EmptyText

\* Answers says the same of the pair that runs.
LEMMA AnswersAre ==
  /\ StreamTypes => Answers = Replies(server.name, client.udata)
  /\ StreamTypes' => Answers' = Replies(server'.name, client'.udata)
  /\ StreamTypes => server.name \in {"streams", "test_ss"} /\ client.udata \in 0..2
  /\ StreamTypes' => server'.name \in {"streams", "test_ss"} /\ client'.udata \in 0..2
<1>1. \A u \in 0..2 : (u > 0 <=> u # 0) /\ (u > 1 <=> u = 2)
  OBVIOUS
<1>2. Line("quit") \in Texts /\ <<>> \in Texts
  BY LineTexts, EmptyText
<1>3. ASSUME StreamTypes
      PROVE  /\ Answers = Replies(server.name, client.udata)
             /\ server.name \in {"streams", "test_ss"} /\ client.udata \in 0..2
  <2>1. server.name \in {"streams", "test_ss"} /\ client.udata \in 0..2
    BY <1>3 DEF StreamTypes, ServerStates, ClientStates
  <2>2. Answers = (IF client.udata = 0 THEN <<>> ELSE Answer("test"))
                    ++ (IF client.udata = 2 THEN Answer("quit") ELSE <<>>)
    BY <1>1, <2>1 DEF Answers, ++
  <2>3. /\ Answer("test") = IF server.name = "test_ss" THEN Line("test") ELSE Re
        /\ Answer("quit") = IF server.name = "test_ss" THEN Line("quit") ELSE <<>>
    BY DEF Answer, Re, ++
  <2> QED BY <2>1, <2>2, <2>3 DEF Replies
<1>4. ASSUME StreamTypes'
      PROVE  /\ Answers' = Replies(server'.name, client'.udata)
             /\ server'.name \in {"streams", "test_ss"} /\ client'.udata \in 0..2
  <2>1. server'.name \in {"streams", "test_ss"} /\ client'.udata \in 0..2
    BY <1>4 DEF StreamTypes, ServerStates, ClientStates
  <2>2. Answers' = (IF client'.udata = 0 THEN <<>> ELSE Answer("test")')
                    ++ (IF client'.udata = 2 THEN Answer("quit")' ELSE <<>>)
    BY <1>1, <2>1 DEF Answers, ++
  <2>3. /\ Answer("test")' = IF server'.name = "test_ss" THEN Line("test") ELSE Re
        /\ Answer("quit")' = IF server'.name = "test_ss" THEN Line("quit") ELSE <<>>
    BY DEF Answer, Re, ++
  <2> QED BY <2>1, <2>2, <2>3 DEF Replies
<1> QED BY <1>3, <1>4

\* Nothing comes of nothing only.
LEMMA NothingJoined ==
  ASSUME NEW s \in Texts, NEW t \in Texts, s ++ t = <<>>
  PROVE  s = <<>> /\ t = <<>>
<1>1. Len(s) \in Nat /\ Len(t) \in Nat /\ Len(s ++ t) = Len(s) + Len(t) /\ s ++ t \in Texts
  BY Joins
<1>2. (s ++ t = <<>> <=> Len(s ++ t) = 0) /\ (s = <<>> <=> Len(s) = 0) /\ (t = <<>> <=> Len(t) = 0)
  BY <1>1, TextFacts
<1> QED BY <1>1, <1>2

\* What the server sends goes on the wire or is lost.
LEMMA SentDown ==
  ASSUME StreamInv, NEW a \in Texts, UNCHANGED <<heard, client, cut>>,
         echoed' = echoed ++ a,
         toClient' = IF Gone(client) THEN toClient ELSE toClient ++ a
  PROVE  Downstream' /\ echoed' \in Texts /\ toClient' \in Texts
<1> DEFINE h == heard
           w == toClient
           e == echoed
<1>1. h \in Texts /\ w \in Texts /\ e \in Texts
  BY DEF StreamInv, StreamTypes
<1>2. PICK lost \in Texts : h ++ (w ++ lost) = e /\ (lost # <<>> => cut \/ client.conn # "open")
  BY DEF StreamInv, Downstream
<1> HIDE DEF h, w, e
<1>3. h ++ (w ++ (lost ++ a)) = e ++ a /\ lost ++ a \in Texts
  <2>1. w ++ lost \in Texts /\ lost ++ a \in Texts
    BY <1>1, Joins
  <2>2. w ++ (lost ++ a) = (w ++ lost) ++ a
    BY <1>1, Assoc
  <2>3. h ++ ((w ++ lost) ++ a) = (h ++ (w ++ lost)) ++ a
    BY <1>1, <2>1, Assoc
  <2> QED BY <1>2, <2>1, <2>2, <2>3
<1>4. e ++ a \in Texts /\ w ++ a \in Texts
  BY <1>1, Joins
<1>5. CASE Gone(client)
  <2>1. toClient' = w /\ heard' = h /\ echoed' = e ++ a
    BY <1>5 DEF h, w, e
  <2>2. cut' \/ client'.conn # "open"
    BY <1>5 DEF Gone
  <2>3. heard' ++ (toClient' ++ (lost ++ a)) = echoed'
    BY <1>3, <2>1
  <2> QED BY <1>1, <1>3, <1>4, <2>1, <2>2, <2>3 DEF Downstream
<1>6. CASE ~Gone(client)
  <2>1. toClient' = w ++ a /\ heard' = h /\ echoed' = e ++ a
    BY <1>6 DEF h, w, e
  <2>2. lost = <<>>
    BY <1>2, <1>6 DEF Gone
  <2>3. lost ++ a = a /\ (w ++ a) ++ <<>> = w ++ a
    BY <2>2, <1>4, TextFacts
  <2>4. heard' ++ (toClient' ++ <<>>) = echoed'
    BY <1>3, <2>1, <2>3
  <2> QED BY <1>4, <2>1, <2>4, EmptyText DEF Downstream
<1> QED BY <1>5, <1>6

\* streams.c answers "test" (75-78).
LEMMA streamsEchoKeeps ==
  ASSUME StreamInv, streamsEcho, UNCHANGED faults
  PROVE  StreamInv'
<1> USE DEF streamsEcho
<1>1. server \in ServerStates /\ keyfile' \in KeyFiles /\ echoed \in Texts /\ toServer \in Texts
  BY DEF StreamInv, StreamTypes
<1>2. /\ server.out = <<>> /\ server.conn = "open" /\ ~server.doQuit /\ echoed = <<>>
      /\ server.str = <<"test">>
  BY DEF StreamInv, ServerAt, Ended
<1>3. CASE server' = [server EXCEPT !.pc = "error"] /\ UNCHANGED <<echoed, toClient>>
  <2>1. /\ server' \in ServerStates
        /\ server'.name = "streams" /\ server'.str = server.str /\ server'.out = <<>>
        /\ ~server'.doQuit /\ server'.pc = "error" /\ server'.conn = "open"
    BY <1>1, <1>2, <1>3 DEF ServerStates, ServerPcs
  <2>2. ServerAt'
    BY <1>2, <1>3, <2>1 DEF StreamInv, ServerAt, Ended
  <2> QED BY <1>1, <1>2, <1>3, <2>1, <2>2, ServerGoes
<1>4. CASE /\ server' = [server EXCEPT !.pc = "loop"]
           /\ echoed' = echoed \o Answer(server.str[1])
           /\ toClient' = IF Gone(client) THEN toClient ELSE toClient \o Answer(server.str[1])
  <2>1. /\ server' \in ServerStates
        /\ server'.name = "streams" /\ server'.out = <<>> /\ server'.conn = "open"
        /\ server'.str = server.str /\ ~server'.doQuit /\ server'.pc = "loop"
    BY <1>1, <1>2, <1>4 DEF ServerStates, ServerPcs
  <2>2. Answer(server.str[1]) = Re /\ Re \in Texts /\ Re # <<>>
    <3>1. server.str[1] = "test"
      BY <1>2
    <3>2. Answer("test") = Re
      BY DEF Answer, Re, ++
    <3> QED BY <3>1, <3>2, SaidTexts
  <2>3. /\ echoed' = echoed ++ Re
        /\ toClient' = IF Gone(client) THEN toClient ELSE toClient ++ Re
    BY <1>4, <2>2 DEF ++
  <2>4. UNCHANGED <<client, keyfile, keylen, toServer, cut, heard>>
    OBVIOUS
  <2>5. Downstream' /\ echoed' \in Texts /\ toClient' \in Texts
    BY <2>2, <2>3, <2>4, SentDown
  <2>6. echoed' = Re
    BY <1>2, <2>2, <2>3, TextFacts
  <2>7. PICK lost \in Texts :
           /\ Taken ++ (toServer ++ (lost ++ client.out)) = Said(client.udata)
           /\ lost # <<>> => cut \/ client.conn # "open" \/ client.pc = "cancel"
    BY <1>2, Lost
  <2>8. Taken = Said(1) /\ Taken' = Said(1)
    BY <2>1, <2>2, <2>6 DEF Taken
  <2>9. client.udata # 0
    <3>1. client.out \in Texts /\ lost ++ client.out \in Texts
          /\ toServer ++ (lost ++ client.out) \in Texts
      BY <1>1, <1>2, Lost, Joins
    <3>2. Said(1) \in Texts /\ Said(1) # <<>>
      BY SaidTexts, LineTexts
    <3>3. Said(1) ++ (toServer ++ (lost ++ client.out)) # <<>>
      BY <3>1, <3>2, NothingJoined
    <3> QED BY <2>7, <2>8, <3>3, SaidTexts
  <2>10. StreamTypes'
    BY <2>1, <2>4, <2>5 DEF StreamInv, StreamTypes
  <2>11. ServerAt'
    BY <2>1, <2>6 DEF StreamInv, ServerAt, Ended
  <2>12. ClientAt' /\ Unconnected'
    BY <1>2, <2>1, <2>4 DEF StreamInv, ClientAt, Unconnected
  <2>13. Upstream'
    BY <2>4, <2>7, <2>8 DEF Upstream
  <2>14. Finished'
    <3>1. Answers' = Re
      <4>1. Answers' = Answers
        BY <2>1, <2>4 DEF Answers, Answer
      <4>2. Answers = Re
        BY <2>9, AnswersAre, RepliesAre DEF StreamInv
      <4> QED BY <4>1, <4>2
    <3>2. IsPrefix(Re, Re)
      <4>1. IsPrefix(Re, Re ++ <<>>) /\ Re ++ <<>> = Re
        BY <2>2, EmptyText, Prefix, TextFacts
      <4> QED BY <4>1
    <3> QED BY <2>1, <2>6, <3>1, <3>2 DEF Finished
  <2> QED BY <2>5, <2>10, <2>11, <2>12, <2>13, <2>14 DEF StreamInv
<1> QED BY <1>3, <1>4

\* A text moves from one place to the next.
LEMMA Moves ==
  ASSUME NEW e \in Texts, NEW o \in Texts, NEW s \in Texts, NEW h \in Texts,
         NEW t \in Texts, NEW z \in Texts
  PROVE  /\ (e ++ (o ++ (s ++ h))) ++ (t ++ z) = (e ++ (o ++ s)) ++ ((h ++ t) ++ z)
         /\ (e ++ (o ++ (s ++ h))) ++ (t ++ z) = ((e ++ o) ++ (s ++ h)) ++ (t ++ z)
         /\ e ++ (o ++ (s ++ h)) \in Texts /\ t ++ z \in Texts /\ s ++ h \in Texts
         /\ (h ++ t) ++ z \in Texts
<1>1. /\ e ++ o \in Texts /\ s ++ h \in Texts /\ t ++ z \in Texts /\ e ++ h \in Texts
      /\ t ++ s \in Texts /\ h ++ t \in Texts /\ o ++ s \in Texts /\ h ++ (t ++ z) \in Texts
      /\ o ++ (s ++ h) \in Texts /\ e ++ (o ++ s) \in Texts
      /\ e ++ (o ++ (s ++ h)) \in Texts /\ (h ++ t) ++ z \in Texts
  <2>1. /\ e ++ o \in Texts /\ s ++ h \in Texts /\ t ++ z \in Texts /\ e ++ h \in Texts
        /\ t ++ s \in Texts /\ h ++ t \in Texts /\ o ++ s \in Texts
    BY Joins
  <2>2. h ++ (t ++ z) \in Texts /\ o ++ (s ++ h) \in Texts /\ e ++ (o ++ s) \in Texts
        /\ (h ++ t) ++ z \in Texts
    BY <2>1, Joins
  <2>3. e ++ (o ++ (s ++ h)) \in Texts
    BY <2>2, Joins
  <2> QED BY <2>1, <2>2, <2>3
<1>2. (e ++ (o ++ (s ++ h))) ++ (t ++ z) = (e ++ (o ++ s)) ++ ((h ++ t) ++ z)
  <2>1. o ++ (s ++ h) = (o ++ s) ++ h
    BY Assoc
  <2>2. e ++ ((o ++ s) ++ h) = (e ++ (o ++ s)) ++ h
    BY <1>1, Assoc
  <2>3. ((e ++ (o ++ s)) ++ h) ++ (t ++ z) = (e ++ (o ++ s)) ++ (h ++ (t ++ z))
    BY <1>1, Assoc
  <2>4. h ++ (t ++ z) = (h ++ t) ++ z
    BY Assoc
  <2> QED BY <2>1, <2>2, <2>3, <2>4
<1>3. e ++ (o ++ (s ++ h)) = (e ++ o) ++ (s ++ h)
  BY <1>1, Assoc
<1> QED BY <1>1, <1>2, <1>3

\* Nothing is said behind "quit".
LEMMA NothingFollows ==
  ASSUME NEW u \in 0..2, NEW x \in Texts, NEW y \in Texts, (Said(2) ++ x) ++ y = Said(u)
  PROVE  u = 2 /\ x = <<>> /\ y = <<>>
<1> DEFINE q == Said(2)
<1>1. q \in Texts /\ Len(q) = 4
  <2>1. Len(Said(2)) = 2 * 2
    BY SaidAt
  <2> QED BY <2>1, SaidTexts
<1> HIDE DEF q
<1>2. q ++ x \in Texts /\ Len(q ++ x) = Len(q) + Len(x) /\ Len(x) \in Nat
  BY <1>1, Joins
<1>3. Len((q ++ x) ++ y) = Len(q ++ x) + Len(y) /\ Len(y) \in Nat
  BY <1>2, Joins
<1>4. Len((q ++ x) ++ y) = 2 * u
  BY SaidAt DEF q
<1>5. u = 2 /\ Len(x) = 0 /\ Len(y) = 0
  <2>1. 2 * u = 4 + Len(x) + Len(y)
    BY <1>1, <1>2, <1>3, <1>4
  <2>2. u \in {0, 1, 2}
    OBVIOUS
  <2>3. u # 0 /\ u # 1
    BY <1>2, <1>3, <2>1
  <2>4. u = 2
    BY <2>2, <2>3
  <2>5. 2 * 2 = 4 + Len(x) + Len(y)
    BY <2>1, <2>4
  <2>6. \A a, b \in Nat : 2 * 2 = 4 + a + b => a = 0 /\ b = 0
    OBVIOUS
  <2> QED BY <1>2, <1>3, <2>4, <2>5, <2>6
<1> QED BY <1>5, TextFacts

\* "quit" at an end of line is the line of that name.
LEMMA QuitLine == Append(<<"quit">>, "nl") = Line("quit")
<1> DEFINE q == <<"quit">>
           a == Append(q, "nl")
<1>1. q \in Seq(Symbols) /\ Len(q) = 1 /\ "nl" \in Symbols
  BY DEF Symbols
<1>2. q[1] = "quit"
  OBVIOUS
<1> HIDE DEF q
<1>3. a \in Seq(Symbols) /\ Len(a) = Len(q) + 1
      /\ (\A i \in 1..Len(q) : a[i] = q[i]) /\ a[Len(q) + 1] = "nl"
  <2>1. q \in Seq(Symbols) /\ "nl" \in Symbols
    BY <1>1
  <2> QED BY <2>1, AppendProperties
<1>4. a \in Seq(Symbols) /\ Len(a) = 2 /\ a[1] = "quit" /\ a[2] = "nl"
  BY <1>1, <1>2, <1>3
<1> HIDE DEF a
<1>5. a = <<"quit", "nl">>
  BY <1>4
<1> QED BY <1>5 DEF Line, a, q

\* test_ss.c takes what is on the wire, byte by byte, and queues a line for each
\* end of line (94-119): what is taken stays the same text, in other places.
LEMMA ssReadKeeps ==
  ASSUME StreamInv, ssRead, UNCHANGED faults
  PROVE  StreamInv'
<1> USE DEF ssRead
<1>1. /\ server \in ServerStates /\ keyfile' \in KeyFiles /\ echoed \in Texts
      /\ toServer \in Texts /\ server.str \in Texts /\ server.out \in Texts
      /\ server.conn = "open" /\ server.name = "test_ss" /\ server.pc \in {"read", "more"}
      /\ UNCHANGED <<client, keyfile, keylen, toClient, cut, echoed, heard>>
  BY DEF StreamInv, StreamTypes, ServerAt, ServerStates
<1>2. CASE toServer = <<>> /\ server' = [server EXCEPT !.pc = "loop", !.conn = "closed", !.out = <<>>]
           /\ toServer' = toServer
  <2>1. /\ server' \in ServerStates
        /\ server'.name = "test_ss" /\ server'.conn = "closed" /\ server'.pc = "loop"
    BY <1>1, <1>2, EmptyText DEF ServerStates, ServerPcs
  <2>2. ServerAt'
    BY <2>1 DEF ServerAt
  <2> QED BY <1>1, <1>2, <2>1, <2>2, ServerGoes
<1>3. CASE \E next \in {"write", "loop"} :
             server' = [server EXCEPT !.pc = next] /\ toServer' = toServer
  <2>1. /\ server' \in ServerStates
        /\ server'.name = "test_ss" /\ server'.conn = "open" /\ server'.pc \in {"write", "loop"}
        /\ server'.str = server.str /\ server'.out = server.out /\ server'.doQuit = server.doQuit
    BY <1>1, <1>3 DEF ServerStates, ServerPcs
  <2>2. ServerAt'
    BY <1>1, <2>1 DEF StreamInv, ServerAt
  <2>3. Taken' = Taken /\ toServer' = toServer
    BY <1>1, <1>3, <2>1 DEF Taken
  <2> QED BY <1>1, <2>1, <2>2, <2>3, ServerGoes
<1>4. CASE toServer # <<>> /\ toServer' = Tail(toServer)
  <2>1. CASE server' = [server EXCEPT !.pc = "cancel"] /\ "memory" \in faults
    <3>1. /\ server' \in ServerStates
          /\ server'.name = "test_ss" /\ server'.conn = "open" /\ server'.pc = "cancel"
          /\ server'.str = server.str /\ server'.out = server.out /\ server'.doQuit = server.doQuit
      BY <1>1, <2>1 DEF ServerStates, ServerPcs
    <3>2. ServerAt' /\ toServer' \in Texts
      BY <1>1, <1>4, <3>1, TextFacts DEF ServerAt
    <3> QED BY <1>1, <2>1, <3>1, <3>2, ServerGoes
  <2> DEFINE e == echoed
             o == server.out
             s == server.str
             ch == Head(toServer)
             h == <<ch>>
             t == Tail(toServer)
  <2>2. PICK lost \in Texts :
           /\ Taken ++ (toServer ++ (lost ++ client.out)) = Said(client.udata)
           /\ lost # <<>> => cut \/ client.conn # "open" \/ client.pc = "cancel"
    BY <1>1, Lost
  <2> DEFINE z == lost ++ client.out
  <2>3. z \in Texts /\ client.udata \in 0..2
    BY <1>1, Lost, Joins
  <2>4. h \in Texts /\ ch \in Symbols /\ t \in Texts /\ toServer = h ++ t /\ Append(s, ch) = s ++ h
        /\ toServer' = t
    BY <1>1, <1>4, TextFacts
  <2>5. (e ++ (o ++ s)) ++ ((h ++ t) ++ z) = Said(client.udata)
    BY <1>1, <2>2, <2>4 DEF Taken
  <2>m. /\ (e ++ (o ++ (s ++ h))) ++ (t ++ z) = (e ++ (o ++ s)) ++ ((h ++ t) ++ z)
        /\ (e ++ (o ++ (s ++ h))) ++ (t ++ z) = ((e ++ o) ++ (s ++ h)) ++ (t ++ z)
    <3>1. e \in Texts /\ o \in Texts /\ s \in Texts /\ h \in Texts /\ t \in Texts /\ z \in Texts
      BY <1>1, <2>3, <2>4
    <3> HIDE DEF e, o, s, h, t, z
    <3> QED BY <3>1, Moves
  <2>6. ASSUME server' \in ServerStates, server'.name = "test_ss", server'.conn = "open",
               server'.pc = "more", Taken' = e ++ (o ++ (s ++ h)),
               server'.doQuit => echoed ++ server'.out = Said(2)
        PROVE  StreamInv'
    <3>1. StreamTypes'
      BY <1>1, <2>4, <2>6 DEF StreamInv, StreamTypes
    <3>2. ServerAt'
      BY <1>1, <2>6 DEF ServerAt
    <3>3. ClientAt' /\ Unconnected' /\ Downstream'
      BY <1>1, <2>6 DEF StreamInv, ClientAt, Unconnected, Downstream
    <3>4. Upstream'
      <4>1. Taken' ++ (toServer' ++ (lost ++ client.out)) = Said(client.udata)
        BY <2>4, <2>5, <2>6, <2>m, <1>1
      <4> QED BY <1>1, <2>2, <4>1 DEF Upstream
    <3>5. Finished'
      <4>1. Answers' = Answers
        BY <1>1, <2>6 DEF Answers, Answer
      <4> QED BY <1>1, <2>6, <4>1 DEF StreamInv, Finished
    <3> QED BY <3>1, <3>2, <3>3, <3>4, <3>5 DEF StreamInv
  <2>7. CASE server' = [server EXCEPT !.str = Append(@, ch), !.pc = "more"]
    <3>1. /\ server' \in ServerStates
          /\ server'.name = "test_ss" /\ server'.conn = "open" /\ server'.pc = "more"
          /\ server'.str = s ++ h /\ server'.out = o /\ server'.doQuit = server.doQuit
      <4>1. s ++ h \in Texts
        BY <1>1, <2>4, Joins
      <4> QED BY <1>1, <2>4, <2>7, <4>1 DEF ServerStates, ServerPcs
    <3>2. Taken' = e ++ (o ++ (s ++ h))
      BY <1>1, <3>1 DEF Taken
    <3>3. server'.doQuit => echoed ++ server'.out = Said(2)
      BY <1>1, <3>1 DEF StreamInv, ServerAt
    <3> QED BY <2>6, <3>1, <3>2, <3>3
  <2>8. CASE ch = "nl" /\ server' = AtNewline(s)
    <3>1. Append(s, "nl") = s ++ h /\ s ++ h \in Texts /\ o ++ (s ++ h) \in Texts
      BY <1>1, <2>4, <2>8, Joins
    <3>2. /\ server' \in ServerStates
          /\ server'.name = "test_ss" /\ server'.conn = "open" /\ server'.pc = "more"
          /\ server'.str = <<>> /\ server'.out = o ++ (s ++ h)
          /\ server'.doQuit = (server.doQuit \/ s = <<"quit">>)
      <4>1. server' = [server EXCEPT !.str = <<>>, !.out = o ++ (s ++ h),
                         !.doQuit = server.doQuit \/ s = <<"quit">>, !.pc = "more"]
        BY <1>1, <2>8, <3>1 DEF AtNewline, ServerStates, ++
      <4>2. (server.doQuit \/ s = <<"quit">>) \in BOOLEAN
        OBVIOUS
      <4> QED BY <1>1, <3>1, <4>1, <4>2, EmptyText DEF ServerStates, ServerPcs
    <3>3. Taken' = e ++ (o ++ (s ++ h))
      <4>1. (o ++ (s ++ h)) ++ <<>> = o ++ (s ++ h)
        BY <3>1, TextFacts
      <4> QED BY <1>1, <3>2, <4>1 DEF Taken
    <3>4. CASE server.doQuit
      <4>1. e ++ o = Said(2)
        BY <1>1, <3>4 DEF StreamInv, ServerAt
      <4>2. e ++ (o ++ s) = (e ++ o) ++ s
        BY <1>1, Assoc
      <4>3. (h ++ t) ++ z = <<>>
        <5>1. (Said(2) ++ s) ++ ((h ++ t) ++ z) = Said(client.udata)
          BY <2>5, <4>1, <4>2
        <5>2. (h ++ t) ++ z \in Texts
          BY <1>1, <2>3, <2>4, Moves
        <5> QED BY <1>1, <2>3, <5>1, <5>2, NothingFollows
      <4>4. h ++ t = <<>>
        BY <1>1, <2>3, <2>4, <4>3, NothingJoined
      <4> QED BY <1>4, <2>4, <4>4
    <3>5. CASE ~server.doQuit
      <4>1. ASSUME s = <<"quit">>
            PROVE  echoed ++ server'.out = Said(2)
        <5>1. s ++ h = Line("quit")
          <6>1. Append(<<"quit">>, "nl") = Line("quit")
            BY QuitLine
          <6> QED BY <3>1, <4>1, <6>1
        <5>2. ((e ++ o) ++ Line("quit")) ++ (t ++ z) = Said(client.udata)
          BY <2>5, <2>m, <5>1
        <5>3. (e ++ o) ++ Line("quit") = Said(2)
          <6>1. e ++ o \in Texts /\ t ++ z \in Texts
            BY <1>1, <2>3, <2>4, Joins
          <6> QED BY <2>3, <5>2, <6>1, Quits
        <5>4. e ++ (o ++ Line("quit")) = (e ++ o) ++ Line("quit")
          BY <1>1, LineTexts, Assoc
        <5> QED BY <3>2, <5>1, <5>3, <5>4
      <4>2. server'.doQuit => echoed ++ server'.out = Said(2)
        BY <3>2, <3>5, <4>1
      <4> QED BY <2>6, <3>2, <3>3, <4>2
    <3> QED BY <3>4, <3>5
  <2> QED BY <1>4, <2>1, <2>7, <2>8
<1> QED BY <1>2, <1>3, <1>4

\* What was queued is echoed.
LEMMA MovesOver ==
  ASSUME NEW e \in Texts, NEW a \in Texts, NEW r \in Texts, NEW s \in Texts
  PROVE  /\ (e ++ a) ++ (r ++ s) = e ++ ((a ++ r) ++ s)
         /\ e ++ a \in Texts
<1>1. e ++ a \in Texts /\ r ++ s \in Texts /\ a ++ r \in Texts
  BY Joins
<1>2. (e ++ a) ++ (r ++ s) = e ++ (a ++ (r ++ s))
  BY <1>1, Assoc
<1>3. a ++ (r ++ s) = (a ++ r) ++ s
  BY Assoc
<1> QED BY <1>1, <1>2, <1>3

\* The library writes a part of what test_ss.c has queued (libsam3a.c:1423-1458),
\* and cbSent ends the server when a "quit" is answered (84-92).
LEMMA ssWriteKeeps ==
  ASSUME StreamInv, ssWrite, UNCHANGED faults
  PROVE  StreamInv'
<1>1. /\ server \in ServerStates /\ keyfile' \in KeyFiles /\ echoed \in Texts
      /\ toServer \in Texts /\ server.str \in Texts /\ server.out \in Texts
      /\ server.conn = "open" /\ server.name = "test_ss" /\ server.pc = "write"
      /\ UNCHANGED <<client, keyfile, keylen, toServer, cut, heard>>
  BY DEF ssWrite, StreamInv, StreamTypes, ServerAt, ServerStates
<1>2. CASE server.out = <<>> /\ server' = [server EXCEPT !.pc = "loop"]
           /\ UNCHANGED <<echoed, toClient>>
  <2>1. /\ server' \in ServerStates
        /\ server'.name = "test_ss" /\ server'.conn = "open" /\ server'.pc = "loop"
        /\ server'.str = server.str /\ server'.out = server.out /\ server'.doQuit = server.doQuit
    BY <1>1, <1>2 DEF ServerStates, ServerPcs
  <2>2. ServerAt'
    BY <1>1, <1>2, <2>1 DEF StreamInv, ServerAt
  <2>3. Taken' = Taken
    BY <1>1, <1>2, <2>1 DEF Taken
  <2> QED BY <1>1, <1>2, <2>1, <2>2, <2>3, ServerGoes
<1>3. CASE server' = [server EXCEPT !.pc = "loop", !.conn = "closed", !.out = <<>>]
           /\ UNCHANGED <<echoed, toClient>>
  <2>1. /\ server' \in ServerStates
        /\ server'.name = "test_ss" /\ server'.conn = "closed" /\ server'.pc = "loop"
    BY <1>1, <1>3, EmptyText DEF ServerStates, ServerPcs
  <2>2. ServerAt'
    BY <2>1 DEF ServerAt
  <2> QED BY <1>1, <1>3, <2>1, <2>2, ServerGoes
<1>4. ASSUME NEW n \in 1..Len(server.out),
             echoed' = echoed \o SubSeq(server.out, 1, n),
             toClient' = IF Gone(client) THEN toClient
                         ELSE toClient \o SubSeq(server.out, 1, n),
             server' = [server EXCEPT !.out = SubSeq(@, n + 1, Len(@)),
                          !.pc = IF n = Len(server.out) THEN ccbSentServer ELSE "loop"]
      PROVE  StreamInv'
  <2> DEFINE e == echoed
             o == server.out
             s == server.str
             a == SubSeq(o, 1, n)
             r == SubSeq(o, n + 1, Len(o))
  <2>1. a \in Texts /\ r \in Texts /\ a ++ r = o /\ (n = Len(o) <=> r = <<>>)
    BY <1>1, CutTexts
  <2>2. e \in Texts /\ o \in Texts /\ s \in Texts
    BY <1>1
  <2>3. /\ server' \in ServerStates
        /\ server'.name = "test_ss" /\ server'.conn = "open"
        /\ server'.str = s /\ server'.out = r /\ server'.doQuit = server.doQuit
        /\ \/ server'.pc = "loop"
           \/ server'.pc = "cancel" /\ r = <<>> /\ server.doQuit
    <3>1. ccbSentServer \in {"cancel", "loop"} /\ (ccbSentServer = "cancel" => server.doQuit)
      BY DEF ccbSentServer
    <3>2. (IF n = Len(server.out) THEN ccbSentServer ELSE "loop") \in {"cancel", "loop"}
      BY <3>1
    <3> QED BY <1>1, <1>4, <2>1, <3>1, <3>2 DEF ServerStates, ServerPcs
  <2>4. echoed' = e ++ a /\ toClient' = IF Gone(client) THEN toClient ELSE toClient ++ a
    BY <1>4 DEF ++
  <2>5. Downstream' /\ echoed' \in Texts /\ toClient' \in Texts
    BY <1>1, <2>1, <2>4, SentDown
  <2>6. (e ++ a) ++ (r ++ s) = e ++ (o ++ s) /\ (e ++ a) ++ r = e ++ o
    <3> HIDE DEF e, o, s, a, r
    <3>1. (e ++ a) ++ (r ++ s) = e ++ ((a ++ r) ++ s)
      BY <2>1, <2>2, MovesOver
    <3>2. (e ++ a) ++ r = e ++ (a ++ r)
      BY <2>1, <2>2, Assoc
    <3> QED BY <2>1, <3>1, <3>2
  <2>7. Taken = e ++ (o ++ s) /\ Taken' = (e ++ a) ++ (r ++ s) /\ Taken' = Taken
    <3>1. Taken = e ++ (o ++ s)
      BY <1>1 DEF Taken
    <3>2. Taken' = (e ++ a) ++ (r ++ s)
      BY <2>3, <2>4 DEF Taken
    <3> QED BY <2>6, <3>1, <3>2
  <2>8. server.doQuit => echoed' ++ server'.out = Said(2)
    <3>1. server.doQuit => e ++ o = Said(2)
      BY <1>1 DEF StreamInv, ServerAt
    <3> QED BY <2>3, <2>4, <2>6, <3>1
  <2>9. StreamTypes'
    BY <1>1, <2>3, <2>5 DEF StreamInv, StreamTypes
  <2>10. ServerAt'
    BY <2>3, <2>8 DEF ServerAt
  <2>11. ClientAt' /\ Unconnected'
    BY <1>1, <2>3 DEF StreamInv, ClientAt, Unconnected
  <2>12. Upstream'
    <3>1. PICK lost \in Texts :
             /\ Taken ++ (toServer ++ (lost ++ client.out)) = Said(client.udata)
             /\ lost # <<>> => cut \/ client.conn # "open" \/ client.pc = "cancel"
      BY <1>1, Lost
    <3>2. Taken' ++ (toServer' ++ (lost ++ client'.out)) = Said(client'.udata)
      BY <1>1, <2>7, <3>1
    <3>3. lost # <<>> => cut' \/ client'.conn # "open" \/ client'.pc = "cancel"
      BY <1>1, <3>1
    <3> QED BY <3>2, <3>3 DEF Upstream
  <2>13. Finished'
    <3>1. Answers' = Said(client.udata)
      <4>1. Answers' = Answers
        BY <1>1, <2>3 DEF Answers, Answer
      <4>2. Answers = Said(client.udata)
        BY <1>1, AnswersAre, RepliesAre DEF StreamInv
      <4> QED BY <4>1, <4>2
    <3>2. IsPrefix(echoed', Said(client.udata))
      <4>1. PICK lost \in Texts :
               Taken ++ (toServer ++ (lost ++ client.out)) = Said(client.udata)
        BY <1>1, Lost
      <4> DEFINE z == toServer ++ (lost ++ client.out)
      <4>2. z \in Texts
        <5>1. lost ++ client.out \in Texts
          BY <1>1, Lost, Joins
        <5> QED BY <1>1, <5>1, Joins
      <4>3. ((e ++ a) ++ (r ++ s)) ++ z = Said(client.udata)
        BY <2>7, <4>1
      <4> HIDE DEF e, a, r, s, z
      <4>4. ((e ++ a) ++ (r ++ s)) ++ z = (e ++ a) ++ ((r ++ s) ++ z)
            /\ e ++ a \in Texts /\ (r ++ s) ++ z \in Texts
        <5>1. e \in Texts /\ a \in Texts /\ r \in Texts /\ s \in Texts
          BY <2>1, <2>2
        <5>2. e ++ a \in Texts /\ r ++ s \in Texts
          BY <5>1, Joins
        <5>3. (r ++ s) ++ z \in Texts
          BY <4>2, <5>2, Joins
        <5> QED BY <4>2, <5>2, <5>3, Assoc
      <4>5. IsPrefix(e ++ a, (e ++ a) ++ ((r ++ s) ++ z))
        BY <4>4, Prefix
      <4> QED BY <2>4, <4>3, <4>4, <4>5
    <3>3. server'.pc \in {"cancel", "done"} /\ server'.doQuit => echoed' = Said(2)
      <4>1. ASSUME server'.pc = "cancel"
            PROVE  echoed' = Said(2)
        <5>1. r = <<>> /\ server.doQuit
          BY <2>3, <4>1
        <5>2. echoed' ++ <<>> = Said(2)
          BY <2>3, <2>8, <5>1
        <5> QED BY <2>5, <5>2, TextFacts
      <4> QED BY <2>3, <4>1
    <3> QED BY <3>1, <3>2, <3>3 DEF Finished
  <2> QED BY <2>5, <2>9, <2>10, <2>11, <2>12, <2>13 DEF StreamInv
<1> QED BY <1>2, <1>3, <1>4 DEF ssWrite

-----------------------------------------------------------------------------
(* Steps of the client.                                                    *)

\* A step that sends nothing; what was to be written or read may be thrown away.
LEMMA ClientGoes ==
  ASSUME StreamInv,
         UNCHANGED <<faults, keyfile, keylen, cut, server, toServer, echoed, heard>>,
         client' \in ClientStates, ClientAt',
         client'.name = client.name, client'.udata = client.udata,
         client'.conn = "none" => client.conn = "none",
         client'.conn = "open" => client.conn = "open",
         client'.out = client.out \/ (client'.out = <<>> /\ client'.conn # "open"),
         client.pc = "cancel" => client'.pc = "cancel" \/ client'.conn # "open",
         toClient' = toClient \/ (toClient' = <<>> /\ client'.conn # "open")
  PROVE  StreamInv'
<1>1. toClient' \in Texts /\ toClient \in Texts /\ client.out \in Texts /\ toServer \in Texts
  BY EmptyText DEF StreamInv, StreamTypes, ClientStates
<1>2. StreamTypes'
  BY <1>1 DEF StreamInv, StreamTypes
<1>3. ServerAt'
  BY DEF StreamInv, ServerAt
<1>4. Unconnected'
  BY DEF StreamInv, Unconnected
<1>5. Upstream'
  <2>1. SUFFICES ASSUME server.conn = "open", server.pc \notin {"cancel", "error", "spin"}
                 PROVE  \E lost \in Texts :
                          /\ Taken' ++ (toServer' ++ (lost ++ client'.out)) = Said(client'.udata)
                          /\ lost # <<>> => cut' \/ client'.conn # "open" \/ client'.pc = "cancel"
    BY DEF Upstream
  <2>2. PICK lost \in Texts :
           /\ Taken ++ (toServer ++ (lost ++ client.out)) = Said(client.udata)
           /\ lost # <<>> => cut \/ client.conn # "open" \/ client.pc = "cancel"
    BY <2>1, Lost
  <2>3. Taken' = Taken
    BY DEF Taken
  <2>4. CASE client'.out = client.out
    BY <2>2, <2>3, <2>4
  <2>5. CASE client'.out = <<>> /\ client'.conn # "open"
    <3>1. lost ++ client.out \in Texts
      BY <1>1, Joins
    <3>2. (lost ++ client.out) ++ <<>> = lost ++ client.out
      BY <3>1, TextFacts
    <3> QED BY <2>2, <2>3, <2>5, <3>1, <3>2
  <2> QED BY <2>4, <2>5
<1>6. Downstream'
  <2>1. PICK lost \in Texts : /\ heard ++ (toClient ++ lost) = echoed
                              /\ lost # <<>> => cut \/ client.conn # "open"
    BY DEF StreamInv, Downstream
  <2>2. CASE toClient' = toClient
    BY <2>1, <2>2 DEF Downstream
  <2>3. CASE toClient' = <<>> /\ client'.conn # "open"
    <3>1. toClient ++ lost \in Texts
      BY <1>1, Joins
    <3>2. <<>> ++ (toClient ++ lost) = toClient ++ lost
      BY <3>1, TextFacts
    <3>3. heard' ++ (toClient' ++ (toClient ++ lost)) = echoed'
      BY <2>1, <2>3, <3>2
    <3> QED BY <2>3, <3>1, <3>3 DEF Downstream
  <2> QED BY <2>2, <2>3
<1>7. Finished'
  <2>1. Answers' = Answers
    BY DEF Answers, Answer
  <2> QED BY <2>1 DEF StreamInv, Finished
<1> QED BY <1>2, <1>3, <1>4, <1>5, <1>6, <1>7 DEF StreamInv

\* More lines have more answers.
LEMMA MoreAnswers ==
  ASSUME StreamInv, StreamTypes', server' = server, echoed' = echoed, faults' = faults,
         client.udata <= client'.udata, NEW m \in Texts,
         Said(client'.udata) = Said(client.udata) ++ m
  PROVE  Finished'
<1>1. IsPrefix(echoed, Answers) /\ echoed \in Texts /\ Answers \in Texts /\ Answers' \in Texts
  BY AnswersAre, RepliesAre DEF StreamInv, Finished, StreamTypes
<1>2. CASE server.name = "test_ss"
  <2>1. Answers' = Answers ++ m
    <3>1. Answers = Said(client.udata)
      BY <1>2, AnswersAre, RepliesAre DEF StreamInv
    <3>2. Answers' = Said(client'.udata)
      <4>1. server'.name = "test_ss"
        BY <1>2
      <4> QED BY <4>1, AnswersAre, RepliesAre
    <3> QED BY <3>1, <3>2
  <2>2. IsPrefix(echoed, Answers ++ m)
    BY <1>1, Prefix
  <2> QED BY <2>1, <2>2 DEF StreamInv, Finished
<1>3. CASE server.name = "streams"
  <2>1. Answers = IF client.udata = 0 THEN <<>> ELSE Re
    BY <1>3, AnswersAre, RepliesAre DEF StreamInv
  <2>2. Answers' = IF client'.udata = 0 THEN <<>> ELSE Re
    <3>1. server'.name = "streams"
      BY <1>3
    <3> QED BY <3>1, AnswersAre, RepliesAre
  <2>3. CASE client.udata # 0
    <3>1. client'.udata # 0
      BY <2>3 DEF StreamInv, StreamTypes, ClientStates
    <3> QED BY <2>1, <2>2, <2>3, <3>1 DEF StreamInv, Finished
  <2>4. CASE client.udata = 0
    <3>1. echoed = <<>>
      <4>1. Len(echoed) <= Len(<<>>) /\ (Len(echoed) = Len(<<>>) => echoed = <<>>)
        BY <1>1, <2>1, <2>4, EmptyText, Prefix
      <4>2. Len(<<>>) = 0 /\ Len(echoed) \in Nat
        BY <1>1, TextFacts
      <4> QED BY <4>1, <4>2
    <3>2. IsPrefix(<<>>, Answers')
      <4>1. IsPrefix(<<>>, <<>> ++ Answers') /\ <<>> ++ Answers' = Answers'
        BY <1>1, EmptyText, Prefix, TextFacts
      <4> QED BY <4>1
    <3> QED BY <1>3, <3>1, <3>2 DEF StreamInv, Finished
  <2> QED BY <2>3, <2>4
<1> QED BY <1>2, <1>3 DEF StreamInv, StreamTypes, ServerStates

\* A step that says m more, writes a, loses x and leaves y to be written.
LEMMA ClientSays ==
  ASSUME StreamInv, NEW m \in Texts, NEW a \in Texts, NEW x \in Texts, NEW y \in Texts,
         UNCHANGED <<faults, keyfile, keylen, cut, server, toClient, echoed, heard>>,
         client' \in ClientStates, ClientAt', client'.name = client.name,
         client'.conn = client.conn, client.conn # "none",
         server.conn = "open" => client.conn = "open" /\ client.pc # "cancel",
         client.udata <= client'.udata, Said(client'.udata) = Said(client.udata) ++ m,
         client'.out = y, client.out ++ m = a ++ (x ++ y),
         x # <<>> => client'.pc = "cancel",
         toServer' = IF Gone(server) THEN toServer ELSE toServer ++ a
  PROVE  StreamInv'
<1>1. toServer \in Texts /\ client.out \in Texts /\ toServer' \in Texts
  BY Joins DEF StreamInv, StreamTypes, ClientStates
<1>2. StreamTypes'
  BY <1>1 DEF StreamInv, StreamTypes
<1>3. ServerAt'
  BY DEF StreamInv, ServerAt
<1>4. Unconnected'
  BY DEF StreamInv, Unconnected, Gone
<1>5. Upstream'
  <2>1. SUFFICES ASSUME server.conn = "open", server.pc \notin {"cancel", "error", "spin"}
                 PROVE  \E lost \in Texts :
                          /\ Taken' ++ (toServer' ++ (lost ++ client'.out)) = Said(client'.udata)
                          /\ lost # <<>> => cut' \/ client'.conn # "open" \/ client'.pc = "cancel"
    BY DEF Upstream
  <2> DEFINE k == Taken
             w == toServer
             o == client.out
             said == Said(client.udata)
  <2>2. PICK lost \in Texts :
           /\ k ++ (w ++ (lost ++ o)) = said
           /\ lost # <<>> => cut \/ client.conn # "open" \/ client.pc = "cancel"
    BY <2>1, Lost
  <2>3. k \in Texts /\ Taken' = k
    <3>1. /\ echoed \in Texts /\ server.out \in Texts /\ server.str \in Texts
          /\ server.out ++ server.str \in Texts
      BY Joins DEF StreamInv, StreamTypes, ServerStates
    <3> QED BY <3>1, Joins, SaidTexts, EmptyText DEF Taken
  <2>4. w \in Texts /\ o \in Texts /\ o ++ m = a ++ (x ++ y)
    BY <1>1
  <2> HIDE DEF k, w, o, said
  <2>5. said ++ m = k ++ (w ++ (lost ++ (a ++ (x ++ y))))
    <3>1. lost ++ o \in Texts /\ o ++ m \in Texts
      BY <2>4, Joins
    <3>2. w ++ (lost ++ o) \in Texts
      BY <2>4, <3>1, Joins
    <3>3. (k ++ (w ++ (lost ++ o))) ++ m = k ++ ((w ++ (lost ++ o)) ++ m)
      BY <2>3, <3>2, Assoc
    <3>4. (w ++ (lost ++ o)) ++ m = w ++ ((lost ++ o) ++ m)
      BY <2>4, <3>1, Assoc
    <3>5. (lost ++ o) ++ m = lost ++ (o ++ m)
      BY <2>4, Assoc
    <3> QED BY <2>2, <2>4, <3>3, <3>4, <3>5
  <2>6. Said(client'.udata) = said ++ m /\ client'.out = y
    BY DEF said
  <2>7. CASE ~cut
    <3>1. lost = <<>> /\ toServer' = w ++ a
      BY <2>1, <2>2, <2>7 DEF Gone, w
    <3>2. a ++ (x ++ y) \in Texts /\ x ++ y \in Texts
      <4>1. x ++ y \in Texts
        BY Joins
      <4> QED BY <4>1, Joins
    <3>3. <<>> ++ (a ++ (x ++ y)) = a ++ (x ++ y)
      BY <3>2, TextFacts
    <3>4. w ++ (a ++ (x ++ y)) = (w ++ a) ++ (x ++ y)
      BY <2>4, <3>2, Assoc
    <3>5. Taken' ++ (toServer' ++ (x ++ client'.out)) = Said(client'.udata)
      BY <2>3, <2>5, <2>6, <3>1, <3>3, <3>4
    <3> QED BY <3>5
  <2>8. CASE cut
    <3>1. toServer' = w
      BY <2>8 DEF Gone, w
    <3>2. lost ++ (a ++ (x ++ y)) = (lost ++ (a ++ x)) ++ y /\ lost ++ (a ++ x) \in Texts
      <4>1. a ++ x \in Texts
        BY Joins
      <4>2. a ++ (x ++ y) = (a ++ x) ++ y
        BY Assoc
      <4>3. lost ++ ((a ++ x) ++ y) = (lost ++ (a ++ x)) ++ y
        BY <4>1, Assoc
      <4> QED BY <4>1, <4>2, <4>3, Joins
    <3>3. Taken' ++ (toServer' ++ ((lost ++ (a ++ x)) ++ client'.out)) = Said(client'.udata)
      BY <2>3, <2>5, <2>6, <3>1, <3>2
    <3> QED BY <2>8, <3>2, <3>3
  <2> QED BY <2>7, <2>8
<1>6. Downstream'
  BY DEF StreamInv, Downstream
<1>7. Finished'
  BY <1>2, MoreAnswers
<1> QED BY <1>2, <1>3, <1>4, <1>5, <1>6, <1>7 DEF StreamInv

\* A step that reads a, which was the next on the wire.
LEMMA ClientHears ==
  ASSUME StreamInv, NEW a \in Texts, NEW r \in Texts,
         UNCHANGED <<faults, keyfile, keylen, cut, server, toServer, echoed>>,
         client' \in ClientStates, ClientAt', client'.name = client.name,
         client'.conn = client.conn, client.conn # "none",
         client'.udata = client.udata, client'.out = client.out, client.pc # "cancel",
         toClient = a ++ r, toClient' = r, heard' = heard ++ a
  PROVE  StreamInv'
<1>1. heard \in Texts /\ heard' \in Texts /\ toClient' \in Texts
  BY Joins DEF StreamInv, StreamTypes
<1>2. StreamTypes'
  BY <1>1 DEF StreamInv, StreamTypes
<1>3. ServerAt'
  BY DEF StreamInv, ServerAt
<1>4. Unconnected'
  <2>1. server.conn \in {"none", "listening"} => heard' = <<>> /\ toClient' = <<>>
    <3>1. server.conn \in {"none", "listening"} => a ++ r = <<>> /\ heard = <<>>
      BY DEF StreamInv, Unconnected
    <3>2. a ++ r = <<>> => a = <<>> /\ r = <<>>
      BY NothingJoined
    <3> QED BY <3>1, <3>2, EmptyText, TextFacts
  <2> QED BY <2>1 DEF StreamInv, Unconnected
<1>5. Upstream'
  <2>1. Taken' = Taken
    BY DEF Taken
  <2> QED BY <2>1 DEF StreamInv, Upstream
<1>6. Downstream'
  <2> DEFINE h == heard
  <2>1. PICK lost \in Texts : h ++ ((a ++ r) ++ lost) = echoed /\ (lost # <<>> => cut \/ client.conn # "open")
    BY DEF StreamInv, Downstream
  <2>2. h \in Texts
    BY <1>1
  <2> HIDE DEF h
  <2>3. (h ++ a) ++ (r ++ lost) = h ++ ((a ++ r) ++ lost)
    BY <2>2, MovesOver
  <2>4. heard' ++ (toClient' ++ lost) = echoed'
    BY <2>1, <2>3 DEF h
  <2> QED BY <2>1, <2>4 DEF Downstream
<1>7. Finished'
  <2>1. Answers' = Answers
    BY DEF Answers, Answer
  <2> QED BY <2>1 DEF StreamInv, Finished
<1> QED BY <1>2, <1>3, <1>4, <1>5, <1>6, <1>7 DEF StreamInv

\* The stream comes into being; the client says x and y, loses x and leaves y
\* to be written.
LEMMA Connects ==
  ASSUME StreamInv, NEW x \in Texts, NEW y \in Texts,
         client.conn = "none", server.conn = "listening",
         server' = [server EXCEPT !.conn = "open"],
         UNCHANGED <<faults, keyfile, keylen, cut, toServer, toClient, echoed, heard>>,
         client' \in ClientStates, ClientAt', client'.name = client.name,
         client'.conn = "open", Said(client'.udata) = x ++ y, client'.out = y,
         x # <<>> => client'.pc = "cancel"
  PROVE  StreamInv'
<1>1. /\ server \in ServerStates /\ server.str = <<>> /\ server.out = <<>> /\ ~server.doQuit
      /\ server.pc \in {"accept", "loop"}
      /\ toServer = <<>> /\ toClient = <<>> /\ echoed = <<>> /\ heard = <<>>
  BY DEF StreamInv, StreamTypes, ServerAt, Unconnected
<1>2. /\ server' \in ServerStates /\ server'.name = server.name /\ server'.pc = server.pc
      /\ server'.str = <<>> /\ server'.out = <<>> /\ ~server'.doQuit /\ server'.conn = "open"
  BY <1>1 DEF ServerStates
<1>3. StreamTypes'
  BY <1>2 DEF StreamInv, StreamTypes
<1>4. ServerAt'
  BY <1>1, <1>2 DEF StreamInv, ServerAt, Ended
<1>5. Unconnected'
  BY <1>2 DEF Unconnected
<1>6. Upstream'
  <2>1. Taken' = <<>>
    <3>1. <<>> ++ (<<>> ++ <<>>) = <<>>
      BY EmptyText, TextFacts
    <3> QED BY <1>1, <1>2, <3>1 DEF Taken
  <2>2. <<>> ++ (<<>> ++ (x ++ y)) = x ++ y
    <3>1. x ++ y \in Texts
      BY Joins
    <3> QED BY <3>1, TextFacts
  <2>3. Taken' ++ (toServer' ++ (x ++ client'.out)) = Said(client'.udata)
    BY <1>1, <2>1, <2>2
  <2> QED BY <2>3 DEF Upstream
<1>7. Downstream'
  <2>1. <<>> ++ (<<>> ++ <<>>) = <<>>
    BY EmptyText, TextFacts
  <2>2. heard' ++ (toClient' ++ <<>>) = echoed'
    BY <1>1, <2>1
  <2> QED BY <2>2, EmptyText DEF Downstream
<1>8. Finished'
  <2>1. Answers' \in Texts
    BY <1>3, AnswersAre, RepliesAre
  <2>2. IsPrefix(<<>>, <<>> ++ Answers') /\ <<>> ++ Answers' = Answers'
    BY <2>1, EmptyText, Prefix, TextFacts
  <2> QED BY <1>1, <1>2, <2>2 DEF Finished
<1> QED BY <1>3, <1>4, <1>5, <1>6, <1>7, <1>8 DEF StreamInv

\* The next line is what is said next.
LEMMA SaysOn ==
  ASSUME NEW u \in 0..1
  PROVE  LET word == <<"test", "quit">>[u + 1]
         IN /\ word = (IF u = 0 THEN "test" ELSE "quit")
            /\ Line(word) \in Texts
            /\ Said(u + 1) = Said(u) ++ Line(word)
<1>1. CASE u = 0
  <2>1. <<>> ++ Line("test") = Line("test")
    BY LineTexts, TextFacts
  <2> QED BY <1>1, <2>1, LineTexts, SaidTexts
<1>2. CASE u = 1
  <2>1. u + 1 = 2
    BY <1>2
  <2> QED BY <1>2, <2>1, LineTexts, SaidTexts
<1> QED BY <1>1, <1>2

\* The tunnel breaks: what was on the wire is lost, on both ways.
LEMMA CutKeeps ==
  ASSUME StreamInv, Cut, UNCHANGED faults
  PROVE  StreamInv'
<1> USE DEF Cut
<1>1. toServer \in Texts /\ toClient \in Texts /\ client.out \in Texts
  BY DEF StreamInv, StreamTypes, ClientStates
<1>2. StreamTypes'
  BY EmptyText DEF StreamInv, StreamTypes
<1>3. ClientAt' /\ ServerAt' /\ Unconnected'
  BY DEF StreamInv, ClientAt, ServerAt, Unconnected
<1>4. Upstream'
  <2>1. SUFFICES ASSUME server.conn = "open", server.pc \notin {"cancel", "error", "spin"}
                 PROVE  \E lost \in Texts :
                          Taken' ++ (toServer' ++ (lost ++ client'.out)) = Said(client'.udata)
    BY DEF Upstream
  <2>2. PICK lost \in Texts : Taken ++ (toServer ++ (lost ++ client.out)) = Said(client.udata)
    BY <2>1, Lost
  <2>3. Taken' = Taken
    BY DEF Taken
  <2>4. toServer ++ lost \in Texts /\ (toServer ++ lost) ++ client.out \in Texts
    <3>1. toServer ++ lost \in Texts
      BY <1>1, Joins
    <3> QED BY <1>1, <3>1, Joins
  <2>5. /\ (toServer ++ lost) ++ client.out = toServer ++ (lost ++ client.out)
        /\ <<>> ++ ((toServer ++ lost) ++ client.out) = (toServer ++ lost) ++ client.out
    <3>1. (toServer ++ lost) ++ client.out = toServer ++ (lost ++ client.out)
      BY <1>1, Assoc
    <3>2. <<>> ++ ((toServer ++ lost) ++ client.out) = (toServer ++ lost) ++ client.out
      BY <2>4, TextFacts
    <3> QED BY <3>1, <3>2
  <2>6. Taken' ++ (toServer' ++ ((toServer ++ lost) ++ client'.out)) = Said(client'.udata)
    BY <2>2, <2>3, <2>5
  <2> QED BY <2>4, <2>6
<1>5. Downstream'
  <2>1. PICK lost \in Texts : heard ++ (toClient ++ lost) = echoed
    BY DEF StreamInv, Downstream
  <2>2. toClient ++ lost \in Texts
    BY <1>1, Joins
  <2>3. <<>> ++ (toClient ++ lost) = toClient ++ lost
    BY <2>2, TextFacts
  <2>4. heard' ++ (toClient' ++ (toClient ++ lost)) = echoed'
    BY <2>1, <2>3
  <2> QED BY <2>2, <2>4 DEF Downstream
<1>6. Finished'
  <2>1. Answers' = Answers
    BY DEF Answers, Answer
  <2> QED BY <2>1 DEF StreamInv, Finished
<1> QED BY <1>2, <1>3, <1>4, <1>5, <1>6 DEF StreamInv

\* The client where it stands, and a step that only changes where.
LEMMA ClientNow ==
  ASSUME StreamInv
  PROVE  /\ client \in ClientStates /\ ClientAt /\ keyfile \in KeyFiles
         /\ client.out \in Texts /\ client.udata \in 0..2 /\ "fresh" \in KeyFiles /\ "stale" \in KeyFiles
         /\ client.conn = "none" => server.conn # "open"
BY DEF StreamInv, StreamTypes, ClientStates, Unconnected, KeyFiles

\* streamc.c finds a key (43-64).
LEMMA streamcKeyKeeps ==
  ASSUME StreamInv, streamcKey, UNCHANGED faults
  PROVE  StreamInv'
<1>1. /\ client.name = "streamc" /\ client.pc = "key" /\ client.conn = "none"
      /\ client.udata = 0 /\ client.out = <<>>
      /\ UNCHANGED <<server, keyfile, keylen, toServer, toClient, cut, echoed, heard>>
  BY ClientNow DEF streamcKey, ClientAt
<1>2. \/ \E k \in KeyFiles : client' = [client EXCEPT !.pc = "connect", !.key = k]
      \/ client' = [client EXCEPT !.pc = "failed"]
  BY ClientNow DEF streamcKey
<1>3. /\ client' \in ClientStates /\ client'.name = "streamc" /\ client'.conn = "none"
      /\ client'.udata = 0 /\ client'.out = <<>> /\ client'.pc \in {"connect", "failed"}
  <2>1. ASSUME NEW k \in KeyFiles, client' = [client EXCEPT !.pc = "connect", !.key = k]
        PROVE  /\ client' \in ClientStates /\ client'.name = "streamc" /\ client'.conn = "none"
               /\ client'.udata = 0 /\ client'.out = <<>> /\ client'.pc = "connect"
    BY <1>1, <2>1, ClientNow DEF ClientStates, ClientPcs
  <2>2. ASSUME client' = [client EXCEPT !.pc = "failed"]
        PROVE  /\ client' \in ClientStates /\ client'.name = "streamc" /\ client'.conn = "none"
               /\ client'.udata = 0 /\ client'.out = <<>> /\ client'.pc = "failed"
    BY <1>1, <2>2, ClientNow DEF ClientStates, ClientPcs, Ended
  <2> QED BY <1>2, <2>1, <2>2
<1>4. ClientAt'
  BY <1>3 DEF ClientAt, Ended
<1> QED BY <1>1, <1>3, <1>4, ClientGoes

\* It connects (66-81), and the server has accepted, or it has not.
LEMMA streamcConnectKeeps ==
  ASSUME StreamInv, streamcConnect, UNCHANGED faults
  PROVE  StreamInv'
<1>1. /\ client.name = "streamc" /\ client.pc = "connect" /\ client.conn = "none"
      /\ client.udata = 0 /\ client.out = <<>> /\ server.conn # "open"
      /\ UNCHANGED <<keyfile, keylen, toServer, toClient, cut, echoed, heard>>
  BY ClientNow DEF streamcConnect, ClientAt
<1>2. CASE /\ Reaches
           /\ client' = [client EXCEPT !.pc = "test", !.conn = "open"]
           /\ server' = [server EXCEPT !.conn = "open"]
  <2>1. /\ client' \in ClientStates /\ client'.name = "streamc" /\ client'.conn = "open"
        /\ client'.udata = 0 /\ client'.out = <<>> /\ client'.pc = "test"
    BY <1>1, <1>2, ClientNow DEF ClientStates, ClientPcs
  <2>2. ClientAt'
    BY <2>1 DEF ClientAt
  <2>3. Said(client'.udata) = <<>> ++ <<>>
    BY <2>1, SaidTexts, EmptyText, TextFacts
  <2>4. server.conn = "listening"
    BY <1>2 DEF Reaches
  <2> QED BY <1>1, <1>2, <2>1, <2>2, <2>3, <2>4, EmptyText, Connects
<1>3. ASSUME NEW next \in {"test", "failed"},
             client' = [client EXCEPT !.pc = next, !.conn = "closed"], UNCHANGED server
      PROVE  StreamInv'
  <2>1. /\ client' \in ClientStates /\ client'.name = "streamc" /\ client'.conn = "closed"
        /\ client'.udata = 0 /\ client'.out = <<>> /\ client'.pc \in {"test", "failed"}
    BY <1>1, <1>3, ClientNow DEF ClientStates, ClientPcs, Ended
  <2>2. ClientAt'
    BY <1>1, <1>3, <2>1 DEF ClientAt, Ended
  <2> QED BY <1>1, <1>3, <2>1, <2>2, ClientGoes
<1>4. (IF client.silent THEN "test" ELSE "failed") \in {"test", "failed"}
  OBVIOUS
<1> QED BY <1>2, <1>3, <1>4 DEF streamcConnect

\* It says a line (83-93), which goes on the wire or is lost.
LEMMA streamcSendKeeps ==
  ASSUME StreamInv, UNCHANGED faults, NEW word, NEW next,
         streamcSend(word, next),
         (word = "test" /\ next = "echo") \/ (word = "quit" /\ next = "close")
  PROVE  StreamInv'
<1> DEFINE n == IF word = "test" THEN 0 ELSE 1
<1>1. /\ client.name = "streamc" /\ client.pc = word /\ client.conn # "none"
      /\ client.conn = "open" \/ server.conn # "open"
      /\ client.udata = n /\ client.out = <<>>
      /\ UNCHANGED <<server, keyfile, keylen, toClient, cut, echoed, heard>>
  <2>1. client.conn \in {"none", "open", "closed"}
    BY ClientNow DEF ClientStates
  <2> QED BY <2>1, ClientNow DEF streamcSend, ClientAt
<1>2. CASE /\ client' = [client EXCEPT !.pc = next, !.udata = @ + 1]
           /\ toServer' = IF Gone(server) THEN toServer ELSE toServer \o Line(word)
  <2>1. /\ client' \in ClientStates /\ client'.name = "streamc" /\ client'.conn = client.conn
        /\ client'.udata = n + 1 /\ client'.out = <<>> /\ client'.pc = next
    <3>1. n + 1 \in 0..2 /\ next \in ClientPcs
      BY DEF ClientPcs
    <3> HIDE DEF n
    <3> QED BY <1>1, <1>2, <3>1, ClientNow DEF ClientStates
  <2>2. ClientAt'
    BY <1>1, <2>1 DEF ClientAt, Ended
  <2>3. Line(word) \in Texts /\ Said(n + 1) = Said(n) ++ Line(word)
    BY SaysOn
  <2>4. <<>> ++ Line(word) = Line(word) /\ Line(word) ++ (<<>> ++ <<>>) = Line(word)
    BY <2>3, EmptyText, TextFacts
  <2>5. toServer' = IF Gone(server) THEN toServer ELSE toServer ++ Line(word)
    BY <1>2 DEF ++
  <2> QED BY <1>1, <2>1, <2>2, <2>3, <2>4, <2>5, EmptyText, ClientSays
<1>3. CASE client' = [client EXCEPT !.pc = "error"] /\ UNCHANGED toServer
  <2>1. /\ client' \in ClientStates /\ client'.name = "streamc" /\ client'.conn = client.conn
        /\ client'.udata = client.udata /\ client'.out = <<>> /\ client'.pc = "error"
    BY <1>1, <1>3, ClientNow DEF ClientStates, ClientPcs
  <2>2. ClientAt'
    BY <1>1, <2>1 DEF ClientAt, Ended
  <2> QED BY <1>1, <1>3, <2>1, <2>2, ClientGoes
<1> QED BY <1>2, <1>3 DEF streamcSend

\* It reads the answer to its first line (87-89).
LEMMA streamcReceiveKeeps ==
  ASSUME StreamInv, streamcReceive, UNCHANGED faults
  PROVE  StreamInv'
<1>1. /\ client.name = "streamc" /\ client.pc = "echo" /\ client.conn # "none"
      /\ client.conn = "closed" => server.conn # "open"
      /\ client.udata = 1 /\ client.out = <<>> /\ toClient \in Texts
      /\ UNCHANGED <<server, keyfile, keylen, toServer, cut, echoed>>
  BY ClientNow DEF streamcReceive, ClientAt, StreamInv, StreamTypes
<1>2. ASSUME NEW n \in DOMAIN toClient,
             client' = [client EXCEPT !.pc = "quit"],
             heard' = heard \o SubSeq(toClient, 1, n),
             toClient' = SubSeq(toClient, n + 1, Len(toClient))
      PROVE  StreamInv'
  <2> DEFINE a == SubSeq(toClient, 1, n)
             r == SubSeq(toClient, n + 1, Len(toClient))
  <2>1. a \in Texts /\ r \in Texts /\ toClient = a ++ r
    <3>1. n \in 1..Len(toClient)
      BY <1>1 DEF Texts
    <3> QED BY <1>1, <3>1, CutTexts
  <2>2. /\ client' \in ClientStates /\ client'.name = "streamc" /\ client'.conn = client.conn
        /\ client'.udata = 1 /\ client'.out = <<>> /\ client'.pc = "quit"
    BY <1>1, <1>2, ClientNow DEF ClientStates, ClientPcs
  <2>3. ClientAt'
    BY <1>1, <2>2 DEF ClientAt, Ended
  <2>4. heard' = heard ++ a /\ toClient' = r
    BY <1>2 DEF ++
  <2> HIDE DEF a, r
  <2> QED BY <1>1, <2>1, <2>2, <2>3, <2>4, ClientHears
<1>3. ASSUME NEW next \in {"error", "spin"},
             client' = [client EXCEPT !.pc = next], UNCHANGED <<heard, toClient>>
      PROVE  StreamInv'
  <2>1. /\ client' \in ClientStates /\ client'.name = "streamc" /\ client'.conn = client.conn
        /\ client'.udata = client.udata /\ client'.out = <<>> /\ client'.pc = next
    BY <1>1, <1>3, ClientNow DEF ClientStates, ClientPcs
  <2>2. ClientAt'
    BY <1>1, <2>1 DEF ClientAt, Ended
  <2> QED BY <1>1, <1>3, <2>1, <2>2, ClientGoes
<1> QED BY <1>2, <1>3 DEF streamcReceive

\* It closes its session (95-102) and throws away what it has not read.
LEMMA streamcCloseKeeps ==
  ASSUME StreamInv, streamcClose, UNCHANGED faults
  PROVE  StreamInv'
<1>1. /\ client.name = "streamc" /\ client.pc \in {"close", "error"} /\ client.out = <<>>
      /\ client' = [client EXCEPT !.pc = IF @ = "close" THEN "done" ELSE "failed", !.conn = "closed"]
      /\ UNCHANGED <<server, keyfile, keylen, toServer, cut, echoed, heard>> /\ toClient' = <<>>
  BY ClientNow DEF streamcClose, ClientAt
<1>2. /\ client' \in ClientStates /\ client'.name = "streamc" /\ client'.conn = "closed"
      /\ client'.udata = client.udata /\ client'.out = <<>> /\ client'.pc \in Ended
  BY <1>1, ClientNow DEF ClientStates, ClientPcs, Ended
<1>3. ClientAt'
  BY <1>2 DEF ClientAt, Ended
<1> QED BY <1>1, <1>2, <1>3, ClientGoes

\* test_sc.c finds a key and creates its session (121-150).
LEMMA scbCreatedClientKeeps ==
  ASSUME StreamInv, scbCreatedClient, UNCHANGED faults
  PROVE  StreamInv'
<1>1. /\ client.name = "test_sc" /\ client.pc = "key" /\ client.conn = "none"
      /\ client.udata = 0 /\ client.out = <<>>
      /\ UNCHANGED <<server, keyfile, keylen, toServer, toClient, cut, echoed, heard>>
  BY ClientNow DEF scbCreatedClient, ClientAt
<1>2. \/ client' = [client EXCEPT !.pc = "connect", !.key = keyfile]
      \/ client' = [client EXCEPT !.pc = "done"]
  BY DEF scbCreatedClient
<1>3. /\ client' \in ClientStates /\ client'.name = "test_sc" /\ client'.conn = "none"
      /\ client'.udata = 0 /\ client'.out = <<>> /\ client'.pc \in {"connect", "done"}
  <2>1. CASE client' = [client EXCEPT !.pc = "connect", !.key = keyfile]
    BY <1>1, <2>1, ClientNow DEF ClientStates, ClientPcs
  <2>2. CASE client' = [client EXCEPT !.pc = "done"]
    BY <1>1, <2>2, ClientNow DEF ClientStates, ClientPcs, Ended
  <2> QED BY <1>2, <2>1, <2>2
<1>4. ClientAt'
  BY <1>3 DEF ClientAt
<1> QED BY <1>1, <1>3, <1>4, ClientGoes

\* What the switch in ccbSent makes of p.
LEMMA ccbSentMakes ==
  ASSUME NEW p \in ClientStates, NEW q \in ccbSentClient(p)
  PROVE  /\ q \in ClientStates /\ q.name = p.name /\ q.conn = p.conn /\ q.pc \in {"loop", "cancel"}
         /\ \/ p.udata = 2 /\ q.udata = 2 /\ q.out = p.out /\ q.pc = "loop"
            \/ \E line \in Texts :
                 /\ p.udata < 2 /\ q.udata = p.udata + 1
                 /\ Said(q.udata) = Said(p.udata) ++ line
                 /\ \/ q.out = line
                    \/ q.out = p.out /\ q.pc = "cancel"
<1>1. p.udata \in 0..2
  BY DEF ClientStates
<1>2. CASE p.udata = 2
  <2>1. q = [p EXCEPT !.pc = "loop"]
    BY <1>2 DEF ccbSentClient
  <2> QED BY <1>2, <2>1 DEF ClientStates, ClientPcs
<1>3. CASE p.udata # 2
  <2> DEFINE line == Line(<<"test", "quit">>[p.udata + 1])
  <2>1. p.udata \in 0..1 /\ p.udata + 1 \in 0..2 /\ ~(p.udata > 1)
    BY <1>1, <1>3
  <2>2. line \in Texts /\ Said(p.udata + 1) = Said(p.udata) ++ line
    BY <2>1, SaysOn
  <2> HIDE DEF line
  <2>3. \/ q = [p EXCEPT !.out = line, !.udata = @ + 1, !.pc = "loop"]
        \/ q = [p EXCEPT !.udata = @ + 1, !.pc = "cancel"]
    BY <2>1 DEF ccbSentClient, line
  <2>4. CASE q = [p EXCEPT !.out = line, !.udata = @ + 1, !.pc = "loop"]
    <3>1. /\ q \in ClientStates /\ q.name = p.name /\ q.conn = p.conn /\ q.pc = "loop"
          /\ q.udata = p.udata + 1 /\ q.out = line
      BY <2>1, <2>2, <2>4 DEF ClientStates, ClientPcs
    <3> QED BY <2>1, <2>2, <3>1
  <2>5. CASE q = [p EXCEPT !.udata = @ + 1, !.pc = "cancel"]
    <3>1. /\ q \in ClientStates /\ q.name = p.name /\ q.conn = p.conn /\ q.pc = "cancel"
          /\ q.udata = p.udata + 1 /\ q.out = p.out
      BY <2>1, <2>2, <2>5 DEF ClientStates, ClientPcs
    <3> QED BY <2>1, <2>2, <3>1
  <2> QED BY <2>3, <2>4, <2>5
<1> QED BY <1>2, <1>3

\* It is connected, and says its first line in cbSent.
LEMMA scConnectKeeps ==
  ASSUME StreamInv, scConnect, UNCHANGED faults
  PROVE  StreamInv'
<1>1. /\ client.name = "test_sc" /\ client.pc = "connect" /\ client.conn = "none"
      /\ client.udata = 0 /\ client.out = <<>> /\ server.conn # "open"
      /\ UNCHANGED <<keyfile, keylen, toServer, toClient, cut, echoed, heard>>
  BY ClientNow DEF scConnect, ClientAt
<1>2. CASE /\ Reaches
           /\ client' \in ccbSentClient([client EXCEPT !.conn = "open"])
           /\ server' = [server EXCEPT !.conn = "open"]
  <2> DEFINE p == [client EXCEPT !.conn = "open"]
  <2>1. p \in ClientStates /\ p.udata = 0 /\ p.name = "test_sc" /\ p.conn = "open" /\ p.out = <<>>
    BY <1>1, ClientNow DEF ClientStates
  <2>2. client' \in ccbSentClient(p)
    BY <1>2
  <2> HIDE DEF p
  <2>3. /\ client' \in ClientStates /\ client'.name = "test_sc" /\ client'.conn = "open"
        /\ client'.pc \in {"loop", "cancel"}
    BY <2>1, <2>2, ccbSentMakes
  <2>4. PICK line \in Texts :
           /\ Said(client'.udata) = Said(0) ++ line
           /\ client'.out = line \/ (client'.out = <<>> /\ client'.pc = "cancel")
    BY <2>1, <2>2, ccbSentMakes
  <2>5. ClientAt'
    BY <2>3 DEF ClientAt
  <2>6. Said(client'.udata) = line /\ line ++ <<>> = line /\ <<>> ++ line = line
    BY <2>4, SaidTexts, TextFacts
  <2>7. server.conn = "listening"
    BY <1>2 DEF Reaches
  <2>8. CASE client'.out = line
    BY <1>1, <1>2, <2>3, <2>4, <2>5, <2>6, <2>7, <2>8, EmptyText, Connects
  <2>9. CASE client'.out = <<>> /\ client'.pc = "cancel"
    BY <1>1, <1>2, <2>3, <2>4, <2>5, <2>6, <2>7, <2>9, EmptyText, Connects
  <2> QED BY <2>4, <2>8, <2>9
<1>3. CASE client' = [client EXCEPT !.pc = "loop", !.conn = "closed"] /\ UNCHANGED server
  <2>1. /\ client' \in ClientStates /\ client'.name = "test_sc" /\ client'.conn = "closed"
        /\ client'.udata = 0 /\ client'.out = <<>> /\ client'.pc = "loop"
    BY <1>1, <1>3, ClientNow DEF ClientStates, ClientPcs
  <2>2. ClientAt'
    BY <2>1 DEF ClientAt
  <2> QED BY <1>1, <1>3, <2>1, <2>2, ClientGoes
<1> QED BY <1>2, <1>3 DEF scConnect

\* select() finds something to do.
LEMMA scSelectKeeps ==
  ASSUME StreamInv, scSelect, UNCHANGED faults
  PROVE  StreamInv'
<1>1. PICK next \in {"read", "write"} : client' = [client EXCEPT !.pc = next]
  BY DEF scSelect, Selected
<1>2. /\ client.name = "test_sc" /\ client.pc = "loop" /\ client.conn = "open"
      /\ UNCHANGED <<server, keyfile, keylen, toServer, toClient, cut, echoed, heard>>
  BY DEF scSelect
<1>3. /\ client' \in ClientStates /\ client'.name = "test_sc" /\ client'.conn = "open"
      /\ client'.udata = client.udata /\ client'.out = client.out /\ client'.pc \in {"read", "write"}
  BY <1>1, <1>2, ClientNow DEF ClientStates, ClientPcs
<1>4. ClientAt'
  BY <1>3 DEF ClientAt
<1> QED BY <1>2, <1>3, <1>4, ClientGoes

\* test_sc.c reads what is on the wire (91-96), or the end of the stream.
LEMMA scReadKeeps ==
  ASSUME StreamInv, scRead, UNCHANGED faults
  PROVE  StreamInv'
<1>1. /\ client.name = "test_sc" /\ client.pc \in {"read", "more"} /\ client.conn = "open"
      /\ toClient \in Texts
      /\ UNCHANGED <<server, keyfile, keylen, toServer, cut, echoed>>
  BY ClientNow DEF scRead, ClientAt, StreamInv, StreamTypes
<1>2. CASE /\ toClient # <<>> /\ heard' = Append(heard, Head(toClient))
           /\ toClient' = Tail(toClient) /\ client' = [client EXCEPT !.pc = "more"]
  <2> DEFINE a == <<Head(toClient)>>
             r == Tail(toClient)
  <2>1. /\ client' \in ClientStates /\ client'.name = "test_sc" /\ client'.conn = "open"
        /\ client'.udata = client.udata /\ client'.out = client.out /\ client'.pc = "more"
    BY <1>1, <1>2, ClientNow DEF ClientStates, ClientPcs
  <2>2. ClientAt'
    BY <2>1 DEF ClientAt
  <2>3. a \in Texts /\ r \in Texts /\ toClient = a ++ r /\ Head(toClient) \in Symbols
    BY <1>1, <1>2, TextFacts
  <2>4. heard' = heard ++ a
    <3>1. heard \in Texts
      BY DEF StreamInv, StreamTypes
    <3> QED BY <1>2, <2>3, <3>1, TextFacts
  <2>5. toClient' = r
    BY <1>2
  <2> HIDE DEF a, r
  <2> QED BY <1>1, <2>1, <2>2, <2>3, <2>4, <2>5, ClientHears
<1>3. CASE client' = [client EXCEPT !.pc = "loop", !.conn = "closed", !.out = <<>>]
           /\ UNCHANGED <<heard, toClient>>
  <2>1. /\ client' \in ClientStates /\ client'.name = "test_sc" /\ client'.conn = "closed"
        /\ client'.udata = client.udata /\ client'.out = <<>> /\ client'.pc = "loop"
    BY <1>1, <1>3, ClientNow, EmptyText DEF ClientStates, ClientPcs
  <2>2. ClientAt'
    BY <2>1 DEF ClientAt
  <2> QED BY <1>1, <1>3, <2>1, <2>2, ClientGoes
<1>4. CASE \E next \in {"write", "loop"} :
             client' = [client EXCEPT !.pc = next] /\ UNCHANGED <<heard, toClient>>
  <2>1. /\ client' \in ClientStates /\ client'.name = "test_sc" /\ client'.conn = "open"
        /\ client'.udata = client.udata /\ client'.out = client.out /\ client'.pc \in {"write", "loop"}
    BY <1>1, <1>4, ClientNow DEF ClientStates, ClientPcs
  <2>2. ClientAt'
    BY <2>1 DEF ClientAt
  <2> QED BY <1>1, <1>4, <2>1, <2>2, ClientGoes
<1> QED BY <1>2, <1>3, <1>4 DEF scRead

\* The library writes a part of what test_sc.c has queued, and cbSent says the
\* next line when all of it is written (65-89).
LEMMA scWriteKeeps ==
  ASSUME StreamInv, scWrite, UNCHANGED faults
  PROVE  StreamInv'
<1>1. /\ client.name = "test_sc" /\ client.pc = "write" /\ client.conn = "open"
      /\ UNCHANGED <<server, keyfile, keylen, toClient, cut, echoed, heard>>
  BY ClientNow DEF scWrite, ClientAt
<1>2. CASE client' = [client EXCEPT !.pc = "loop"] /\ UNCHANGED toServer
  <2>1. /\ client' \in ClientStates /\ client'.name = "test_sc" /\ client'.conn = "open"
        /\ client'.udata = client.udata /\ client'.out = client.out /\ client'.pc = "loop"
    BY <1>1, <1>2, ClientNow DEF ClientStates, ClientPcs
  <2>2. ClientAt'
    BY <2>1 DEF ClientAt
  <2> QED BY <1>1, <1>2, <2>1, <2>2, ClientGoes
<1>3. CASE client' = [client EXCEPT !.pc = "loop", !.conn = "closed", !.out = <<>>] /\ UNCHANGED toServer
  <2>1. /\ client' \in ClientStates /\ client'.name = "test_sc" /\ client'.conn = "closed"
        /\ client'.udata = client.udata /\ client'.out = <<>> /\ client'.pc = "loop"
    BY <1>1, <1>3, ClientNow, EmptyText DEF ClientStates, ClientPcs
  <2>2. ClientAt'
    BY <2>1 DEF ClientAt
  <2> QED BY <1>1, <1>3, <2>1, <2>2, ClientGoes
<1>4. ASSUME NEW n \in 1..Len(client.out),
             toServer' = IF Gone(server) THEN toServer ELSE toServer \o SubSeq(client.out, 1, n),
             LET rest == [client EXCEPT !.out = SubSeq(@, n + 1, Len(@)), !.pc = "loop"]
             IN IF rest.out = <<>> THEN client' \in ccbSentClient(rest) ELSE client' = rest
      PROVE  StreamInv'
  <2> DEFINE o == client.out
             a == SubSeq(o, 1, n)
             r == SubSeq(o, n + 1, Len(o))
             rest == [client EXCEPT !.out = SubSeq(@, n + 1, Len(@)), !.pc = "loop"]
  <2>1. a \in Texts /\ r \in Texts /\ a ++ r = o
    BY ClientNow, CutTexts
  <2>2. toServer' = IF Gone(server) THEN toServer ELSE toServer ++ a
    BY <1>4 DEF ++
  <2>3. /\ rest \in ClientStates /\ rest.name = "test_sc" /\ rest.conn = "open" /\ rest.out = r
        /\ rest.pc = "loop" /\ rest.udata = client.udata /\ client.udata \in 0..2 /\ o \in Texts
    BY <1>1, <2>1, ClientNow DEF ClientStates, ClientPcs
  <2>4. IF rest.out = <<>> THEN client' \in ccbSentClient(rest) ELSE client' = rest
    BY <1>4
  <2>5. /\ o ++ <<>> = o /\ a ++ <<>> = a /\ r ++ <<>> = r /\ <<>> ++ r = r
        /\ Said(client.udata) ++ <<>> = Said(client.udata)
    <3>1. o \in Texts /\ a \in Texts /\ r \in Texts /\ Said(client.udata) \in Texts
      BY <2>1, <2>3, SaidTexts
    <3> HIDE DEF o, a, r
    <3> QED BY <3>1, TextFacts
  <2>6. client.out = o
    OBVIOUS
  <2> HIDE DEF o, a, r, rest
  <2>7. CASE client' = rest
    <3>1. ClientAt'
      BY <2>3, <2>7 DEF ClientAt
    <3>2. o ++ <<>> = a ++ (<<>> ++ r)
      BY <2>1, <2>5
    <3> QED BY <1>1, <2>1, <2>2, <2>3, <2>5, <2>6, <2>7, <3>1, <3>2, EmptyText, ClientSays
  <2>8. CASE r = <<>> /\ client' \in ccbSentClient(rest)
    <3>1. /\ client' \in ClientStates /\ client'.name = "test_sc" /\ client'.conn = "open"
          /\ client'.pc \in {"loop", "cancel"}
      BY <2>3, <2>8, ccbSentMakes
    <3>2. ClientAt'
      BY <3>1 DEF ClientAt
    <3>3. a = o
      BY <2>1, <2>5, <2>8
    <3>4. CASE client'.udata = client.udata /\ client'.out = <<>>
      <4>1. o ++ <<>> = a ++ (<<>> ++ <<>>)
        BY <2>5, <2>8, <3>3
      <4> QED BY <1>1, <2>1, <2>2, <2>3, <2>5, <2>6, <3>1, <3>2, <3>4, <4>1, EmptyText, ClientSays
    <3>5. ASSUME NEW line \in Texts, client'.udata = client.udata + 1,
                 Said(client'.udata) = Said(client.udata) ++ line,
                 client'.out = line \/ (client'.out = <<>> /\ client'.pc = "cancel")
          PROVE  StreamInv'
      <4>1. o ++ line = a ++ (<<>> ++ line) /\ o ++ line = a ++ (line ++ <<>>)
        BY <3>3, TextFacts
      <4>2. client.udata <= client'.udata
        BY <2>3, <3>5
      <4>3. CASE client'.out = line
        BY <1>1, <2>1, <2>2, <2>6, <3>1, <3>2, <3>5, <4>1, <4>2, <4>3, EmptyText, ClientSays
      <4>4. CASE client'.out = <<>> /\ client'.pc = "cancel"
        BY <1>1, <2>1, <2>2, <2>6, <3>1, <3>2, <3>5, <4>1, <4>2, <4>4, EmptyText, ClientSays
      <4> QED BY <3>5, <4>3, <4>4
    <3> QED BY <2>3, <2>8, <3>4, <3>5, ccbSentMakes
  <2> QED BY <2>3, <2>4, <2>7, <2>8
<1> QED BY <1>2, <1>3, <1>4 DEF scWrite

\* test_sc.c closes its session (217-220).
LEMMA scCancelKeeps ==
  ASSUME StreamInv, scCancel, UNCHANGED faults
  PROVE  StreamInv'
<1>1. /\ client.name = "test_sc" /\ client' = [client EXCEPT !.pc = "done", !.conn = "closed"]
      /\ UNCHANGED <<server, keyfile, keylen, toServer, cut, echoed, heard>> /\ toClient' = <<>>
      /\ client.conn # "none"
  BY ClientNow DEF scCancel, ClientAt
<1>2. /\ client' \in ClientStates /\ client'.name = "test_sc" /\ client'.conn = "closed"
      /\ client'.udata = client.udata /\ client'.out = client.out /\ client'.pc = "done"
  BY <1>1, ClientNow DEF ClientStates, ClientPcs, Ended
<1>3. ClientAt'
  BY <1>2 DEF ClientAt
<1> QED BY <1>1, <1>2, <1>3, ClientGoes

\* Every step of the streams keeps the invariant.
LEMMA StreamsKeep ==
  ASSUME StreamInv, ServerStep \/ ClientStep \/ Cut, UNCHANGED faults
  PROVE  StreamInv'
<1>1. CASE ServerStep
  BY <1>1, streamsCreateKeeps, streamsAcceptKeeps, streamsReceiveKeeps, streamsEchoKeeps,
     streamsCloseKeeps, scbCreatedServerKeeps, ssAcceptFailsKeeps, ssSelectKeeps, ssReadKeeps,
     ssWriteKeeps, ssCancelKeeps DEF ServerStep
<1>2. CASE ClientStep
  BY <1>2, streamcKeyKeeps, streamcConnectKeeps, streamcSendKeeps, streamcReceiveKeeps,
     streamcCloseKeeps, scbCreatedClientKeeps, scConnectKeeps, scSelectKeeps, scReadKeeps,
     scWriteKeeps, scCancelKeeps DEF ClientStep
<1>3. CASE Cut
  BY <1>3, CutKeeps
<1> QED BY <1>1, <1>2, <1>3

-----------------------------------------------------------------------------
(* The invariant of the datagrams.                                         *)

WordSet == {"test", "big", "quit"}

DServerPcs == {"create", "receive", "reply", "close", "error", "spin"} \cup Ended
DClientPcs == {"key", "send", "receive", "close", "error", "spin"} \cup Ended

DServerStates == [pc : DServerPcs, destkey : DClients \cup {"nobody"}, word : WordSet \cup {"none"}]
DClientStates == [pc : DClientPcs, key : KeyFiles, turn : 1..3, got : Seq(WordSet)]

Questions == [to : {"server"}, from : DClients, word : WordSet]
Replied == [to : DClients, from : {"server"}, word : WordSet]

DatagramTypes ==
  /\ faults \subseteq StreamFaults \cup DatagramFaults
  /\ keyfile \in KeyFiles
  /\ dserver \in DServerStates
  /\ dserver.pc = "reply" => dserver.destkey \in DClients /\ dserver.word \in WordSet
  /\ dclients \in [DClients -> DClientStates]
  /\ DOMAIN net \subseteq Questions \cup Replied /\ net \in [DOMAIN net -> Nat \ {0}]
  /\ DOMAIN inbox = DClients \cup {"server"}
  /\ inbox["server"] \in Seq(Questions)
  /\ \A c \in DClients : inbox[c] \in Seq(Replied)

\* The places in which a datagram of c's, or an answer to it, can be under way.
About(d) == IF d.to = "server" THEN d.from ELSE d.to
Traffic(c) == {d \in DOMAIN net : About(d) = c}
InServer(c) == {i \in DOMAIN inbox["server"] : inbox["server"][i].from = c}
InReply(c) == dserver.pc = "reply" /\ dserver.destkey = c

Under(c) == {d.word : d \in Traffic(c)} \cup {inbox["server"][i].word : i \in InServer(c)}
            \cup {w \in WordSet : InReply(c) /\ w = dserver.word}
            \cup {inbox[c][i].word : i \in DOMAIN inbox[c]}

\* There is one at most.
Alone(c) ==
  /\ \A d \in Traffic(c) : net[d] = 1 /\ \A e \in Traffic(c) : e = d
  /\ \A i \in InServer(c) : \A j \in InServer(c) : i = j
  /\ Len(inbox[c]) <= 1
  /\ Traffic(c) # {} => InServer(c) = {} /\ ~InReply(c) /\ inbox[c] = <<>>
  /\ InServer(c) # {} => ~InReply(c) /\ inbox[c] = <<>>
  /\ InReply(c) => inbox[c] = <<>>

\* How many words c has sent.
Asked(c) == IF dclients[c].pc \in {"key", "send"} THEN dclients[c].turn - 1 ELSE dclients[c].turn

\* What is under way has been sent, and is the last word if nothing comes twice.
Waiting(c) ==
  /\ \A w \in Under(c) : \E j \in 1..Asked(c) : w = Words[j]
  /\ "duplicate" \notin faults =>
       /\ Alone(c)
       /\ dclients[c].pc \in {"key", "send"} => Under(c) = {}
       /\ \A w \in Under(c) : w = Words[Asked(c)]

\* What has come was an answer.
Matched(c) ==
  /\ dclients[c].pc \in {"key", "send", "receive"} => Len(dclients[c].got) = dclients[c].turn - 1
  /\ \A i \in DOMAIN dclients[c].got :
       \E j \in 1..i : /\ dclients[c].got[i] = Words[j]
                       /\ "duplicate" \notin faults => j = i

\* The two invariants; a system is of one kind or of the other.
DatagramInv == DatagramTypes /\ \A c \in DClients : Waiting(c) /\ Matched(c)

ExamplesInv == (OverStreams /\ StreamInv) \/ (StreamsOff /\ DatagramInv)

\* The network with one more datagram.
LEMMA BagAdds ==
  ASSUME NEW B, B \in [DOMAIN B -> Nat \ {0}], NEW x
  PROVE  /\ DOMAIN BagAdd(B, x) = DOMAIN B \cup {x}
         /\ BagAdd(B, x) \in [DOMAIN B \cup {x} -> Nat \ {0}]
         /\ \A e \in DOMAIN B : e # x => BagAdd(B, x)[e] = B[e]
         /\ x \notin DOMAIN B => BagAdd(B, x)[x] = 1
<1>1. CASE x \in DOMAIN B
  <2>1. BagAdd(B, x) = [e \in DOMAIN B |-> IF e = x THEN B[e] + 1 ELSE B[e]]
    BY <1>1 DEF BagAdd
  <2>2. \A e \in DOMAIN B : B[e] \in Nat \ {0} /\ B[e] + 1 \in Nat \ {0}
    OBVIOUS
  <2>3. DOMAIN B = DOMAIN B \cup {x}
    BY <1>1
  <2> QED BY <1>1, <2>1, <2>2, <2>3
<1>2. CASE x \notin DOMAIN B
  <2>1. BagAdd(B, x) = [e \in DOMAIN B \cup {x} |-> IF e = x THEN 1 ELSE B[e]]
    BY <1>2 DEF BagAdd
  <2>2. \A e \in DOMAIN B : B[e] \in Nat \ {0}
    OBVIOUS
  <2> QED BY <1>2, <2>1, <2>2
<1> QED BY <1>1, <1>2

\* The network with one datagram less.
LEMMA BagRemoves ==
  ASSUME NEW B, B \in [DOMAIN B -> Nat \ {0}], NEW x \in DOMAIN B
  PROVE  /\ DOMAIN BagRemove(B, x) \subseteq DOMAIN B
         /\ BagRemove(B, x) \in [DOMAIN BagRemove(B, x) -> Nat \ {0}]
         /\ \A e \in DOMAIN B : e # x => e \in DOMAIN BagRemove(B, x) /\ BagRemove(B, x)[e] = B[e]
         /\ B[x] = 1 => x \notin DOMAIN BagRemove(B, x)
<1>1. CASE B[x] = 1
  <2>1. BagRemove(B, x) = [e \in DOMAIN B \ {x} |-> B[e]]
    BY <1>1 DEF BagRemove
  <2> QED BY <1>1, <2>1
<1>2. CASE B[x] # 1
  <2>1. BagRemove(B, x) = [e \in DOMAIN B |-> IF e = x THEN B[e] - 1 ELSE B[e]]
    BY <1>2 DEF BagRemove
  <2>2. B[x] - 1 \in Nat \ {0} /\ \A e \in DOMAIN B : B[e] \in Nat \ {0}
    <3>1. B[x] \in Nat \ {0}
      OBVIOUS
    <3> QED BY <1>2, <3>1
  <2> QED BY <1>2, <2>1, <2>2
<1> QED BY <1>1, <1>2

\* Nothing new is under way for c.
LEMMA NothingNew ==
  ASSUME DatagramInv, NEW c \in DClients, UNCHANGED faults, dclients'[c] = dclients[c],
         Under(c)' \subseteq Under(c),
         "duplicate" \notin faults /\ Alone(c) => Alone(c)'
  PROVE  Waiting(c)' /\ Matched(c)'
<1>1. Waiting(c) /\ Matched(c)
  BY DEF DatagramInv
<1>2. Asked(c)' = Asked(c)
  BY DEF Asked
<1>3. Waiting(c)'
  BY <1>1, <1>2 DEF Waiting
<1>4. Matched(c)'
  BY <1>1 DEF Matched
<1> QED BY <1>3, <1>4

\* The invariant, for use.
LEMMA DatagramFacts ==
  ASSUME DatagramInv
  PROVE  /\ DatagramTypes
         /\ \A c \in DClients : /\ dclients[c] \in DClientStates /\ c # "server"
                                /\ inbox[c] \in Seq(Replied) /\ Waiting(c) /\ Matched(c)
         /\ \A d \in DOMAIN net : d \in Questions \cup Replied
         /\ "fresh" \in KeyFiles
<1>1. "server" \notin DClients
  BY AddressAssumption
<1> QED BY <1>1 DEF DatagramInv, DatagramTypes, KeyFiles

\* dgrams.c creates its session (55-85).
LEMMA dgramsCreateKeeps ==
  ASSUME DatagramInv, dgramsCreate, UNCHANGED faults
  PROVE  DatagramInv'
<1>1. /\ dserver.pc = "create" /\ UNCHANGED <<dclients, net, inbox, duplicates>>
      /\ keyfile' \in KeyFiles
  BY KeyFileTypes DEF dgramsCreate, DatagramInv, DatagramTypes
<1>2. PICK next \in {"failed", "receive"} : dserver' = [dserver EXCEPT !.pc = next]
  BY DEF dgramsCreate
<1>3. dserver' \in DServerStates /\ dserver'.pc = next
  BY <1>2, DatagramFacts DEF DatagramTypes, DServerStates, DServerPcs, Ended
<1>4. DatagramTypes'
  BY <1>1, <1>3, DatagramFacts DEF DatagramTypes
<1>5. ASSUME NEW c \in DClients
      PROVE  Waiting(c)' /\ Matched(c)'
  <2>1. ~InReply(c) /\ ~InReply(c)'
    BY <1>1, <1>3 DEF InReply
  <2>2. Traffic(c)' = Traffic(c) /\ InServer(c)' = InServer(c)
    BY <1>1 DEF Traffic, InServer
  <2>3. Under(c)' \subseteq Under(c)
    BY <1>1, <2>1, <2>2 DEF Under
  <2>4. Alone(c) => Alone(c)'
    BY <1>1, <2>1, <2>2 DEF Alone
  <2> QED BY <1>1, <2>3, <2>4, NothingNew
<1> QED BY <1>4, <1>5 DEF DatagramInv

\* It leaves (124-132), and what has come for it is lost.
LEMMA dgramsCloseKeeps ==
  ASSUME DatagramInv, dgramsClose, UNCHANGED faults
  PROVE  DatagramInv'
<1>1. /\ dserver.pc \in {"close", "error"} /\ UNCHANGED <<dclients, net, duplicates>>
      /\ keyfile' \in KeyFiles /\ inbox' = [inbox EXCEPT !["server"] = <<>>]
      /\ \E next \in {"done", "failed"} : dserver' = [dserver EXCEPT !.pc = next]
  BY KeyFileTypes DEF dgramsClose, DatagramInv, DatagramTypes
<1>2. PICK next \in {"done", "failed"} : dserver' = [dserver EXCEPT !.pc = next]
  BY <1>1
<1>3. dserver' \in DServerStates /\ dserver'.pc = next
  BY <1>2, DatagramFacts DEF DatagramTypes, DServerStates, DServerPcs, Ended
<1>4. /\ DOMAIN inbox' = DOMAIN inbox /\ inbox'["server"] = <<>>
      /\ \A c \in DClients : inbox'[c] = inbox[c]
  BY <1>1, DatagramFacts DEF DatagramTypes
<1>5. DatagramTypes'
  BY <1>1, <1>3, <1>4, DatagramFacts DEF DatagramTypes
<1>6. ASSUME NEW c \in DClients
      PROVE  Waiting(c)' /\ Matched(c)'
  <2>1. ~InReply(c) /\ ~InReply(c)'
    BY <1>1, <1>3 DEF InReply
  <2>2. Traffic(c)' = Traffic(c) /\ InServer(c)' = {}
    BY <1>1, <1>4 DEF Traffic, InServer
  <2>3. Under(c)' \subseteq Under(c)
    BY <1>4, <2>1, <2>2 DEF Under
  <2>4. Alone(c) => Alone(c)'
    BY <1>1, <1>4, <2>1, <2>2 DEF Alone
  <2> QED BY <1>1, <2>3, <2>4, NothingNew
<1> QED BY <1>5, <1>6 DEF DatagramInv

\* What is left of a queue when its head is taken.
LEMMA Takes ==
  ASSUME NEW S, NEW s \in Seq(S), s # <<>>
  PROVE  /\ Head(s) = s[1] /\ 1 \in DOMAIN s /\ Head(s) \in S
         /\ Tail(s) \in Seq(S) /\ Len(s) \in Nat /\ Len(Tail(s)) = Len(s) - 1
         /\ \A i \in DOMAIN Tail(s) : i + 1 \in DOMAIN s /\ i + 1 # 1 /\ Tail(s)[i] = s[i + 1]
         /\ \A i \in DOMAIN Tail(s) : \A j \in DOMAIN Tail(s) : i + 1 = j + 1 => i = j
<1> DEFINE t == Tail(s)
<1>1. /\ Head(s) = s[1] /\ t \in Seq(S) /\ Len(t) = Len(s) - 1
      /\ \A i \in 1..Len(t) : t[i] = s[i + 1]
  BY HeadTailProperties
<1>2. Len(s) \in Nat /\ Len(s) # 0 /\ DOMAIN s = 1..Len(s) /\ DOMAIN t = 1..Len(t)
  BY <1>1
<1>3. 1 \in DOMAIN s /\ Head(s) \in S
  BY <1>1, <1>2, ElementOfSeq
<1> HIDE DEF t
<1>4. ASSUME NEW i \in DOMAIN t PROVE i + 1 \in DOMAIN s /\ i + 1 # 1 /\ t[i] = s[i + 1] /\ i \in Int
  BY <1>1, <1>2
<1>5. \A i \in DOMAIN t : \A j \in DOMAIN t : i + 1 = j + 1 => i = j
  <2>1. \A i, j \in Int : i + 1 = j + 1 => i = j
    OBVIOUS
  <2> QED BY <1>4, <2>1
<1> QED BY <1>1, <1>2, <1>3, <1>4, <1>5 DEF t

\* A queue with one more at its end.
LEMMA Puts ==
  ASSUME NEW S, NEW s \in Seq(S), NEW x \in S
  PROVE  /\ Append(s, x) \in Seq(S) /\ Len(s) \in Nat /\ Len(Append(s, x)) = Len(s) + 1
         /\ DOMAIN Append(s, x) = DOMAIN s \cup {Len(s) + 1} /\ DOMAIN s = 1..Len(s)
         /\ \A i \in DOMAIN s : Append(s, x)[i] = s[i]
         /\ Append(s, x)[Len(s) + 1] = x
<1> DEFINE t == Append(s, x)
<1>1. /\ t \in Seq(S) /\ Len(t) = Len(s) + 1
      /\ \A i \in 1..Len(s) : t[i] = s[i]
      /\ t[Len(s) + 1] = x
  BY AppendProperties
<1>2. Len(s) \in Nat /\ DOMAIN s = 1..Len(s) /\ DOMAIN t = 1..Len(t)
  BY <1>1
<1> HIDE DEF t
<1>3. DOMAIN t = DOMAIN s \cup {Len(s) + 1}
  BY <1>1, <1>2
<1> QED BY <1>1, <1>2, <1>3 DEF t

\* The server fails, or reads for ever: what it owes is not under way any more.
LEMMA dgramsFails ==
  ASSUME DatagramInv, NEW next \in {"error", "spin"}, dserver' = [dserver EXCEPT !.pc = next],
         UNCHANGED <<faults, keyfile, dclients, net, inbox>>
  PROVE  DatagramInv'
<1>1. dserver' \in DServerStates /\ dserver'.pc = next
  BY DatagramFacts DEF DatagramTypes, DServerStates, DServerPcs
<1>2. DatagramTypes'
  BY <1>1, DatagramFacts DEF DatagramTypes
<1>3. ASSUME NEW c \in DClients
      PROVE  Waiting(c)' /\ Matched(c)'
  <2>1. ~InReply(c)' /\ Traffic(c)' = Traffic(c) /\ InServer(c)' = InServer(c)
    BY <1>1 DEF InReply, Traffic, InServer
  <2>2. Under(c)' \subseteq Under(c)
    BY <2>1 DEF Under
  <2>3. Alone(c) => Alone(c)'
    BY <2>1 DEF Alone
  <2> QED BY <2>2, <2>3, NothingNew
<1> QED BY <1>2, <1>3 DEF DatagramInv

\* dgrams.c receives a datagram (87-108): it is no longer in the queue, and its
\* sender is owed a reply.
LEMMA dgramsReceiveKeeps ==
  ASSUME DatagramInv, dgramsReceive, UNCHANGED faults
  PROVE  DatagramInv'
<1>1. dserver.pc = "receive" /\ UNCHANGED <<dclients, net, keyfile, duplicates>>
  BY DEF dgramsReceive
<1>2. ASSUME NEW next \in {"error", "spin"}, dserver' = [dserver EXCEPT !.pc = next],
             UNCHANGED inbox
      PROVE  DatagramInv'
  BY <1>1, <1>2, dgramsFails
<1>3. CASE /\ inbox["server"] # <<>>
           /\ dserver' = [pc |-> "reply", destkey |-> Sender(Head(inbox["server"]).from),
                          word |-> Head(inbox["server"]).word]
           /\ inbox' = [inbox EXCEPT !["server"] = Tail(@)]
  <2> DEFINE s == inbox["server"]
             h == Head(s)
             t == Tail(s)
  <2>1. s \in Seq(Questions) /\ s # <<>>
    BY <1>3, DatagramFacts DEF DatagramTypes
  <2>2. /\ h = s[1] /\ 1 \in DOMAIN s /\ h \in Questions /\ t \in Seq(Questions)
        /\ \A i \in DOMAIN t : i + 1 \in DOMAIN s /\ i + 1 # 1 /\ t[i] = s[i + 1]
        /\ \A i \in DOMAIN t : \A j \in DOMAIN t : i + 1 = j + 1 => i = j
    BY <2>1, Takes
  <2>3. h.from \in DClients /\ h.word \in WordSet
    BY <2>2 DEF Questions
  <2>4. dserver'.pc = "reply" /\ dserver'.destkey = h.from /\ dserver'.word = h.word
        /\ dserver' \in DServerStates
    BY <1>3, <2>3 DEF Sender, DServerStates, DServerPcs
  <2>5. /\ DOMAIN inbox' = DOMAIN inbox /\ inbox'["server"] = t
        /\ \A c \in DClients : inbox'[c] = inbox[c]
    BY <1>3, DatagramFacts DEF DatagramTypes
  <2>6. inbox["server"] = s
    OBVIOUS
  <2> HIDE DEF s, h, t
  <2>7. DatagramTypes'
    BY <1>1, <2>2, <2>3, <2>4, <2>5, DatagramFacts DEF DatagramTypes
  <2>8. ASSUME NEW c \in DClients
        PROVE  Waiting(c)' /\ Matched(c)'
    <3>1. Traffic(c)' = Traffic(c) /\ ~InReply(c) /\ (InReply(c)' <=> c = h.from)
      BY <1>1, <2>4 DEF Traffic, InReply
    <3>2. \A i \in InServer(c)' : i + 1 \in InServer(c) /\ i + 1 # 1 /\ t[i] = s[i + 1]
      BY <2>2, <2>5, <2>6 DEF InServer
    <3>3. h.from = c => 1 \in InServer(c)
      BY <2>2, <2>6 DEF InServer
    <3>4. Under(c)' \subseteq Under(c)
      <4>1. SUFFICES ASSUME NEW w \in Under(c)' PROVE w \in Under(c)
        OBVIOUS
      <4>2. CASE w \in {d.word : d \in Traffic(c)'}
        BY <3>1, <4>2 DEF Under
      <4>3. CASE w \in {inbox'["server"][i].word : i \in InServer(c)'}
        <5>1. PICK i \in InServer(c)' : w = t[i].word
          BY <2>5, <4>3
        <5>2. i + 1 \in InServer(c) /\ w = inbox["server"][i + 1].word
          BY <2>6, <3>2, <5>1
        <5> QED BY <5>2 DEF Under
      <4>4. CASE InReply(c)' /\ w = dserver'.word
        <5>1. 1 \in InServer(c) /\ w = inbox["server"][1].word
          BY <2>2, <2>4, <2>6, <3>1, <3>3, <4>4
        <5> QED BY <5>1 DEF Under
      <4>5. CASE w \in {inbox'[c][i].word : i \in DOMAIN inbox'[c]}
        BY <2>5, <4>5 DEF Under
      <4> QED BY <4>1, <4>2, <4>3, <4>4, <4>5 DEF Under
    <3>5. Alone(c) => Alone(c)'
      <4>1. SUFFICES ASSUME Alone(c) PROVE Alone(c)'
        OBVIOUS
      <4>2. \A i \in InServer(c)' : \A j \in InServer(c)' : i = j
        <5>1. ASSUME NEW i \in InServer(c)', NEW j \in InServer(c)' PROVE i = j
          <6>1. i + 1 = j + 1
            BY <3>2, <4>1 DEF Alone
          <6>2. i \in DOMAIN t /\ j \in DOMAIN t
            BY <2>5 DEF InServer
          <6> QED BY <2>2, <6>1, <6>2
        <5> QED BY <5>1
      <4>3. h.from = c => InServer(c)' = {}
        BY <3>2, <3>3, <4>1 DEF Alone
      <4>4. InServer(c)' # {} => InServer(c) # {}
        BY <3>2
      <4> QED BY <1>1, <2>5, <3>1, <3>3, <4>1, <4>2, <4>3, <4>4 DEF Alone
    <3> QED BY <1>1, <3>4, <3>5, NothingNew
  <2> QED BY <2>7, <2>8 DEF DatagramInv
<1> QED BY <1>2, <1>3 DEF dgramsReceive

\* It replies to the sender of what it received last (109-122): the reply is on
\* the network, and nothing is owed.
LEMMA dgramsReplyKeeps ==
  ASSUME DatagramInv, dgramsReply, UNCHANGED faults
  PROVE  DatagramInv'
<1>f. CASE dserver' = [dserver EXCEPT !.pc = "error"] /\ UNCHANGED net
  BY <1>f, dgramsFails DEF dgramsReply
<1> DEFINE x == Datagram(dserver.destkey, "server", dserver.word)
<1> SUFFICES ASSUME NEW next \in {"close", "receive"}, dserver' = [dserver EXCEPT !.pc = next],
                    net' = BagAdd(net, x)
             PROVE  DatagramInv'
  BY <1>f DEF dgramsReply
<1>1. /\ dserver.pc = "reply" /\ UNCHANGED <<dclients, inbox, keyfile, duplicates>>
      /\ net' = BagAdd(net, x)
  BY DEF dgramsReply
<1>3. dserver' \in DServerStates /\ dserver'.pc = next
  BY DatagramFacts DEF DatagramTypes, DServerStates, DServerPcs
<1>4. /\ x \in Replied /\ x.word = dserver.word /\ About(x) = dserver.destkey
      /\ dserver.destkey \in DClients /\ dserver.word \in WordSet
  BY <1>1, DatagramFacts DEF DatagramTypes, Datagram, Replied, About
<1> HIDE DEF x
<1>5. /\ DOMAIN net' = DOMAIN net \cup {x} /\ net' \in [DOMAIN net' -> Nat \ {0}]
      /\ \A d \in DOMAIN net : d # x => net'[d] = net[d]
      /\ x \notin DOMAIN net => net'[x] = 1
  <2>1. net \in [DOMAIN net -> Nat \ {0}]
    BY DatagramFacts DEF DatagramTypes
  <2>2. /\ DOMAIN BagAdd(net, x) = DOMAIN net \cup {x}
        /\ BagAdd(net, x) \in [DOMAIN net \cup {x} -> Nat \ {0}]
        /\ \A d \in DOMAIN net : d # x => BagAdd(net, x)[d] = net[d]
        /\ x \notin DOMAIN net => BagAdd(net, x)[x] = 1
    BY <2>1, BagAdds
  <2> QED BY <1>1, <2>2
<1>6. DatagramTypes'
  BY <1>1, <1>3, <1>4, <1>5, DatagramFacts DEF DatagramTypes
<1>7. ASSUME NEW c \in DClients
      PROVE  Waiting(c)' /\ Matched(c)'
  <2>1. ~InReply(c)' /\ InServer(c)' = InServer(c) /\ inbox'[c] = inbox[c]
        /\ (InReply(c) <=> c = dserver.destkey)
    BY <1>1, <1>3 DEF InReply, InServer
  <2>2. /\ InReply(c) => Traffic(c)' = Traffic(c) \cup {x}
        /\ ~InReply(c) => Traffic(c)' = Traffic(c) /\ x \notin Traffic(c)
    BY <1>4, <1>5, <2>1 DEF Traffic
  <2>3. Under(c)' \subseteq Under(c)
    BY <1>1, <1>4, <2>1, <2>2 DEF Under
  <2>4. Alone(c) => Alone(c)'
    <3>1. SUFFICES ASSUME Alone(c) PROVE Alone(c)'
      OBVIOUS
    <3>2. CASE InReply(c)
      <4>1. Traffic(c) = {} /\ InServer(c) = {} /\ inbox[c] = <<>>
        BY <3>1, <3>2 DEF Alone
      <4>2. x \notin DOMAIN net
        BY <1>4, <2>1, <3>2, <4>1 DEF Traffic
      <4> QED BY <1>1, <1>5, <2>1, <2>2, <3>1, <3>2, <4>1, <4>2 DEF Alone
    <3>3. CASE ~InReply(c)
      <4>1. \A d \in Traffic(c) : net'[d] = net[d]
        BY <1>5, <2>2, <3>3 DEF Traffic
      <4> QED BY <1>1, <2>1, <2>2, <3>1, <3>3, <4>1 DEF Alone
    <3> QED BY <3>2, <3>3
  <2> QED BY <1>1, <2>3, <2>4, NothingNew
<1> QED BY <1>6, <1>7 DEF DatagramInv

\* What one client does is nothing to another.
LEMMA OthersStay ==
  ASSUME DatagramInv, NEW c \in DClients, UNCHANGED <<faults, dserver>>,
         dclients'[c] = dclients[c], inbox'["server"] = inbox["server"], inbox'[c] = inbox[c],
         Traffic(c)' = Traffic(c), \A d \in Traffic(c) : net'[d] = net[d]
  PROVE  Waiting(c)' /\ Matched(c)'
<1>1. InServer(c)' = InServer(c) /\ InReply(c)' = InReply(c)
  BY DEF InServer, InReply
<1>2. Under(c)' \subseteq Under(c)
  BY <1>1 DEF Under
<1>3. Alone(c) => Alone(c)'
  BY <1>1 DEF Alone
<1> QED BY <1>2, <1>3, NothingNew

\* dgramc.c finds a key and creates its session (50-88).
LEMMA dgramcKeyKeeps ==
  ASSUME DatagramInv, UNCHANGED faults, NEW b \in DClients, dgramcKey(b)
  PROVE  DatagramInv'
<1>1. dclients[b].pc = "key" /\ UNCHANGED <<dserver, net, inbox, keyfile, duplicates>>
  BY DEF dgramcKey
<1>2. /\ dclients' \in [DClients -> DClientStates]
      /\ \A c \in DClients : c # b => dclients'[c] = dclients[c]
      /\ dclients'[b].pc \in {"send", "failed"}
      /\ dclients'[b].turn = dclients[b].turn /\ dclients'[b].got = dclients[b].got
  <2>1. dclients \in [DClients -> DClientStates] /\ keyfile \in KeyFiles /\ "fresh" \in KeyFiles
    BY DatagramFacts DEF DatagramTypes
  <2>2. ASSUME NEW k \in KeyFiles, dclients' = [dclients EXCEPT ![b].pc = "send", ![b].key = k]
        PROVE  /\ dclients' \in [DClients -> DClientStates]
               /\ \A c \in DClients : c # b => dclients'[c] = dclients[c]
               /\ dclients'[b].pc \in {"send", "failed"}
               /\ dclients'[b].turn = dclients[b].turn /\ dclients'[b].got = dclients[b].got
    BY <2>1, <2>2 DEF DClientStates, DClientPcs
  <2>3. ASSUME dclients' = [dclients EXCEPT ![b].pc = "failed"]
        PROVE  /\ dclients' \in [DClients -> DClientStates]
               /\ \A c \in DClients : c # b => dclients'[c] = dclients[c]
               /\ dclients'[b].pc \in {"send", "failed"}
               /\ dclients'[b].turn = dclients[b].turn /\ dclients'[b].got = dclients[b].got
    BY <2>1, <2>3 DEF DClientStates, DClientPcs, Ended
  <2> QED BY <2>1, <2>2, <2>3 DEF dgramcKey
<1>3. DatagramTypes'
  BY <1>1, <1>2, DatagramFacts DEF DatagramTypes
<1>4. ASSUME NEW c \in DClients
      PROVE  Waiting(c)' /\ Matched(c)'
  <2>1. Traffic(c)' = Traffic(c) /\ InServer(c)' = InServer(c) /\ InReply(c)' = InReply(c)
    BY <1>1 DEF Traffic, InServer, InReply
  <2>2. CASE c # b
    BY <1>1, <1>2, <2>1, <2>2, OthersStay
  <2>3. CASE c = b
    <3>1. Under(c)' = Under(c) /\ Alone(c)' = Alone(c)
      BY <1>1, <2>1 DEF Under, Alone
    <3>2. dclients[b].turn \in 1..3 /\ Waiting(b) /\ Matched(b)
      BY DatagramFacts DEF DClientStates
    <3>3. Asked(b) = dclients[b].turn - 1 /\ Asked(b)' \in {dclients[b].turn - 1, dclients[b].turn}
      BY <1>1, <1>2 DEF Asked
    <3>4. \A j \in 1..Asked(b) : j \in 1..Asked(b)'
      BY <3>2, <3>3
    <3>5. Waiting(b)'
      BY <1>1, <2>3, <3>1, <3>2, <3>4 DEF Waiting
    <3>6. Matched(b)'
      BY <1>1, <1>2, <3>2 DEF Matched
    <3> QED BY <2>3, <3>5, <3>6
  <2> QED BY <2>2, <2>3
<1> QED BY <1>3, <1>4 DEF DatagramInv

\* A client fails, or reads for ever, after a word that it has sent or not.
LEMMA dgramcFails ==
  ASSUME DatagramInv, NEW b \in DClients, dclients[b].pc \in {"send", "receive"},
         NEW next \in {"error", "spin"}, dclients' = [dclients EXCEPT ![b].pc = next],
         UNCHANGED <<faults, keyfile, dserver, net, inbox>>
  PROVE  DatagramInv'
<1> DEFINE t == dclients[b].turn
<1>1. dclients \in [DClients -> DClientStates] /\ t \in 1..3 /\ Waiting(b) /\ Matched(b)
  BY DatagramFacts DEF DatagramTypes, DClientStates
<1>2. /\ dclients' \in [DClients -> DClientStates]
      /\ \A c \in DClients : c # b => dclients'[c] = dclients[c]
      /\ dclients'[b].pc = next /\ dclients'[b].turn = t /\ dclients'[b].got = dclients[b].got
  BY <1>1 DEF DClientStates, DClientPcs
<1>3. DatagramTypes'
  BY <1>2, DatagramFacts DEF DatagramTypes
<1>4. ASSUME NEW c \in DClients
      PROVE  /\ Traffic(c)' = Traffic(c) /\ InServer(c)' = InServer(c)
             /\ InReply(c)' = InReply(c) /\ Under(c)' = Under(c) /\ Alone(c)' = Alone(c)
  BY DEF Traffic, InServer, InReply, Under, Alone
<1>5. ASSUME NEW c \in DClients, c # b
      PROVE  Waiting(c)' /\ Matched(c)'
  BY <1>2, <1>4, <1>5, OthersStay
<1>6. Waiting(b)'
  <2>1. Asked(b)' = t /\ t \in Int
    BY <1>1, <1>2 DEF Asked
  <2>2. CASE dclients[b].pc = "receive"
    <3>1. Asked(b) = t
      BY <2>2 DEF Asked
    <3> QED BY <1>1, <1>2, <1>4, <2>1, <3>1 DEF Waiting
  <2>3. CASE dclients[b].pc = "send"
    <3>1. Asked(b) = t - 1
      BY <2>3 DEF Asked
    <3>2. \A j \in 1..(t - 1) : j \in 1..t
      BY <2>1
    <3>3. \A w \in Under(b)' : \E j \in 1..Asked(b)' : w = Words[j]
      BY <1>1, <1>4, <2>1, <3>1, <3>2 DEF Waiting
    <3>4. "duplicate" \notin faults => Alone(b)' /\ Under(b)' = {}
      BY <1>1, <1>4, <2>3 DEF Waiting
    <3> QED BY <1>2, <3>3, <3>4 DEF Waiting
  <2> QED BY <2>2, <2>3
<1>7. Matched(b)'
  BY <1>1, <1>2 DEF Matched
<1> QED BY <1>3, <1>5, <1>6, <1>7 DEF DatagramInv

\* It sends its next word (89-94): without duplicates nothing else is under way.
LEMMA dgramcSendKeeps ==
  ASSUME DatagramInv, UNCHANGED faults, NEW b \in DClients, dgramcSend(b)
  PROVE  DatagramInv'
<1> DEFINE t == dclients[b].turn
           x == Datagram("server", b, Words[t])
<1>f. CASE dclients' = [dclients EXCEPT ![b].pc = "error"] /\ UNCHANGED net
  BY <1>f, dgramcFails DEF dgramcSend
<1> SUFFICES ASSUME dclients' = [dclients EXCEPT ![b].pc = "receive"],
                    net' = net \/ net' = BagAdd(net, x)
             PROVE  DatagramInv'
  BY <1>f DEF dgramcSend
<1>1. /\ dclients[b].pc = "send" /\ UNCHANGED <<dserver, inbox, keyfile, duplicates>>
      /\ dclients' = [dclients EXCEPT ![b].pc = "receive"]
      /\ net' = net \/ net' = BagAdd(net, x)
  BY DEF dgramcSend
<1>2. /\ dclients' \in [DClients -> DClientStates]
      /\ \A c \in DClients : c # b => dclients'[c] = dclients[c]
      /\ dclients'[b].pc = "receive"
      /\ dclients'[b].turn = t /\ dclients'[b].got = dclients[b].got
  <2>1. dclients \in [DClients -> DClientStates]
    BY DatagramFacts DEF DatagramTypes
  <2> QED BY <1>1, <2>1 DEF DClientStates, DClientPcs
<1>3. t \in 1..3 /\ Waiting(b) /\ Matched(b) /\ Words[t] \in WordSet
  <2>1. t \in 1..3 /\ Waiting(b) /\ Matched(b)
    BY DatagramFacts DEF DClientStates
  <2>2. t = 1 \/ t = 2 \/ t = 3
    BY <2>1
  <2> QED BY <2>1, <2>2 DEF Words, WordSet
<1>4. x \in Questions /\ x.word = Words[t] /\ About(x) = b
  BY <1>3 DEF Questions, Datagram, About
<1> HIDE DEF x
<1>5. /\ DOMAIN net' = DOMAIN net \/ DOMAIN net' = DOMAIN net \cup {x}
      /\ net' \in [DOMAIN net' -> Nat \ {0}]
      /\ \A d \in DOMAIN net : d # x => net'[d] = net[d]
      /\ x \notin DOMAIN net => x \notin DOMAIN net' \/ net'[x] = 1
  <2>1. net \in [DOMAIN net -> Nat \ {0}]
    BY DatagramFacts DEF DatagramTypes
  <2>2. /\ DOMAIN BagAdd(net, x) = DOMAIN net \cup {x}
        /\ BagAdd(net, x) \in [DOMAIN net \cup {x} -> Nat \ {0}]
        /\ \A d \in DOMAIN net : d # x => BagAdd(net, x)[d] = net[d]
        /\ x \notin DOMAIN net => BagAdd(net, x)[x] = 1
    BY <2>1, BagAdds
  <2>3. CASE net' = net
    BY <2>1, <2>3
  <2>4. CASE net' = BagAdd(net, x)
    BY <2>2, <2>4
  <2> QED BY <1>1, <2>3, <2>4
<1>6. DatagramTypes'
  BY <1>1, <1>2, <1>4, <1>5, DatagramFacts DEF DatagramTypes
<1>7. ASSUME NEW c \in DClients, c # b
      PROVE  Waiting(c)' /\ Matched(c)'
  <2>1. x \notin Traffic(c) /\ Traffic(c)' = Traffic(c)
    BY <1>4, <1>5, <1>7 DEF Traffic
  <2>2. \A d \in Traffic(c) : net'[d] = net[d]
    BY <1>5, <2>1 DEF Traffic
  <2> QED BY <1>1, <1>2, <1>7, <2>1, <2>2, OthersStay
<1>8. Waiting(b)' /\ Matched(b)'
  <2>1. /\ Traffic(b)' \subseteq Traffic(b) \cup {x}
        /\ InServer(b)' = InServer(b) /\ InReply(b)' = InReply(b) /\ inbox'[b] = inbox[b]
    BY <1>1, <1>4, <1>5 DEF Traffic, InServer, InReply
  <2>2. Under(b)' \subseteq Under(b) \cup {Words[t]}
    BY <1>1, <1>4, <2>1 DEF Under
  <2>3. Asked(b) = t - 1 /\ Asked(b)' = t /\ t \in Int
    BY <1>1, <1>2, <1>3 DEF Asked
  <2>4. \A w \in Under(b)' : \E j \in 1..Asked(b)' : w = Words[j]
    <3>1. ASSUME NEW w \in Under(b)' PROVE \E j \in 1..t : w = Words[j]
      <4>1. CASE w = Words[t]
        <5>1. t \in 1..t
          BY <1>3
        <5> QED BY <4>1, <5>1
      <4>2. CASE w \in Under(b)
        <5>1. PICK j \in 1..(t - 1) : w = Words[j]
          BY <1>3, <2>3, <4>2 DEF Waiting
        <5>2. j \in 1..t
          BY <2>3, <5>1
        <5> QED BY <5>1, <5>2
      <4> QED BY <2>2, <3>1, <4>1, <4>2
    <3> QED BY <2>3, <3>1
  <2>5. ASSUME "duplicate" \notin faults
        PROVE  Alone(b)' /\ \A w \in Under(b)' : w = Words[t]
    <3>1. Under(b) = {} /\ Alone(b)
      BY <1>1, <1>3, <2>5 DEF Waiting
    <3>2. Traffic(b) = {} /\ InServer(b) = {} /\ DOMAIN inbox[b] = {} /\ ~InReply(b)
      <4>1. InReply(b) => dserver.word \in Under(b)
        BY DatagramFacts DEF Under, InReply, DatagramTypes
      <4> QED BY <3>1, <4>1 DEF Under
    <3>3. inbox[b] = <<>>
      <4>1. inbox[b] \in Seq(Replied)
        BY DatagramFacts
      <4>2. inbox[b] # <<>> => 1 \in DOMAIN inbox[b]
        BY <4>1, Takes
      <4> QED BY <3>2, <4>2
    <3>4. x \notin DOMAIN net
      BY <1>4, <3>2 DEF Traffic
    <3>5. Alone(b)'
      <4>1. \A d \in Traffic(b)' : d = x /\ net'[d] = 1
        BY <1>5, <2>1, <3>2, <3>4 DEF Traffic
      <4> QED BY <1>1, <2>1, <3>2, <3>3, <4>1 DEF Alone
    <3> QED BY <2>2, <3>1, <3>5
  <2>6. Waiting(b)'
    BY <1>2, <2>3, <2>4, <2>5 DEF Waiting
  <2>7. Matched(b)'
    BY <1>1, <1>2, <1>3 DEF Matched
  <2> QED BY <2>6, <2>7
<1> QED BY <1>6, <1>7, <1>8 DEF DatagramInv

\* It takes what comes first for its answer (95-136): without duplicates that is
\* the answer to its last word.
LEMMA dgramcReceiveKeeps ==
  ASSUME DatagramInv, UNCHANGED faults, NEW b \in DClients, dgramcReceive(b)
  PROVE  DatagramInv'
<1> DEFINE t == dclients[b].turn
           s == inbox[b]
           got == dclients[b].got
<1>1. /\ dclients[b].pc = "receive" /\ UNCHANGED <<dserver, net, keyfile, duplicates>>
      /\ dclients \in [DClients -> DClientStates] /\ s \in Seq(Replied)
      /\ t \in 1..3 /\ Waiting(b) /\ Matched(b) /\ got \in Seq(WordSet) /\ b # "server"
      /\ DOMAIN inbox = DClients \cup {"server"}
  BY DatagramFacts DEF dgramcReceive, DatagramTypes, DClientStates
<1>2. ASSUME NEW next \in {"error", "spin"}, dclients' = [dclients EXCEPT ![b].pc = next],
             UNCHANGED inbox
      PROVE  DatagramInv'
  BY <1>1, <1>2, dgramcFails
<1>3. CASE /\ s # <<>>
           /\ dclients' = [dclients EXCEPT ![b].pc = IF t = 3 THEN "close" ELSE "send",
                                           ![b].turn = IF t = 3 THEN 3 ELSE @ + 1,
                                           ![b].got = Append(@, Head(inbox[b]).word)]
           /\ inbox' = [inbox EXCEPT ![b] = Tail(@)]
  <2> DEFINE h == Head(s)
             r == Tail(s)
             more == Append(got, h.word)
  <2>1. /\ h = s[1] /\ 1 \in DOMAIN s /\ h \in Replied /\ r \in Seq(Replied)
        /\ Len(s) \in Nat /\ Len(r) = Len(s) - 1
        /\ \A i \in DOMAIN r : i + 1 \in DOMAIN s /\ r[i] = s[i + 1]
    BY <1>1, <1>3, Takes
  <2>2. h.word \in WordSet
    BY <2>1 DEF Replied
  <2>3. /\ more \in Seq(WordSet) /\ Len(got) \in Nat /\ Len(more) = Len(got) + 1
        /\ DOMAIN more = DOMAIN got \cup {Len(got) + 1}
        /\ \A i \in DOMAIN got : more[i] = got[i]
        /\ more[Len(got) + 1] = h.word
    BY <1>1, <2>2, Puts
  <2>4. /\ dclients' \in [DClients -> DClientStates]
        /\ \A c \in DClients : c # b => dclients'[c] = dclients[c]
        /\ dclients'[b].got = more
        /\ \/ dclients'[b].pc = "close" /\ dclients'[b].turn = 3 /\ t = 3
           \/ dclients'[b].pc = "send" /\ dclients'[b].turn = t + 1 /\ t # 3
    <3> DEFINE pc == IF t = 3 THEN "close" ELSE "send"
               turn == IF t = 3 THEN 3 ELSE t + 1
    <3>1. dclients' = [dclients EXCEPT ![b] = [dclients[b] EXCEPT !.pc = pc, !.turn = turn, !.got = more]]
      BY <1>1, <1>3
    <3>2. pc \in DClientPcs /\ turn \in 1..3
      BY <1>1 DEF DClientPcs
    <3>3. [dclients[b] EXCEPT !.pc = pc, !.turn = turn, !.got = more] \in DClientStates
      <4>1. dclients[b] \in DClientStates /\ more \in Seq(WordSet)
        BY <1>1, <2>3
      <4> HIDE DEF more, pc, turn
      <4> QED BY <3>2, <4>1 DEF DClientStates
    <3>4. /\ [dclients[b] EXCEPT !.pc = pc, !.turn = turn, !.got = more].pc = pc
          /\ [dclients[b] EXCEPT !.pc = pc, !.turn = turn, !.got = more].turn = turn
          /\ [dclients[b] EXCEPT !.pc = pc, !.turn = turn, !.got = more].got = more
      BY <1>1 DEF DClientStates
    <3> HIDE DEF more
    <3> QED BY <1>1, <3>1, <3>3, <3>4
  <2>5. /\ DOMAIN inbox' = DOMAIN inbox /\ inbox'[b] = r /\ inbox'["server"] = inbox["server"]
        /\ \A c \in DClients : c # b => inbox'[c] = inbox[c]
    BY <1>1, <1>3
  <2>s. inbox[b] = s /\ dclients[b].got = got
    OBVIOUS
  <2> HIDE DEF s, h, r, more, got
  <2>6. DatagramTypes'
    BY <1>1, <2>1, <2>4, <2>5, DatagramFacts DEF DatagramTypes
  <2>7. ASSUME NEW c \in DClients
        PROVE  Traffic(c)' = Traffic(c) /\ InServer(c)' = InServer(c) /\ InReply(c)' = InReply(c)
    BY <1>1, <2>5 DEF Traffic, InServer, InReply
  <2>8. ASSUME NEW c \in DClients, c # b
        PROVE  Waiting(c)' /\ Matched(c)'
    BY <1>1, <2>4, <2>5, <2>7, <2>8, OthersStay
  <2>9. h.word \in Under(b)
    BY <2>1, <2>s DEF Under
  <2>10. Asked(b) = t /\ Asked(b)' = t
    BY <1>1, <2>4 DEF Asked
  <2>11. Under(b)' \subseteq Under(b)
    <3>1. {inbox'[b][i].word : i \in DOMAIN inbox'[b]} \subseteq {inbox[b][i].word : i \in DOMAIN inbox[b]}
      BY <2>1, <2>5, <2>s
    <3>2. {d.word : d \in Traffic(b)'} = {d.word : d \in Traffic(b)}
      BY <2>7
    <3>3. {inbox'["server"][i].word : i \in InServer(b)'} = {inbox["server"][i].word : i \in InServer(b)}
      BY <2>5, <2>7
    <3>4. {w \in WordSet : InReply(b)' /\ w = dserver'.word} = {w \in WordSet : InReply(b) /\ w = dserver.word}
      BY <1>1, <2>7
    <3> QED BY <3>1, <3>2, <3>3, <3>4 DEF Under
  <2>12. ASSUME "duplicate" \notin faults
         PROVE  Alone(b)' /\ Under(b)' = {} /\ h.word = Words[t]
    <3>1. Alone(b) /\ \A w \in Under(b) : w = Words[t]
      BY <1>1, <2>10, <2>12 DEF Waiting
    <3>2. /\ inbox[b] # <<>> /\ Len(inbox[b]) <= 1
          /\ Traffic(b) = {} /\ InServer(b) = {} /\ ~InReply(b)
      BY <1>3, <2>s, <3>1 DEF Alone
    <3>3. r = <<>>
      <4>1. Len(r) = 0
        <5>1. Len(s) # 0
          BY <1>1, <1>3
        <5> QED BY <2>1, <2>s, <3>2, <5>1
      <4> QED BY <2>1, <4>1
    <3>4. Under(b)' = {}
      <4>1. DOMAIN inbox'[b] = {}
        BY <2>5, <3>3
      <4> QED BY <2>7, <3>2, <4>1 DEF Under
    <3>5. Alone(b)'
      <4>1. Len(r) = 0
        BY <3>3
      <4> QED BY <2>5, <2>7, <3>2, <3>3, <4>1 DEF Alone
    <3> QED BY <2>9, <3>1, <3>4, <3>5
  <2>13. Waiting(b)'
    BY <1>1, <2>10, <2>11, <2>12 DEF Waiting
  <2>14. Matched(b)'
    <3>1. Len(got) = t - 1
      BY <1>1, <2>s DEF Matched
    <3>2. Len(more) = t /\ DOMAIN more = DOMAIN got \cup {t} /\ more[t] = h.word
      BY <1>1, <2>3, <3>1
    <3>3. \E j \in 1..t : h.word = Words[j] /\ ("duplicate" \notin faults => j = t)
      <4>1. CASE "duplicate" \in faults
        BY <1>1, <2>9, <2>10, <4>1 DEF Waiting
      <4>2. CASE "duplicate" \notin faults
        <5>1. t \in 1..t
          BY <1>1
        <5> QED BY <2>12, <4>2, <5>1
      <4> QED BY <4>1, <4>2
    <3>4. \A i \in DOMAIN more :
            \E j \in 1..i : more[i] = Words[j] /\ ("duplicate" \notin faults => j = i)
      BY <1>1, <2>3, <2>s, <3>2, <3>3 DEF Matched
    <3>5. dclients'[b].pc \in {"key", "send", "receive"} => Len(more) = dclients'[b].turn - 1
      BY <1>1, <2>4, <3>2
    <3> QED BY <2>4, <3>4, <3>5 DEF Matched
  <2> QED BY <2>6, <2>8, <2>13, <2>14 DEF DatagramInv
<1> QED BY <1>2, <1>3 DEF dgramcReceive

\* It leaves (138-142), and what has come for it is lost.
LEMMA dgramcCloseKeeps ==
  ASSUME DatagramInv, UNCHANGED faults, NEW b \in DClients, dgramcClose(b)
  PROVE  DatagramInv'
<1>1. /\ dclients[b].pc \in {"close", "error"} /\ UNCHANGED <<dserver, net, keyfile, duplicates>>
      /\ dclients' = [dclients EXCEPT ![b].pc = IF @ = "close" THEN "done" ELSE "failed"]
      /\ inbox' = [inbox EXCEPT ![b] = <<>>]
      /\ dclients \in [DClients -> DClientStates] /\ DOMAIN inbox = DClients \cup {"server"}
      /\ b # "server" /\ Waiting(b) /\ Matched(b)
  BY DatagramFacts DEF dgramcClose, DatagramTypes
<1>2. /\ dclients' \in [DClients -> DClientStates]
      /\ \A c \in DClients : c # b => dclients'[c] = dclients[c]
      /\ dclients'[b].pc \in {"done", "failed"}
      /\ dclients'[b].turn = dclients[b].turn /\ dclients'[b].got = dclients[b].got
  <2>1. PICK next \in {"done", "failed"} : dclients' = [dclients EXCEPT ![b].pc = next]
    BY <1>1
  <2>2. next \in DClientPcs
    BY DEF DClientPcs, Ended
  <2>3. dclients \in [DClients -> DClientStates]
    BY <1>1
  <2> QED BY <2>1, <2>2, <2>3 DEF DClientStates
<1>3. /\ DOMAIN inbox' = DOMAIN inbox /\ inbox'[b] = <<>> /\ inbox'["server"] = inbox["server"]
      /\ \A c \in DClients : c # b => inbox'[c] = inbox[c]
  BY <1>1
<1>4. DatagramTypes'
  BY <1>1, <1>2, <1>3, DatagramFacts DEF DatagramTypes
<1>5. ASSUME NEW c \in DClients
      PROVE  Waiting(c)' /\ Matched(c)'
  <2>1. Traffic(c)' = Traffic(c) /\ InServer(c)' = InServer(c) /\ InReply(c)' = InReply(c)
    BY <1>1, <1>3 DEF Traffic, InServer, InReply
  <2>2. CASE c # b
    BY <1>1, <1>2, <1>3, <2>1, <2>2, OthersStay
  <2>3. CASE c = b
    <3>1. Under(b)' \subseteq Under(b)
      BY <1>1, <1>3, <2>1, <2>3 DEF Under
    <3>2. Alone(b) => Alone(b)'
      BY <1>1, <1>3, <2>1, <2>3 DEF Alone
    <3>3. Asked(b)' = Asked(b)
      BY <1>1, <1>2 DEF Asked
    <3>4. Waiting(b)'
      BY <1>1, <1>2, <3>1, <3>2, <3>3 DEF Waiting
    <3>5. Matched(b)'
      BY <1>1, <1>2 DEF Matched
    <3> QED BY <2>3, <3>4, <3>5
  <2> QED BY <2>2, <2>3
<1> QED BY <1>4, <1>5 DEF DatagramInv

\* The network has one datagram less.
LEMMA NetLoses ==
  ASSUME DatagramInv, NEW d \in DOMAIN net, net' = BagRemove(net, d)
  PROVE  /\ DOMAIN net' \subseteq DOMAIN net /\ net' \in [DOMAIN net' -> Nat \ {0}]
         /\ d \in Questions \cup Replied /\ About(d) \in DClients /\ d \in Traffic(About(d))
         /\ d.to = "server" \/ d.to = About(d)
         /\ d \in Questions => d.to = "server" /\ d.from = About(d)
         /\ d \in Replied => d.to = About(d)
         /\ \A c \in DClients :
              /\ Traffic(c)' \subseteq Traffic(c)
              /\ c # About(d) => Traffic(c)' = Traffic(c) /\ \A e \in Traffic(c) : net'[e] = net[e]
              /\ \A e \in Traffic(c) : e # d => net'[e] = net[e]
              /\ Alone(c) /\ c = About(d) =>
                   Traffic(c)' = {} /\ InServer(c) = {} /\ ~InReply(c) /\ inbox[c] = <<>>
<1>1. /\ DOMAIN net' \subseteq DOMAIN net /\ net' \in [DOMAIN net' -> Nat \ {0}]
      /\ \A e \in DOMAIN net : e # d => e \in DOMAIN net' /\ net'[e] = net[e]
      /\ net[d] = 1 => d \notin DOMAIN net'
  <2>1. net \in [DOMAIN net -> Nat \ {0}]
    BY DatagramFacts DEF DatagramTypes
  <2>2. /\ DOMAIN BagRemove(net, d) \subseteq DOMAIN net
        /\ BagRemove(net, d) \in [DOMAIN BagRemove(net, d) -> Nat \ {0}]
        /\ \A e \in DOMAIN net : e # d => e \in DOMAIN BagRemove(net, d) /\ BagRemove(net, d)[e] = net[e]
        /\ net[d] = 1 => d \notin DOMAIN BagRemove(net, d)
    BY <2>1, BagRemoves
  <2> QED BY <2>2
<1>2. /\ d \in Questions \cup Replied
      /\ d \in Questions => d.to = "server" /\ d.from = About(d) /\ About(d) \in DClients
      /\ d \in Replied => d.to = About(d) /\ About(d) \in DClients
  BY DatagramFacts DEF Questions, Replied, About
<1>3. d \in Traffic(About(d))
  BY DEF Traffic
<1>4. ASSUME NEW c \in DClients
      PROVE  /\ Traffic(c)' \subseteq Traffic(c)
             /\ c # About(d) => Traffic(c)' = Traffic(c) /\ \A e \in Traffic(c) : net'[e] = net[e]
             /\ \A e \in Traffic(c) : e # d => net'[e] = net[e]
             /\ Alone(c) /\ c = About(d) =>
                  Traffic(c)' = {} /\ InServer(c) = {} /\ ~InReply(c) /\ inbox[c] = <<>>
  <2>1. Traffic(c)' \subseteq Traffic(c) /\ \A e \in Traffic(c) : e # d => net'[e] = net[e]
    BY <1>1 DEF Traffic
  <2>2. c # About(d) => Traffic(c)' = Traffic(c) /\ d \notin Traffic(c)
    BY <1>1 DEF Traffic
  <2>3. ASSUME Alone(c), c = About(d)
        PROVE  Traffic(c)' = {} /\ InServer(c) = {} /\ ~InReply(c) /\ inbox[c] = <<>>
    <3>1. d \in Traffic(c) /\ net[d] = 1 /\ \A e \in Traffic(c) : e = d
      BY <1>3, <2>3 DEF Alone
    <3>2. d \notin Traffic(c)'
      BY <1>1, <3>1 DEF Traffic
    <3> QED BY <2>1, <2>3, <3>1, <3>2 DEF Alone
  <2> QED BY <2>1, <2>2, <2>3
<1> QED BY <1>1, <1>2, <1>3, <1>4

\* A datagram is lost.
LEMMA LoseKeeps ==
  ASSUME DatagramInv, UNCHANGED faults, Lose
  PROVE  DatagramInv'
<1>1. PICK d \in DOMAIN net : /\ net' = BagRemove(net, d)
                              /\ UNCHANGED <<dserver, dclients, inbox, keyfile, duplicates>>
  BY DEF Lose, BagToSet
<1>2. DatagramTypes'
  BY <1>1, NetLoses, DatagramFacts DEF DatagramTypes
<1>3. ASSUME NEW c \in DClients
      PROVE  Waiting(c)' /\ Matched(c)'
  <2>1. InServer(c)' = InServer(c) /\ InReply(c)' = InReply(c) /\ Traffic(c)' \subseteq Traffic(c)
    BY <1>1, NetLoses DEF InServer, InReply
  <2>2. CASE c # About(d)
    BY <1>1, <2>2, NetLoses, OthersStay
  <2>3. CASE c = About(d)
    <3>1. Under(c)' \subseteq Under(c)
      BY <1>1, <2>1 DEF Under
    <3>2. Alone(c) => Alone(c)'
      <4>1. Alone(c) => Traffic(c)' = {}
        BY <1>1, <2>3, NetLoses
      <4> QED BY <1>1, <2>1, <4>1 DEF Alone
    <3> QED BY <1>1, <3>1, <3>2, NothingNew
  <2> QED BY <2>2, <2>3
<1> QED BY <1>2, <1>3 DEF DatagramInv

\* A datagram comes twice: what is under way is at least a word that was sent.
LEMMA DuplicateKeeps ==
  ASSUME DatagramInv, UNCHANGED faults, Duplicate
  PROVE  DatagramInv'
<1>1. PICK d \in DOMAIN net : /\ "duplicate" \in faults /\ net' = BagAdd(net, d)
                              /\ UNCHANGED <<dserver, dclients, inbox, keyfile>>
  BY DEF Duplicate, BagToSet
<1>2. DOMAIN net' = DOMAIN net /\ net' \in [DOMAIN net -> Nat \ {0}]
  <2>1. net \in [DOMAIN net -> Nat \ {0}] /\ DOMAIN net \cup {d} = DOMAIN net
    BY DatagramFacts DEF DatagramTypes
  <2>2. /\ DOMAIN BagAdd(net, d) = DOMAIN net \cup {d}
        /\ BagAdd(net, d) \in [DOMAIN net \cup {d} -> Nat \ {0}]
    BY <2>1, BagAdds
  <2> QED BY <1>1, <2>1, <2>2
<1>3. DatagramTypes'
  BY <1>1, <1>2, DatagramFacts DEF DatagramTypes
<1>4. ASSUME NEW c \in DClients
      PROVE  Waiting(c)' /\ Matched(c)'
  <2>1. InServer(c)' = InServer(c) /\ InReply(c)' = InReply(c) /\ Traffic(c)' = Traffic(c)
    BY <1>1, <1>2 DEF InServer, InReply, Traffic
  <2>2. Under(c)' \subseteq Under(c)
    BY <1>1, <2>1 DEF Under
  <2> QED BY <1>1, <2>2, NothingNew
<1> QED BY <1>3, <1>4 DEF DatagramInv

\* A datagram moves from the network to the queue of its receiver.
LEMMA DeliverKeeps ==
  ASSUME DatagramInv, UNCHANGED faults, Deliver
  PROVE  DatagramInv'
<1>1. PICK d \in DOMAIN net :
         /\ net' = BagRemove(net, d)
         /\ inbox' = IF Closed(d.to) THEN inbox ELSE [inbox EXCEPT ![d.to] = Append(@, d)]
         /\ UNCHANGED <<dserver, dclients, keyfile, duplicates>>
  BY DEF Deliver, BagToSet
<1> DEFINE b == About(d)
<1>2. /\ b \in DClients /\ b # "server" /\ d \in Questions \cup Replied
      /\ d \in Questions => d.to = "server" /\ d.from = b
      /\ d \in Replied => d.to = b
      /\ DOMAIN inbox = DClients \cup {"server"} /\ d \in Traffic(b)
  BY <1>1, NetLoses, DatagramFacts DEF DatagramTypes
<1> HIDE DEF b
<1>3. CASE Closed(d.to)
  <2>1. inbox' = inbox
    BY <1>1, <1>3
  <2>2. DatagramTypes'
    BY <1>1, <2>1, NetLoses, DatagramFacts DEF DatagramTypes
  <2>3. ASSUME NEW c \in DClients
        PROVE  Waiting(c)' /\ Matched(c)'
    <3>1. InServer(c)' = InServer(c) /\ InReply(c)' = InReply(c) /\ Traffic(c)' \subseteq Traffic(c)
      BY <1>1, <2>1, NetLoses DEF InServer, InReply
    <3>2. CASE c # b
      BY <1>1, <2>1, <3>2, NetLoses, OthersStay DEF b
    <3>3. CASE c = b
      <4>1. Under(c)' \subseteq Under(c)
        BY <1>1, <2>1, <3>1 DEF Under
      <4>2. Alone(c) => Traffic(c)' = {}
        BY <1>1, <3>3, NetLoses DEF b
      <4>3. Alone(c) => Alone(c)'
        BY <1>1, <2>1, <3>1, <4>2 DEF Alone
      <4> QED BY <1>1, <4>1, <4>3, NothingNew
    <3> QED BY <3>2, <3>3
  <2> QED BY <2>2, <2>3 DEF DatagramInv
<1>4. CASE ~Closed(d.to) /\ d \in Questions
  <2> DEFINE s == inbox["server"]
  <2>1. s \in Seq(Questions)
    BY DatagramFacts DEF DatagramTypes
  <2>2. /\ Append(s, d) \in Seq(Questions) /\ Len(s) \in Nat
        /\ DOMAIN Append(s, d) = DOMAIN s \cup {Len(s) + 1}
        /\ \A i \in DOMAIN s : Append(s, d)[i] = s[i]
        /\ Append(s, d)[Len(s) + 1] = d
    BY <1>4, <2>1, Puts
  <2>3. /\ DOMAIN inbox' = DOMAIN inbox /\ inbox'["server"] = Append(s, d)
        /\ \A c \in DClients : inbox'[c] = inbox[c]
    BY <1>1, <1>2, <1>4, DatagramFacts
  <2>4. inbox["server"] = s
    OBVIOUS
  <2> DEFINE n == Len(s) + 1
             a == Append(s, d)
  <2> HIDE DEF s, n, a
  <2>5. DatagramTypes'
    BY <1>1, <2>2, <2>3, NetLoses, DatagramFacts DEF DatagramTypes
  <2>6. ASSUME NEW c \in DClients
        PROVE  Waiting(c)' /\ Matched(c)'
    <3>1. InReply(c)' = InReply(c) /\ Traffic(c)' \subseteq Traffic(c)
      BY <1>1, NetLoses DEF InReply
    <3>2. /\ c # b => InServer(c)' = InServer(c)
          /\ c = b => InServer(c)' \subseteq InServer(c) \cup {n}
          /\ \A i \in InServer(c) : inbox'["server"][i] = inbox["server"][i]
          /\ inbox'["server"][n] = d
      <4>1. /\ inbox'["server"] = a /\ DOMAIN a = DOMAIN s \cup {n} /\ a[n] = d /\ d.from = b
            /\ \A i \in DOMAIN s : a[i] = s[i]
        BY <1>2, <1>4, <2>2, <2>3 DEF a, n
      <4>2. n \notin DOMAIN s
        <5>1. DOMAIN s = 1..Len(s)
          BY <2>1 DEF s
        <5> QED BY <2>2, <5>1 DEF n
      <4> QED BY <2>4, <4>1, <4>2 DEF InServer
    <3>3. Under(c)' \subseteq Under(c)
      <4>1. SUFFICES ASSUME NEW w \in Under(c)' PROVE w \in Under(c)
        OBVIOUS
      <4>2. CASE w \in {e.word : e \in Traffic(c)'}
        BY <3>1, <4>2 DEF Under
      <4>3. CASE w \in {inbox'["server"][i].word : i \in InServer(c)'}
        <5>1. PICK i \in InServer(c)' : w = inbox'["server"][i].word
          BY <4>3
        <5>2. CASE i \in InServer(c)
          BY <3>2, <5>1, <5>2 DEF Under
        <5>3. CASE i \notin InServer(c)
          <6>1. c = b /\ i = n
            BY <3>2, <5>3
          <6>2. w = d.word /\ d \in Traffic(c)
            BY <1>2, <3>2, <5>1, <6>1
          <6> QED BY <6>2 DEF Under
        <5> QED BY <5>2, <5>3
      <4>4. CASE InReply(c)' /\ w \in WordSet /\ w = dserver'.word
        BY <1>1, <3>1, <4>4 DEF Under
      <4>5. CASE w \in {inbox'[c][i].word : i \in DOMAIN inbox'[c]}
        BY <2>3, <4>5 DEF Under
      <4> QED BY <4>1, <4>2, <4>3, <4>4, <4>5 DEF Under
    <3>4. Alone(c) => Alone(c)'
      <4>1. SUFFICES ASSUME Alone(c) PROVE Alone(c)'
        OBVIOUS
      <4>2. CASE c = b
        <5>1. Traffic(c)' = {} /\ InServer(c) = {} /\ ~InReply(c) /\ inbox[c] = <<>>
          BY <1>1, <4>1, <4>2, NetLoses DEF b
        <5>2. \A i \in InServer(c)' : i = n
          BY <3>2, <4>2, <5>1
        <5>3. Len(inbox'[c]) <= 1
          BY <2>3, <4>1 DEF Alone
        <5> QED BY <2>3, <3>1, <5>1, <5>2, <5>3 DEF Alone
      <4>3. CASE c # b
        <5>1. Traffic(c)' = Traffic(c) /\ \A e \in Traffic(c) : net'[e] = net[e]
          BY <1>1, <4>3, NetLoses DEF b
        <5> QED BY <2>3, <3>1, <3>2, <4>1, <4>3, <5>1 DEF Alone
      <4> QED BY <4>2, <4>3
    <3> QED BY <1>1, <3>3, <3>4, NothingNew
  <2> QED BY <2>5, <2>6 DEF DatagramInv
<1>5. CASE ~Closed(d.to) /\ d \in Replied
  <2> DEFINE s == inbox[b]
  <2>1. s \in Seq(Replied) /\ inbox[b] = s
    BY <1>2, DatagramFacts
  <2>2. /\ Append(s, d) \in Seq(Replied) /\ Len(s) \in Nat /\ Len(Append(s, d)) = Len(s) + 1
        /\ DOMAIN Append(s, d) = DOMAIN s \cup {Len(s) + 1}
        /\ \A i \in DOMAIN s : Append(s, d)[i] = s[i]
        /\ Append(s, d)[Len(s) + 1] = d
    BY <1>5, <2>1, Puts
  <2>3. /\ DOMAIN inbox' = DOMAIN inbox /\ inbox'[b] = Append(s, d) /\ inbox'["server"] = inbox["server"]
        /\ \A c \in DClients : c # b => inbox'[c] = inbox[c]
    BY <1>1, <1>2, <1>5
  <2> DEFINE a == Append(s, d)
             n == Len(s) + 1
  <2> HIDE DEF s, a, n
  <2>4. DatagramTypes'
    BY <1>1, <1>2, <2>2, <2>3, NetLoses, DatagramFacts DEF DatagramTypes
  <2>5. ASSUME NEW c \in DClients, c # b
        PROVE  Waiting(c)' /\ Matched(c)'
    BY <1>1, <2>3, <2>5, NetLoses, OthersStay DEF b
  <2>6. Waiting(b)' /\ Matched(b)'
    <3>1. /\ InReply(b)' = InReply(b) /\ Traffic(b)' \subseteq Traffic(b)
          /\ InServer(b)' = InServer(b)
      BY <1>1, <1>2, <2>3, NetLoses DEF InReply, InServer
    <3>2. Under(b)' \subseteq Under(b)
      <4>1. SUFFICES ASSUME NEW w \in Under(b)' PROVE w \in Under(b)
        OBVIOUS
      <4>2. CASE w \in {e.word : e \in Traffic(b)'}
        BY <3>1, <4>2 DEF Under
      <4>3. CASE w \in {inbox'["server"][i].word : i \in InServer(b)'}
        BY <2>3, <3>1, <4>3 DEF Under
      <4>4. CASE InReply(b)' /\ w \in WordSet /\ w = dserver'.word
        BY <1>1, <3>1, <4>4 DEF Under
      <4>5. CASE w \in {inbox'[b][i].word : i \in DOMAIN inbox'[b]}
        <5>1. PICK i \in DOMAIN inbox'[b] : w = inbox'[b][i].word
          BY <4>5
        <5>2. CASE i \in DOMAIN s
          <6>1. w = inbox[b][i].word /\ i \in DOMAIN inbox[b]
            BY <2>1, <2>2, <2>3, <5>1, <5>2
          <6> QED BY <6>1 DEF Under
        <5>3. CASE i \notin DOMAIN s
          <6>1. w = d.word
            BY <2>2, <2>3, <5>1, <5>3
          <6> QED BY <1>2, <6>1 DEF Under
        <5> QED BY <5>2, <5>3
      <4> QED BY <4>1, <4>2, <4>3, <4>4, <4>5 DEF Under
    <3>3. Alone(b) => Alone(b)'
      <4>1. SUFFICES ASSUME Alone(b) PROVE Alone(b)'
        OBVIOUS
      <4>2. Traffic(b)' = {} /\ InServer(b) = {} /\ ~InReply(b) /\ inbox[b] = <<>>
        BY <1>1, <1>2, <4>1, NetLoses DEF b
      <4>3. Len(inbox'[b]) <= 1
        <5>1. Len(s) = 0
          BY <2>1, <4>2
        <5> QED BY <2>2, <2>3, <5>1
      <4> QED BY <3>1, <4>2, <4>3 DEF Alone
    <3>4. dclients'[b] = dclients[b]
      BY <1>1
    <3> QED BY <1>2, <3>2, <3>3, <3>4, NothingNew
  <2> QED BY <2>4, <2>5, <2>6 DEF DatagramInv
<1> QED BY <1>2, <1>3, <1>4, <1>5

\* Every step of the datagrams keeps the invariant.
LEMMA DatagramsKeep ==
  ASSUME DatagramInv, UNCHANGED faults,
         DServerStep \/ Deliver \/ Lose \/ Duplicate \/ \E c \in DClients : DClientStep(c)
  PROVE  DatagramInv'
<1>1. CASE DServerStep
  BY <1>1, dgramsCreateKeeps, dgramsReceiveKeeps, dgramsReplyKeeps, dgramsCloseKeeps DEF DServerStep
<1>2. CASE Deliver \/ Lose \/ Duplicate
  BY <1>2, DeliverKeeps, LoseKeeps, DuplicateKeeps
<1>3. CASE \E c \in DClients : DClientStep(c)
  BY <1>3, dgramcKeyKeeps, dgramcSendKeeps, dgramcReceiveKeeps, dgramcCloseKeeps DEF DClientStep
<1> QED BY <1>1, <1>2, <1>3

-----------------------------------------------------------------------------
(* Both.                                                                   *)

\* The streams begin in it.
LEMMA StreamsBegin ==
  ASSUME keyfile \in {"none", "stale"}, faults \in SUBSET StreamFaults, StreamsInit
  PROVE  StreamInv
<1>1. /\ server.name \in {"streams", "test_ss"} /\ server.pc = "create" /\ server.conn = "none"
      /\ server.str = <<>> /\ server.out = <<>> /\ server.doQuit = FALSE
      /\ server \in ServerStates
  <2>1. server \in [name : Servers, pc : {"create"}, conn : {"none"},
                    str : {<<>>}, out : {<<>>}, doQuit : {FALSE}]
    BY DEF StreamsInit
  <2>2. Servers \subseteq {"streams", "test_ss"} /\ "create" \in ServerPcs
    BY ProgramsAssumption DEF ServerPcs
  <2> QED BY <2>1, <2>2, EmptyText DEF ServerStates
<1>2. /\ client.name \in {"streamc", "test_sc"} /\ client.pc = "key" /\ client.conn = "none"
      /\ client.out = <<>> /\ client.udata = 0
      /\ client \in ClientStates
  <2>1. client \in [name : Clients, silent : BOOLEAN, pc : {"key"}, conn : {"none"},
                    key : {"none"}, out : {<<>>}, udata : {0}]
    BY DEF StreamsInit
  <2>2. Clients \subseteq {"streamc", "test_sc"} /\ "key" \in ClientPcs /\ "none" \in KeyFiles
    BY ProgramsAssumption DEF ClientPcs, KeyFiles
  <2>3. /\ client.name \in Clients /\ client.pc = "key" /\ client.conn = "none"
        /\ client.out = <<>> /\ client.udata = 0
    BY <2>1
  <2>4. client \in ClientStates
    <3>1. 0 \in 0..2
      OBVIOUS
    <3>2. PICK n \in Clients, silent \in BOOLEAN :
            client = [name |-> n, silent |-> silent, pc |-> "key", conn |-> "none",
                      key |-> "none", out |-> <<>>, udata |-> 0]
      BY <2>1
    <3> QED BY <2>2, <3>1, <3>2, EmptyText DEF ClientStates
  <2> QED BY <2>2, <2>3, <2>4
<1>3. toServer = <<>> /\ toClient = <<>> /\ echoed = <<>> /\ heard = <<>>
  BY DEF StreamsInit
<1>4. StreamTypes
  <2>1. keylen \in {516, 616} /\ cut \in BOOLEAN
    BY DEF StreamsInit
  <2>2. faults \subseteq StreamFaults \cup DatagramFaults /\ keyfile \in KeyFiles
    BY DEF KeyFiles
  <2> QED BY <1>1, <1>2, <1>3, <2>1, <2>2, EmptyText DEF StreamTypes
<1>5. ClientAt /\ ServerAt /\ Unconnected
  BY <1>1, <1>2, <1>3 DEF ClientAt, ServerAt, Unconnected, Ended
<1>6. Upstream
  BY <1>1 DEF Upstream
<1>7. Downstream
  <2>1. <<>> ++ (<<>> ++ <<>>) = <<>>
    BY EmptyText, TextFacts
  <2>2. heard ++ (toClient ++ <<>>) = echoed
    BY <1>3, <2>1
  <2> QED BY <2>2, EmptyText DEF Downstream
<1>8. Finished
  <2>1. Answers \in Texts
    BY <1>4, AnswersAre, RepliesAre
  <2>2. IsPrefix(<<>>, <<>> ++ Answers) /\ <<>> ++ Answers = Answers
    BY <2>1, EmptyText, Prefix, TextFacts
  <2> QED BY <1>1, <1>3, <2>2 DEF Finished
<1> QED BY <1>4, <1>5, <1>6, <1>7, <1>8 DEF StreamInv

\* The datagrams begin in it.
LEMMA DatagramsBegin ==
  ASSUME keyfile \in {"none", "stale"}, faults \in SUBSET DatagramFaults, DatagramsInit
  PROVE  DatagramInv
<1>1. /\ dserver = [pc |-> "create", destkey |-> "nobody", word |-> "none"]
      /\ dclients = [c \in DClients |-> [pc |-> "key", key |-> "none", turn |-> 1, got |-> <<>>]]
      /\ net = EmptyBag
      /\ inbox = [p \in DClients \cup {"server"} |-> <<>>]
  BY DEF DatagramsInit
<1>2. DOMAIN net = {} /\ net \in [DOMAIN net -> Nat \ {0}]
  BY <1>1 DEF EmptyBag, SetToBag
<1>3. DatagramTypes
  <2>1. dserver \in DServerStates
    BY <1>1 DEF DServerStates, DServerPcs
  <2>2. dclients \in [DClients -> DClientStates]
    BY <1>1 DEF DClientStates, DClientPcs, KeyFiles
  <2> QED BY <1>1, <1>2, <2>1, <2>2 DEF DatagramTypes, KeyFiles
<1>4. ASSUME NEW c \in DClients
      PROVE  Waiting(c) /\ Matched(c)
  <2>1. dclients[c].pc = "key" /\ dclients[c].got = <<>> /\ dclients[c].turn = 1 /\ inbox[c] = <<>>
    BY <1>1
  <2>2. Traffic(c) = {} /\ InServer(c) = {} /\ ~InReply(c)
    BY <1>1, <1>2 DEF Traffic, InServer, InReply
  <2>3. Under(c) = {}
    BY <2>1, <2>2 DEF Under
  <2>4. Alone(c)
    BY <2>1, <2>2 DEF Alone
  <2> QED BY <2>1, <2>3, <2>4 DEF Waiting, Matched
<1> QED BY <1>3, <1>4 DEF DatagramInv

\* The invariant holds: a system of streams never turns into one of datagrams.
LEMMA ExamplesInvHolds == Spec => []ExamplesInv
<1>1. Init => ExamplesInv
  <2>1. ASSUME keyfile \in {"none", "stale"}, faults \in SUBSET StreamFaults, StreamsInit
        PROVE  OverStreams /\ StreamInv
    <3>1. StreamInv
      BY <2>1, StreamsBegin
    <3>2. OverStreams
      BY <2>1 DEF StreamsInit, OverStreams
    <3> QED BY <3>1, <3>2
  <2>2. ASSUME keyfile \in {"none", "stale"}, faults \in SUBSET DatagramFaults, DatagramsInit
        PROVE  DatagramInv
    BY <2>2, DatagramsBegin
  <2> QED BY <2>1, <2>2 DEF Init, ExamplesInv
<1>2. ExamplesInv /\ [Next]_vars => ExamplesInv'
  <2>1. ASSUME ExamplesInv, OverStreams, StreamInv, ServerStep \/ ClientStep \/ Cut, UNCHANGED faults
        PROVE  ExamplesInv'
    <3>1. StreamInv'
      BY <2>1, StreamsKeep
    <3>2. OverStreams'
      BY <3>1 DEF StreamInv, StreamTypes, ServerStates, ServerPcs, Ended, OverStreams
    <3> QED BY <3>1, <3>2 DEF ExamplesInv
  <2>2. ASSUME StreamsOff, DatagramInv, UNCHANGED <<faults, svars>>,
               DServerStep \/ Deliver \/ Lose \/ Duplicate \/ \E c \in DClients : DClientStep(c)
        PROVE  ExamplesInv'
    <3>1. DatagramInv'
      BY <2>2, DatagramsKeep
    <3>2. StreamsOff'
      BY <2>2 DEF StreamsOff, svars
    <3> QED BY <3>1, <3>2 DEF ExamplesInv
  <2>3. ASSUME OverStreams, StreamInv, UNCHANGED vars
        PROVE  ExamplesInv'
    <3>1. UNCHANGED <<faults, keyfile, server, client, keylen, toServer, toClient, cut, echoed, heard>>
      BY <2>3 DEF vars, svars
    <3>2. StreamTypes' /\ ClientAt' /\ ServerAt' /\ Unconnected'
      BY <2>3, <3>1 DEF StreamInv, StreamTypes, ClientAt, ServerAt, Unconnected
    <3>3. Upstream' /\ Downstream'
      BY <2>3, <3>1 DEF StreamInv, Upstream, Downstream, Taken
    <3>4. Finished'
      BY <2>3, <3>1 DEF StreamInv, Finished, Answers, Answer
    <3>5. OverStreams'
      BY <2>3, <3>1 DEF OverStreams
    <3> QED BY <3>2, <3>3, <3>4, <3>5 DEF StreamInv, ExamplesInv
  <2>4. ASSUME StreamsOff, DatagramInv, UNCHANGED vars
        PROVE  ExamplesInv'
    <3>1. UNCHANGED <<faults, keyfile, dserver, dclients, net, inbox>> /\ UNCHANGED svars
      BY <2>4 DEF vars, dvars
    <3>2. DatagramTypes'
      BY <3>1, <2>4 DEF DatagramInv, DatagramTypes
    <3>3. ASSUME NEW c \in DClients PROVE Waiting(c)' /\ Matched(c)'
      BY <2>4, <3>1, OthersStay DEF Traffic
    <3>4. StreamsOff'
      BY <2>4, <3>1 DEF StreamsOff, svars
    <3> QED BY <3>2, <3>3, <3>4 DEF DatagramInv, ExamplesInv
  <2>5. StreamsOff => ~OverStreams
    BY DEF StreamsOff, OverStreams
  <2> QED BY <2>1, <2>2, <2>3, <2>4, <2>5 DEF ExamplesInv, Next, Streams, Datagrams
<1> QED BY <1>1, <1>2, PTL DEF Spec

-----------------------------------------------------------------------------
\* TypeOK: whichever programs run and whatever goes wrong, each is at one of the
\* steps of its main() or its callbacks, and what is on the wire are symbols;
\* every datagram on the network has a receiver.
THEOREM ExamplesTypeCorrect == Spec => []TypeOK
<1>1. ExamplesInv => TypeOK
  <2>1. ASSUME OverStreams, StreamInv PROVE TypeOK
    BY <2>1 DEF StreamInv, StreamTypes, ServerStates, ClientStates, ServerPcs, ClientPcs, Texts, TypeOK
  <2>2. ASSUME StreamsOff, DatagramInv PROVE TypeOK
    <3>1. ~OverStreams /\ toServer = <<>> /\ toClient = <<>> /\ echoed = <<>> /\ heard = <<>>
          /\ keylen = 516 /\ cut = FALSE
      BY <2>2 DEF StreamsOff, OverStreams
    <3>2. \A d \in BagToSet(net) : d.to \in DOMAIN inbox
      BY <2>2, DatagramFacts DEF DatagramTypes, BagToSet, Questions, Replied
    <3>3. /\ dserver.pc \in DServerPcs
          /\ \A c \in DClients : dclients[c].pc \in DClientPcs /\ dclients[c].turn \in 1..3
      BY <2>2, DatagramFacts DEF DatagramTypes, DServerStates, DClientStates
    <3>4. faults \subseteq StreamFaults \cup DatagramFaults /\ keyfile \in KeyFiles
      BY <2>2, DatagramFacts DEF DatagramTypes
    <3>5. \A wire \in {toServer, toClient, echoed, heard} : wire \in Seq(Symbols)
      BY <3>1, EmptyText DEF Texts
    <3>6. keylen \in {516, 616} /\ cut \in BOOLEAN
      BY <3>1
    <3> HIDE DEF OverStreams
    <3> QED BY <3>1, <3>2, <3>3, <3>4, <3>5, <3>6 DEF TypeOK, DServerPcs, DClientPcs
  <2> QED BY <2>1, <2>2 DEF ExamplesInv
<1> QED BY <1>1, ExamplesInvHolds, PTL

\* EchoWhole, for any server, any client and any faults: however lines are cut
\* on their way, the client reads a beginning of what the server has echoed, that
\* is a beginning of the answers to what the client has said, and a server that
\* leaves because of a "quit" has answered everything (test_ss.c:84-119,
\* streams.c:64-87).
THEOREM EchoWholeHolds == Spec => []EchoWhole
<1>1. ExamplesInv => EchoWhole
  <2>1. ASSUME StreamInv PROVE EchoWhole
    <3>1. heard \in Texts /\ toClient \in Texts /\ echoed \in Texts /\ StreamTypes
      BY <2>1 DEF StreamInv, StreamTypes
    <3>2. IsPrefix(heard, echoed)
      <4>1. PICK lost \in Texts : heard ++ (toClient ++ lost) = echoed
        BY <2>1 DEF StreamInv, Downstream
      <4>2. toClient ++ lost \in Texts
        BY <3>1, Joins
      <4>3. IsPrefix(heard, heard ++ (toClient ++ lost))
        BY <3>1, <4>2, Prefix
      <4> QED BY <4>1, <4>3
    <3>3. IsPrefix(echoed, Answers) /\ Answers \in Texts
      BY <2>1, <3>1, AnswersAre, RepliesAre DEF StreamInv, Finished
    <3>4. Len(echoed) <= Len(Answers)
      BY <3>1, <3>3, Prefix
    <3>5. ASSUME server.pc = "done", server.doQuit, "memory" \notin faults
          PROVE  echoed = Answers
      <4>1. CASE server.name = "test_ss"
        <5>1. echoed = Said(2) /\ Answers = Said(client.udata) /\ client.udata \in 0..2
          BY <2>1, <3>1, <3>5, <4>1, AnswersAre, RepliesAre DEF StreamInv, Finished
        <5>2. Len(Said(2)) = 2 * 2 /\ Len(Said(client.udata)) = 2 * client.udata
          <6>1. 2 \in 0..2
            OBVIOUS
          <6> QED BY <5>1, <6>1, SaidAt
        <5>3. 2 * 2 <= 2 * client.udata
          BY <3>4, <5>1, <5>2
        <5> QED BY <5>1, <5>3
      <4>2. CASE server.name = "streams"
        <5>1. echoed = Re /\ Answers \in {<<>>, Re}
          BY <2>1, <3>1, <3>5, <4>2, AnswersAre, RepliesAre DEF StreamInv, ServerAt
        <5>2. Answers # <<>>
          <6>1. Len(Re) = 3 /\ Len(<<>>) = 0
            BY SaidTexts, EmptyText, TextFacts
          <6> QED BY <3>4, <5>1, <6>1
        <5> QED BY <5>1, <5>2
      <4> QED BY <3>1, <4>1, <4>2, AnswersAre
    <3> QED BY <3>2, <3>3, <3>5 DEF EchoWhole
  <2>2. ASSUME StreamsOff PROVE EchoWhole
    BY <2>2 DEF StreamsOff, OverStreams, EchoWhole
  <2> QED BY <2>1, <2>2 DEF ExamplesInv
<1> QED BY <1>1, ExamplesInvHolds, PTL

\* AnswersMatch, for any number of clients, and any number of datagrams that come
\* twice or are lost: what dgramc.c takes for the answer to its last word is the
\* answer to that word if nothing comes twice, and otherwise the answer to one
\* that it has sent (dgramc.c:91-136, dgrams.c:96-115).
THEOREM AnswersMatchHolds == Spec => []AnswersMatch
<1>1. ExamplesInv => AnswersMatch
  <2>1. ASSUME OverStreams PROVE AnswersMatch
    BY <2>1 DEF AnswersMatch
  <2>2. ASSUME DatagramInv PROVE AnswersMatch
    BY <2>2 DEF DatagramInv, Matched, AnswersMatch
  <2> QED BY <2>1, <2>2 DEF ExamplesInv
<1> QED BY <1>1, ExamplesInvHolds, PTL
=============================================================================
