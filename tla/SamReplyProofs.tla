--------------------------- MODULE SamReplyProofs ---------------------------
(***************************************************************************)
(* Proofs about the reply parser, for every set of lines, every alphabet,  *)
(* every size of the buffer and every malloc() that fails: what the reader *)
(* takes, what becomes of the memory, the types, that the two loops over a *)
(* list agree, and that the list is what the line means.                   *)
(*                                                                         *)
(* What a loop computes is a recursive function, and what it computes for  *)
(* every line is a matter of induction.  DownInduction and UpInduction say *)
(* it with a set of places, and follow from the least element of a set of  *)
(* numbers; with them a recursive function is shown to exist, so that it   *)
(* is what its equation says, and then to be right.                        *)
(*                                                                         *)
(* The parser is compared with Meaning, which looks at the line as a       *)
(* whole.  WordInv says that as many words have been passed as are in the  *)
(* list, that they are those of the line, and that the parser stands at a  *)
(* space outside of quotes: only there does xstrtokend, which forgets what *)
(* it knew of quotes at every word, start anew without harm.               *)
(***************************************************************************)
EXTENDS SamReplyProperties, SequenceTheorems, FiniteSetTheorems,
        WellFoundedInduction, TLAPS

-----------------------------------------------------------------------------
(* The reader.                                                             *)

\* A reader that is still at work has neither the end of the line nor the last
\* byte of the buffer.
ReadInv ==
  /\ rep \in Lines
  /\ got \in Nat
  /\ pc = "read" => got <= Len(rep) /\ got < RepSize
  /\ ReadsOneLine

\* A line has a length.
LEMMA LineLength == ASSUME NEW l \in Lines PROVE Len(l) \in Nat
<1>1. l \in Seq(Char)
  BY ReplyAssumption DEF Text
<1> QED BY <1>1

\* Nothing is read yet.
LEMMA ReadInit == Init => ReadInv
BY LineLength, ReplyAssumption DEF Init, ReadInv, ReadsOneLine

\* The reader goes on; what is read stays what it is once the parser is at work.
LEMMA ReadStep == ReadInv /\ [Next]_vars => ReadInv'
<1> SUFFICES ASSUME ReadInv, [Next]_vars PROVE ReadInv'
  OBVIOUS
<1>1. Len(rep) \in Nat /\ RepSize \in Nat /\ RepSize >= 1
  BY LineLength, ReplyAssumption DEF ReadInv
<1>2. CASE sam3tcpReceiveStr
  <2>1. ASSUME NEW rd \in 1..Room - 1,
               got' = got + Taken(rd),
               pc' = IF got + rd >= End THEN "words" ELSE "read"
        PROVE  ReadInv'
    BY <1>1, <1>2, <2>1 DEF sam3tcpReceiveStr, ReadInv, ReadsOneLine, Taken, Room, End
  <2>2. ASSUME Room <= 1, pc' = "tooLong", UNCHANGED got
        PROVE  ReadInv'
    BY <1>1, <1>2, <2>2 DEF sam3tcpReceiveStr, ReadInv, ReadsOneLine, Room, End
  <2> QED BY <1>2, <2>1, <2>2 DEF sam3tcpReceiveStr
<1>3. ASSUME pc \notin {"read", "tooLong"}, pc' \notin {"read", "tooLong"},
             UNCHANGED <<rep, got>>
      PROVE  ReadInv'
  BY <1>3 DEF ReadInv, ReadsOneLine, End
<1>4. CASE ParseWords \/ ParseField
  <2>1. /\ pc \in {"words", "fields"}
        /\ pc' \in {"tooShort", "list", "fields", "error", "lost"}
        /\ UNCHANGED <<rep, got>>
    BY <1>4 DEF ParseWords, ParseField, AddItem
  <2> QED BY <1>3, <2>1
<1>5. CASE Release
  BY <1>3, <1>5 DEF Release
<1>6. CASE UNCHANGED vars
  BY <1>6 DEF vars, ReadInv, ReadsOneLine, End
<1> QED BY <1>2, <1>4, <1>5, <1>6 DEF Next, Returned

\* However a reply is cut into segments, one line is read and no more, and the
\* lines given up on are those that do not fit (sam3tcpReceiveStr).
THEOREM ReadsOneLineHolds == Spec => []ReadsOneLine
<1>1. ReadInv => ReadsOneLine
  BY DEF ReadInv
<1> QED BY <1>1, ReadInit, ReadStep, PTL DEF Spec

-----------------------------------------------------------------------------
(* The memory.                                                             *)

HeapInv == /\ \E S : list \in Seq(S)
           /\ HeapAccounted

\* A list that has grown points to what it pointed to, and more.
LEMMA Grown ==
  ASSUME NEW S, NEW l \in Seq(S), NEW x
  PROVE  /\ Append(l, x) \in Seq(S \cup {x})
         /\ Pointers(l) \subseteq Pointers(Append(l, x))
<1>1. l \in Seq(S \cup {x})
  OBVIOUS
<1>2. /\ Append(l, x) \in Seq(S \cup {x})
      /\ DOMAIN l \subseteq DOMAIN Append(l, x)
      /\ \A i \in DOMAIN l : Append(l, x)[i] = l[i]
  BY <1>1
<1>3. ASSUME NEW b \in Pointers(l)
      PROVE  b \in Pointers(Append(l, x))
  BY <1>2 DEF Pointers
<1> QED BY <1>2, <1>3

\* An empty list points to nothing.
LEMMA NoPointers == <<>> \in Seq({}) /\ Pointers(<<>>) = {}
BY DEF Pointers

\* Whichever malloc() of an item fails, what was allocated for it is in the list or
\* freed, but for the one return that loses the list.
LEMMA AddItemHeap ==
  ASSUME HeapInv, pc # "lost", NEW name, NEW value, NEW e, AddItem(name, value, e)
  PROVE  HeapInv'
<1> DEFINE grown(n, v) == Append(list, [name |-> n, value |-> v])
<1>1. PICK S : list \in Seq(S)
  BY DEF HeapInv
<1>2. heap = Pointers(list)
  BY DEF HeapInv, HeapAccounted
<1>3. \A n, v : /\ grown(n, v) \in Seq(S \cup {[name |-> n, value |-> v]})
                /\ heap \subseteq Pointers(grown(n, v))
  BY <1>1, <1>2, Grown
<1>4. CASE list' = grown(name, value) /\ heap' = heap \cup Pointers(list')
  <2>1. heap' = Pointers(list')
    BY <1>3, <1>4
  <2>2. \E T : list' \in Seq(T)
    BY <1>3, <1>4
  <2> QED BY <2>1, <2>2 DEF HeapInv, HeapAccounted, Pointers
<1>5. CASE list' = <<>> /\ pc' = (IF list = <<>> THEN "error" ELSE "lost")
           /\ UNCHANGED heap
  BY <1>2, <1>5, NoPointers DEF HeapInv, HeapAccounted
<1>6. CASE /\ list' = <<>>
           /\ \E l \in {grown(NULL, NULL), grown(name, NULL)} :
                heap' = sam3FreeFieldList(l, heap \cup Pointers(l))
  <2>1. heap' = {}
    BY <1>3, <1>6 DEF sam3FreeFieldList
  <2> QED BY <1>6, <2>1, NoPointers DEF HeapInv, HeapAccounted
<1> QED BY <1>4, <1>5, <1>6 DEF AddItem

\* Nothing is allocated yet.
LEMMA HeapInit == Init => HeapInv
BY NoPointers DEF Init, HeapInv, HeapAccounted

\* Every step accounts for the blocks it allocates and frees.
LEMMA HeapStep == HeapInv /\ [Next]_vars => HeapInv'
<1> SUFFICES ASSUME HeapInv, [Next]_vars PROVE HeapInv'
  OBVIOUS
<1>1. CASE UNCHANGED <<list, heap>> /\ (pc' # "lost" => pc # "lost")
  BY <1>1 DEF HeapInv, HeapAccounted, Pointers
<1>2. CASE sam3tcpReceiveStr
  BY <1>1, <1>2 DEF sam3tcpReceiveStr
<1>3. CASE ParseWords
  BY <1>1, <1>3, AddItemHeap DEF ParseWords
<1>4. CASE ParseField
  BY <1>1, <1>4, AddItemHeap DEF ParseField
<1>5. CASE Release
  <2>1. list' = <<>> /\ heap' = {}
    BY <1>5 DEF Release, HeapInv, HeapAccounted, sam3FreeFieldList
  <2> QED BY <2>1, NoPointers DEF HeapInv, HeapAccounted
<1>6. CASE UNCHANGED vars
  BY <1>1, <1>6 DEF vars
<1> QED BY <1>2, <1>3, <1>4, <1>5, <1>6 DEF Next, Returned

\* Whichever malloc() fails, and whatever the line is, the blocks in use are
\* those of the list, except in the one state that returns without freeing it
\* (sam3ParseReply, sam3FreeFieldList).
THEOREM HeapAccountedHolds == Spec => []HeapAccounted
<1>1. HeapInv => HeapAccounted
  BY DEF HeapInv
<1> QED BY <1>1, HeapInit, HeapStep, PTL DEF Spec

-----------------------------------------------------------------------------
(* Induction.  The induction theorems of the library take the hypothesis   *)
(* as an operator; said with a set it follows from the theorem that a      *)
(* well-founded relation has minimal elements.                             *)

Less == {ss \in Nat \X Nat : ss[1] < ss[2]}

\* There is no endless way down in the numbers.
LEMMA LessWF == IsWellFoundedOn(Less, Nat)
BY NatLessThanWellFounded DEF OpToRel, Less

\* A non-empty set of numbers has a least one.
LEMMA Least ==
  ASSUME NEW S \in SUBSET Nat, S # {}
  PROVE  \E m \in S : \A k \in S : m <= k
<1>1. \E x \in S : \A y \in S : ~(<<y, x>> \in Less)
  BY LessWF, WFMin
<1>2. PICK x \in S : \A y \in S : ~(<<y, x>> \in Less)
  BY <1>1
<1>3. ASSUME NEW y \in S
      PROVE  x <= y
  <2>1. x \in Nat /\ y \in Nat /\ ~(<<y, x>> \in Less)
    BY <1>2
  <2>2. y < x => <<y, x>> \in Less
    BY <2>1 DEF Less
  <2> QED BY <2>1, <2>2
<1> QED BY <1>3

\* From the end of an interval down to its start.
LEMMA DownInduction ==
  ASSUME NEW a \in Nat, NEW n \in Nat, NEW S,
         \A i \in a..n : (\A j \in i + 1..n : j \in S) => i \in S
  PROVE  \A i \in a..n : i \in S
<1> SUFFICES ASSUME NEW x \in a..n, x \notin S PROVE FALSE
  OBVIOUS
<1> DEFINE D == {k \in Nat : n - k \in a..n /\ n - k \notin S}
<1>1. D \in SUBSET Nat /\ n - x \in D
  OBVIOUS
<1>2. PICK m \in D : \A k \in D : m <= k
  BY <1>1, Least
<1>3. n - m \in a..n /\ n - m \notin S
  BY <1>2
<1>4. ASSUME NEW j \in n - m + 1..n
      PROVE  j \in S
  <2>1. n - j \in Nat /\ n - (n - j) = j /\ ~(m <= n - j) /\ j \in a..n
    BY <1>2, <1>3
  <2> QED BY <1>2, <2>1
<1> QED BY <1>3, <1>4

-----------------------------------------------------------------------------
(* The words.                                                              *)

\* One round of the loop of xstrtokend at the place at[1], between quotes or
\* not, after which f does the rest.
Round(f, at) ==
  IF at[1] = End \/ (~at[2] /\ rep[at[1]] = " ") THEN at[1]
  ELSE IF rep[at[1]] = Quote THEN f[<<at[1] + 1, ~at[2]>>]
  ELSE IF at[2] /\ rep[at[1]] = Back /\ at[1] + 1 < End THEN f[<<at[1] + 2, at[2]>>]
  ELSE f[<<at[1] + 1, at[2]>>]

\* f is that loop from the place i on.
Scans(f, i) == f = [at \in (i..End) \X BOOLEAN |-> Round(f, at)]

\* The model's loop is Scans.
LEMMA WordEndScans ==
  ASSUME NEW s
  PROVE  WordEnd(s) = (CHOOSE f : Scans(f, 1))[<<s, FALSE>>]
BY Zenon DEF WordEnd, Scans, Round

\* The loop ends: each round goes on at a later place.
LEMMA ScanExists ==
  ASSUME End \in Nat \ {0}
  PROVE  \E f : Scans(f, 1)
<1> DEFINE S == {i \in 1..End : \E f : Scans(f, i)}
<1>1. ASSUME NEW i \in 1..End, \A j \in i + 1..End : j \in S
      PROVE  i \in S
  <2>1. \E f : i < End => Scans(f, i + 1)
    <3>1. CASE i < End
      <4>1. i + 1 \in S
        BY <1>1, <3>1
      <4> QED BY <4>1
    <3> QED BY <3>1
  <2>2. PICK f : i < End => Scans(f, i + 1)
    BY <2>1
  <2> DEFINE g == [at \in (i..End) \X BOOLEAN |-> IF at[1] = i THEN Round(f, at) ELSE f[at]]
  <2>3. ASSUME NEW j \in i..End, NEW q \in BOOLEAN
        PROVE  g[<<j, q>>] = IF j = i THEN Round(f, <<i, q>>) ELSE f[<<j, q>>]
    OBVIOUS
  <2>4. ASSUME NEW j \in i..End, NEW q \in BOOLEAN
        PROVE  Round(f, <<j, q>>) = Round(g, <<j, q>>)
    <3>1. CASE j = End
      BY <3>1 DEF Round
    <3>2. CASE j # End
      <4>1. j + 1 \in i + 1..End /\ (j + 1 < End => j + 2 \in i + 1..End) /\ End \in Int /\ i \in Int
        BY <3>2
      <4>2. \A k \in i + 1..End, r \in BOOLEAN : g[<<k, r>>] = f[<<k, r>>]
        <5> HIDE DEF g
        <5>1. \A k \in i + 1..End : k \in i..End /\ k # i
          BY <3>2
        <5> QED BY <2>3, <5>1
      <4> HIDE DEF g
      <4> QED BY <4>1, <4>2 DEF Round
    <3> QED BY <3>1, <3>2
  <2>5. ASSUME NEW j \in i..End, NEW q \in BOOLEAN
        PROVE  g[<<j, q>>] = Round(f, <<j, q>>)
    <3>1. CASE j = i
      BY <2>3, <3>1
    <3>2. CASE j # i
      <4>1. i < End /\ <<j, q>> \in (i + 1..End) \X BOOLEAN
        BY <3>2
      <4>2. f[<<j, q>>] = Round(f, <<j, q>>)
        BY <2>2, <4>1 DEF Scans
      <4> QED BY <2>3, <3>2, <4>2
    <3> QED BY <3>1, <3>2
  <2>6. g = [at \in (i..End) \X BOOLEAN |-> g[at]]
    OBVIOUS
  <2> HIDE DEF g
  <2>7. \A at \in (i..End) \X BOOLEAN : g[at] = Round(g, at)
    BY <2>4, <2>5
  <2>8. Scans(g, i)
    BY <2>6, <2>7 DEF Scans
  <2> QED BY <2>8
<1>2. 1 \in S
  <2> HIDE DEF S
  <2>1. 1 \in Nat /\ End \in Nat /\ 1 \in 1..End
    OBVIOUS
  <2>2. \A i \in 1..End : i \in S
    BY <1>1, <2>1, DownInduction
  <2> QED BY <2>1, <2>2
<1> QED BY <1>2

\* What the loop of xstrtokend computes is what its next round does.
LEMMA WordEndRounds ==
  ASSUME End \in Nat \ {0}
  PROVE  \E f : /\ Scans(f, 1) /\ \A s : WordEnd(s) = f[<<s, FALSE>>]
                /\ \A i \in 1..End, q \in BOOLEAN : f[<<i, q>>] = Round(f, <<i, q>>)
<1> DEFINE f == CHOOSE f : Scans(f, 1)
<1>1. Scans(f, 1)
  BY ScanExists
<1>2. \A s : WordEnd(s) = f[<<s, FALSE>>]
  BY WordEndScans
<1> HIDE DEF f
<1>3. \A i \in 1..End, q \in BOOLEAN : f[<<i, q>>] = Round(f, <<i, q>>)
  BY <1>1 DEF Scans
<1> QED BY <1>1, <1>2, <1>3

\* The places a round goes on at.
LEMMA Later ==
  ASSUME NEW e \in Nat, NEW i \in 1..e, i # e
  PROVE  i + 1 \in i + 1..e /\ (i + 1 < e => i + 2 \in i + 1..e)
OBVIOUS

\* A round that does not end goes on at a later place.
LEMMA RoundGoesOn ==
  ASSUME End \in Nat \ {0}, NEW f, NEW i \in 1..End, NEW q \in BOOLEAN,
         ~(i = End \/ (~q /\ rep[i] = " "))
  PROVE  \E j \in i + 1..End, r \in BOOLEAN : Round(f, <<i, q>>) = f[<<j, r>>]
<1>1. /\ i + 1 \in i + 1..End /\ (i + 1 < End => i + 2 \in i + 1..End)
      /\ q \in BOOLEAN /\ (~q) \in BOOLEAN
  <2>1. i # End
    BY Zenon
  <2>2. q \in BOOLEAN /\ (~q) \in BOOLEAN
    BY Zenon
  <2>4. End \in Nat
    BY Zenon
  <2>3. i + 1 \in i + 1..End /\ (i + 1 < End => i + 2 \in i + 1..End)
    BY <2>1, <2>4, Later, Zenon
  <2> QED BY <2>2, <2>3
<1>2. Round(f, <<i, q>>) =
        IF rep[i] = Quote THEN f[<<i + 1, ~q>>]
        ELSE IF q /\ rep[i] = Back /\ i + 1 < End THEN f[<<i + 2, q>>]
        ELSE f[<<i + 1, q>>]
  BY DEF Round
<1>3. CASE rep[i] = Quote
  BY <1>1, <1>2, <1>3
<1>4. CASE rep[i] # Quote /\ q /\ rep[i] = Back /\ i + 1 < End
  BY <1>1, <1>2, <1>4
<1>5. CASE rep[i] # Quote /\ ~(q /\ rep[i] = Back /\ i + 1 < End)
  BY <1>1, <1>2, <1>5
<1> QED BY <1>3, <1>4, <1>5

\* A word that starts in the line ends in it, behind its first character.
LEMMA WordEndType ==
  ASSUME End \in Nat \ {0}, NEW s \in 1..End
  PROVE  /\ WordEnd(s) \in s..End
         /\ s < End /\ ~IsSpace(s) => WordEnd(s) \in s + 1..End
<1>1. PICK f : /\ \A t : WordEnd(t) = f[<<t, FALSE>>]
               /\ \A i \in 1..End, q \in BOOLEAN : f[<<i, q>>] = Round(f, <<i, q>>)
  BY WordEndRounds
<1> DEFINE S == {i \in 1..End : \A q \in BOOLEAN : f[<<i, q>>] \in i..End}
<1>2. ASSUME NEW i \in 1..End, \A j \in i + 1..End : j \in S
      PROVE  i \in S
  <2> SUFFICES ASSUME NEW q \in BOOLEAN PROVE f[<<i, q>>] \in i..End
    OBVIOUS
  <2>1. \A j \in i + 1..End, r \in BOOLEAN : f[<<j, r>>] \in i..End
    <3> SUFFICES ASSUME NEW j \in i + 1..End, NEW r \in BOOLEAN PROVE f[<<j, r>>] \in i..End
      OBVIOUS
    <3>1. f[<<j, r>>] \in j..End
      BY <1>2
    <3> QED BY <3>1
  <2>2. f[<<i, q>>] = Round(f, <<i, q>>)
    BY <1>1
  <2>3. i # End => i + 1 \in i + 1..End /\ (i + 1 < End => i + 2 \in i + 1..End)
    OBVIOUS
  <2>4. CASE i = End \/ (~q /\ rep[i] = " ")
    <3>1. Round(f, <<i, q>>) = i
      BY <2>4 DEF Round
    <3> QED BY <2>2, <3>1
  <2>5. CASE ~(i = End \/ (~q /\ rep[i] = " "))
    <3>1. \E j \in i + 1..End, r \in BOOLEAN : Round(f, <<i, q>>) = f[<<j, r>>]
      BY <2>3, <2>5, RoundGoesOn
    <3> QED BY <2>1, <2>2, <3>1
  <2> QED BY <2>4, <2>5
<1>3. \A i \in 1..End : i \in S
  <2> HIDE DEF S
  <2>1. 1 \in Nat /\ End \in Nat
    OBVIOUS
  <2> QED BY <1>2, <2>1, DownInduction
<1>4. WordEnd(s) \in s..End
  BY <1>1, <1>3
<1>5. ASSUME s < End, ~IsSpace(s)
      PROVE  WordEnd(s) \in s + 1..End
  <2>1. \A j \in s + 1..End, r \in BOOLEAN : f[<<j, r>>] \in s + 1..End
    <3> SUFFICES ASSUME NEW j \in s + 1..End, NEW r \in BOOLEAN PROVE f[<<j, r>>] \in s + 1..End
      OBVIOUS
    <3>1. f[<<j, r>>] \in j..End
      BY <1>3
    <3> QED BY <3>1
  <2>2. WordEnd(s) = Round(f, <<s, FALSE>>)
    BY <1>1
  <2>3. \E j \in s + 1..End, r \in BOOLEAN : Round(f, <<s, FALSE>>) = f[<<j, r>>]
    <3>1. s # End
      BY <1>5
    <3>2. rep[s] # " "
      BY <1>5, Zenon DEF IsSpace
    <3>3. FALSE \in BOOLEAN
      OBVIOUS
    <3> QED BY <3>1, <3>2, <3>3, RoundGoesOn
  <2> QED BY <2>1, <2>2, <2>3
<1> QED BY <1>4, <1>5

\* while (isspace(*s)) ++s stops at the next character that is no space, at the
\* latest at the end of the line.
LEMMA SkipSpaceType ==
  ASSUME End \in Nat \ {0}, NEW s \in 1..End
  PROVE  /\ SkipSpace(s) \in s..End
         /\ ~IsSpace(SkipSpace(s)) /\ \A j \in s..SkipSpace(s) - 1 : IsSpace(j)
<1> DEFINE S == {i \in s..End : ~IsSpace(i)}
<1>1. S \in SUBSET Nat /\ End \in S
  <2>1. ~(End < End) /\ End \in s..End
    OBVIOUS
  <2>2. ~IsSpace(End)
    BY <2>1, Zenon DEF IsSpace
  <2> QED BY <2>1, <2>2
<1>2. PICK m \in S : \A k \in S : m <= k
  BY <1>1, Least
<1>3. \A j \in s..m - 1 : IsSpace(j)
  <2> SUFFICES ASSUME NEW j \in s..m - 1, ~IsSpace(j) PROVE FALSE
    OBVIOUS
  <2>1. j \in S /\ ~(m <= j)
    BY <1>2
  <2> QED BY <1>2, <2>1
<1>4. \E i \in s..End : ~IsSpace(i) /\ \A j \in s..i - 1 : IsSpace(j)
  BY <1>2, <1>3
<1> QED BY <1>4 DEF SkipSpace

\* xstrtokend returns a place behind the one it is given.
LEMMA TokenType ==
  ASSUME End \in Nat \ {0}, NEW s \in 1..End, xstrtokend(s) # NULL
  PROVE  /\ xstrtokend(s) \in s + 1..End
         /\ SkipSpace(s) < End /\ xstrtokend(s) = WordEnd(SkipSpace(s))
         /\ SkipSpace(s) \in s..End /\ xstrtokend(s) \in SkipSpace(s) + 1..End
<1>1. SkipSpace(s) # End /\ xstrtokend(s) = WordEnd(SkipSpace(s))
  BY DEF xstrtokend
<1>2. SkipSpace(s) \in s..End /\ ~IsSpace(SkipSpace(s))
  BY SkipSpaceType
<1>3. SkipSpace(s) \in 1..End /\ SkipSpace(s) < End
  BY <1>1, <1>2
<1>4. WordEnd(SkipSpace(s)) \in SkipSpace(s) + 1..End
  BY <1>2, <1>3, WordEndType
<1> QED BY <1>1, <1>2, <1>3, <1>4

-----------------------------------------------------------------------------
(* The types.                                                              *)

\* A piece of the line is a text.
LEMMA BetweenType ==
  ASSUME TypeOK, NEW s \in 1..End, NEW e \in 1..End, s <= e
  PROVE  Between(s, e) \in Text
<1>1. rep \in Seq(Char) /\ Len(rep) \in Nat
  BY ReplyAssumption, LineLength DEF TypeOK, Text
<1>2. s \in 1..Len(rep) + 1 /\ e - 1 \in s - 1..Len(rep)
  BY <1>1 DEF End
<1>3. SubSeq(rep, s, e - 1) \in Seq(Char)
  BY <1>1, <1>2, SubSeqProperties
<1> QED BY <1>3 DEF Between, Text

\* What a list points to are blocks.
LEMMA PointersType ==
  ASSUME NEW l \in Seq(Item)
  PROVE  Pointers(l) \subseteq Blocks
<1>1. DOMAIN l \subseteq Nat
  OBVIOUS
<1> QED BY <1>1 DEF Pointers, Blocks

\* An item of two texts keeps the types, whichever malloc() fails.
LEMMA AddItemType ==
  ASSUME TypeOK, NEW name \in Text, NEW value \in Text, NEW e \in 1..End,
         AddItem(name, value, e)
  PROVE  TypeOK'
<1> DEFINE grown(n, v) == Append(list, [name |-> n, value |-> v])
<1>1. list \in Seq(Item) /\ heap \subseteq Blocks /\ <<>> \in Seq(Item)
  BY DEF TypeOK
<1>2. ASSUME NEW n \in Text \cup {NULL}, NEW v \in Text \cup {NULL}
      PROVE  grown(n, v) \in Seq(Item) /\ Pointers(grown(n, v)) \subseteq Blocks
  <2>1. [name |-> n, value |-> v] \in Item
    BY DEF Item
  <2>2. grown(n, v) \in Seq(Item)
    BY <1>1, <2>1
  <2> QED BY <2>2, PointersType
<1>3. rep' = rep /\ got' = got /\ End' = End
  BY DEF AddItem, End
<1>4. pc' \in {"fields", "error", "lost"} /\ p' \in 1..End
  BY DEF AddItem, TypeOK
<1>5. list' \in Seq(Item)
  BY <1>1, <1>2 DEF AddItem
<1>6. heap' \subseteq Blocks
  BY <1>1, <1>2, <1>5, PointersType DEF AddItem, sam3FreeFieldList
<1> QED BY <1>3, <1>4, <1>5, <1>6 DEF TypeOK, Failures

\* A word becomes an item of two texts, if it becomes one.
LEMMA ParsesTexts ==
  ASSUME TypeOK, ParseWords \/ ParseField
  PROVE  \/ /\ pc' \in {"tooShort", "list"} /\ UNCHANGED <<rep, got, p, list, heap>>
            /\ pc' = "list" => pc = "fields"
         \/ \E name \in Text, value \in Text, e \in 1..End : AddItem(name, value, e)
<1>1. Len(rep) \in Nat
  BY LineLength DEF TypeOK
<1>2. End \in Nat \ {0} /\ 1 \in 1..End
  BY <1>1 DEF End
<1>4. CASE ParseWords
  <2> DEFINE s == SkipSpace(1)
             e == xstrtokend(1)
             e1 == xstrtokend(e)
  <2>2. CASE e # NULL /\ e1 # NULL /\ AddItem(Between(s, e), Between(SkipSpace(e), e1), e1)
    <3>1. e \in 1..End /\ s \in 1..End /\ s <= e
      BY <1>2, <2>2, TokenType
    <3>2. e1 \in 1..End /\ SkipSpace(e) \in 1..End /\ SkipSpace(e) <= e1
      <4> HIDE DEF e, s
      <4>1. /\ e1 \in e + 1..End /\ SkipSpace(e) \in e..End
            /\ e1 \in SkipSpace(e) + 1..End
        BY <1>2, <2>2, <3>1, TokenType
      <4> HIDE DEF e1
      <4> QED BY <1>2, <3>1, <4>1
    <3> HIDE DEF e, s, e1
    <3> QED BY <2>2, <3>1, <3>2, BetweenType
  <2>3. \/ pc' = "tooShort" /\ UNCHANGED <<rep, got, p, list, heap>>
        \/ e # NULL /\ e1 # NULL /\ AddItem(Between(s, e), Between(SkipSpace(e), e1), e1)
    BY <1>4, Zenon DEF ParseWords
  <2> QED BY <2>2, <2>3
<1>5. CASE ParseField
  <2> DEFINE s == SkipSpace(p)
             e == xstrtokend(p)
             eq == {i \in s..e - 1 : rep[i] = "="}
             e1 == CHOOSE i \in eq : \A j \in eq : i <= j
  <2>2. ASSUME e # NULL
        PROVE  /\ e \in 1..End /\ s \in 1..End /\ s <= e
               /\ eq # {} => e1 \in s..e - 1
    <3>1. p \in 1..End
      BY DEF TypeOK
    <3>2. e \in p + 1..End /\ s \in p..End /\ e \in s + 1..End
      BY <1>2, <2>2, <3>1, TokenType
    <3>3. e \in 1..End /\ s \in 1..End /\ s <= e
      <4> HIDE DEF e, s
      <4> QED BY <1>2, <3>1, <3>2
    <3>4. eq \in SUBSET Nat
      <4> HIDE DEF e, s
      <4> QED BY <3>3
    <3>5. eq # {} => \E i \in eq : \A j \in eq : i <= j
      <4> HIDE DEF eq
      <4> QED BY <3>4, Least
    <3>6. eq # {} => e1 \in eq
      <4> HIDE DEF eq
      <4> QED BY <3>5
    <3> QED BY <3>3, <3>6
  <2>3. CASE e # NULL /\ eq # {} /\ AddItem(Between(s, e1), Between(e1 + 1, e), e)
    <3>1. e1 \in 1..End /\ e1 + 1 \in 1..End /\ s <= e1 /\ e1 + 1 <= e
      <4>1. e \in 1..End /\ s \in 1..End /\ e1 \in s..e - 1
        BY <2>2, <2>3
      <4> HIDE DEF e, s, e1
      <4> QED BY <1>2, <4>1
    <3>2. e \in 1..End /\ s \in 1..End
      BY <2>2, <2>3
    <3> HIDE DEF e, s, e1, eq
    <3> QED BY <2>3, <3>1, <3>2, BetweenType
  <2>4. CASE e # NULL /\ AddItem(Between(s, e), <<>>, e)
    <3>1. e \in 1..End /\ s \in 1..End /\ s <= e
      BY <2>2, <2>4
    <3>2. <<>> \in Text
      BY DEF Text
    <3> HIDE DEF e, s
    <3> QED BY <2>4, <3>1, <3>2, BetweenType
  <2>5. \/ pc = "fields" /\ pc' = "list" /\ UNCHANGED <<rep, got, p, list, heap>>
        \/ e # NULL /\ eq # {} /\ AddItem(Between(s, e1), Between(e1 + 1, e), e)
        \/ e # NULL /\ AddItem(Between(s, e), <<>>, e)
    BY <1>5, Zenon DEF ParseField
  <2> QED BY <2>3, <2>4, <2>5
<1> QED BY <1>4, <1>5

\* The types hold at the beginning.
LEMMA TypeInit == Init => TypeOK
<1> SUFFICES ASSUME Init PROVE TypeOK
  OBVIOUS
<1>1. Len(rep) \in Nat
  BY LineLength DEF Init
<1> QED BY <1>1 DEF Init, TypeOK, End

\* Every step keeps the types.
LEMMA TypeStep == TypeOK /\ [Next]_vars => TypeOK'
<1> SUFFICES ASSUME TypeOK, [Next]_vars PROVE TypeOK'
  OBVIOUS
<1>1. Len(rep) \in Nat /\ RepSize \in Nat
  BY LineLength, ReplyAssumption DEF TypeOK
<1>2. End \in Nat \ {0}
  BY <1>1 DEF End
<1>3. CASE sam3tcpReceiveStr
  <2>1. ASSUME NEW rd \in 1..Room - 1,
               got' = got + Taken(rd),
               pc' = IF got + rd >= End THEN "words" ELSE "read"
        PROVE  got' \in 0..End /\ pc' \in {"words", "read"}
    BY <1>1, <1>2, <2>1 DEF TypeOK, Taken, Room
  <2>2. got' \in 0..End /\ pc' \in {"words", "read", "tooLong"}
    BY <1>3, <2>1 DEF sam3tcpReceiveStr, TypeOK
  <2> QED BY <1>3, <2>2 DEF sam3tcpReceiveStr, TypeOK, Failures, End
<1>4. CASE ParseWords \/ ParseField
  <2>1. CASE pc' \in {"tooShort", "list"} /\ UNCHANGED <<rep, got, p, list, heap>>
    BY <2>1 DEF TypeOK, Failures, End
  <2> QED BY <1>4, <2>1, ParsesTexts, AddItemType
<1>6. CASE Release
  BY <1>6 DEF Release, TypeOK, sam3FreeFieldList, End
<1>7. CASE UNCHANGED vars
  BY <1>7 DEF vars, TypeOK, End
<1> QED BY <1>3, <1>4, <1>6, <1>7 DEF Next, Returned

\* The parser stays within the line, its list holds texts, or the null pointer
\* in the items it gives back, and every block is one of an item
\* (sam3ParseReply), for every line and every buffer.
THEOREM ReplyTypeCorrect == Spec => []TypeOK
BY TypeInit, TypeStep, PTL DEF Spec

-----------------------------------------------------------------------------
(* The fields.                                                             *)

\* Every item of the list has its name and its value.
Pair == [name : Text, value : Text]
FieldInv == list \in Seq(Pair)

\* The items that are added are of two texts.
LEMMA FieldStep == TypeOK /\ FieldInv /\ [Next]_vars => FieldInv'
<1> SUFFICES ASSUME TypeOK, FieldInv, [Next]_vars PROVE FieldInv'
  OBVIOUS
<1>1. CASE list' = list \/ list' = <<>>
  <2>1. <<>> \in Seq(Pair)
    OBVIOUS
  <2> QED BY <1>1, <2>1 DEF FieldInv
<1>2. ASSUME NEW name \in Text, NEW value \in Text, NEW e, AddItem(name, value, e)
      PROVE  FieldInv'
  <2>1. [name |-> name, value |-> value] \in Pair
    BY DEF Pair
  <2> QED BY <1>1, <1>2, <2>1 DEF AddItem, FieldInv
<1>3. CASE ParseWords \/ ParseField
  BY <1>1, <1>2, <1>3, ParsesTexts
<1>4. CASE sam3tcpReceiveStr \/ Release \/ UNCHANGED vars
  BY <1>1, <1>4 DEF sam3tcpReceiveStr, Release, vars
<1> QED BY <1>3, <1>4 DEF Next, Returned

\* f looks from the place i on for the first item of that name: it gives what
\* hit has there, or none.
Looks(f, field, none, hit, i) ==
  f = [k \in i..Len(list) + 1 |->
         IF k > Len(list) THEN none
         ELSE IF list[k].name = field THEN hit[k]
         ELSE f[k + 1]]

\* The loop ends, at the end of the list if not before.
LEMMA LooksExists ==
  ASSUME Len(list) \in Nat, NEW field, NEW none, NEW hit
  PROVE  Len(list) > 0 => \E f : Looks(f, field, none, hit, 2)
<1> DEFINE n == Len(list) + 1
           S == {i \in 2..n : \E f : Looks(f, field, none, hit, i)}
<1>1. ASSUME NEW i \in 2..n, \A j \in i + 1..n : j \in S
      PROVE  i \in S
  <2>1. \E f : i < n => Looks(f, field, none, hit, i + 1)
    <3>1. CASE i < n
      <4>1. i + 1 \in S
        BY <1>1, <3>1
      <4> QED BY <4>1
    <3> QED BY <3>1
  <2>2. PICK f : i < n => Looks(f, field, none, hit, i + 1)
    BY <2>1
  <2> DEFINE body(h, k) == IF k > Len(list) THEN none
                           ELSE IF list[k].name = field THEN hit[k]
                           ELSE h[k + 1]
             g == [k \in i..n |-> IF k = i THEN body(f, i) ELSE f[k]]
  <2>3. \A k \in i..n : g[k] = IF k = i THEN body(f, i) ELSE f[k]
    OBVIOUS
  <2>4. ASSUME NEW k \in i..n
        PROVE  g[k] = body(g, k)
    <3>1. k <= Len(list) => k + 1 \in i..n /\ k + 1 # i
      OBVIOUS
    <3>2. k <= Len(list) => g[k + 1] = f[k + 1]
      BY <2>3, <3>1
    <3>3. body(g, k) = body(f, k)
      <4> HIDE DEF g
      <4> QED BY <3>2
    <3>4. CASE k = i
      <4> HIDE DEF g
      <4> QED BY <2>3, <3>3, <3>4
    <3>5. CASE k # i
      <4>1. i < n /\ k \in i + 1..n
        BY <3>5
      <4>2. f[k] = body(f, k)
        BY <2>2, <4>1 DEF Looks
      <4> HIDE DEF g
      <4> QED BY <2>3, <3>3, <3>5, <4>2
    <3> QED BY <3>4, <3>5
  <2>5. g = [k \in i..n |-> g[k]]
    OBVIOUS
  <2> HIDE DEF g
  <2>6. g = [k \in i..n |-> body(g, k)]
    BY <2>4, <2>5
  <2>7. Looks(g, field, none, hit, i)
    BY <2>6, Zenon DEF Looks
  <2> QED BY <2>7
<1>2. ASSUME Len(list) > 0
      PROVE  2 \in S
  <2> HIDE DEF S
  <2>1. 2 \in Nat /\ n \in Nat /\ 2 \in 2..n
    BY <1>2
  <2>2. \A i \in 2..n : i \in S
    <3> HIDE DEF n
    <3> QED BY <1>1, <2>1, DownInduction
  <2> QED BY <2>1, <2>2
<1> QED BY <1>2

\* sam3FindField is such a loop.
LEMMA FindLooks ==
  ASSUME Len(list) \in Nat, Len(list) > 0, list # <<>>, NEW field
  PROVE  \E f : /\ sam3FindField(field) = f[2]
                /\ f[Len(list) + 1] = NULL
                /\ \A k \in 2..Len(list) :
                     f[k] = IF list[k].name = field THEN list[k].value ELSE f[k + 1]
<1> DEFINE Finds(f) == f = [k \in 2..Len(list) + 1 |->
                              IF k > Len(list) THEN NULL
                              ELSE IF list[k].name = field THEN list[k].value
                              ELSE f[k + 1]]
           hit == [k \in 2..Len(list) |-> list[k].value]
<1>1. sam3FindField(field) = (CHOOSE f : Finds(f))[2]
  BY Zenon DEF sam3FindField
<1>2. ASSUME NEW f, Looks(f, field, NULL, hit, 2)
      PROVE  Finds(f)
  <2>1. \A k \in 2..Len(list) + 1 : ~(k > Len(list)) => k \in 2..Len(list)
    OBVIOUS
  <2>2. \A k \in 2..Len(list) : hit[k] = list[k].value
    OBVIOUS
  <2> HIDE DEF hit
  <2>3. [k \in 2..Len(list) + 1 |-> IF k > Len(list) THEN NULL
                              ELSE IF list[k].name = field THEN list[k].value
                              ELSE f[k + 1]]
       = [k \in 2..Len(list) + 1 |-> IF k > Len(list) THEN NULL
                              ELSE IF list[k].name = field THEN hit[k]
                              ELSE f[k + 1]]
    BY <2>1, <2>2
  <2> QED BY <1>2, <2>3, Zenon DEF Looks
<1>3. \E f : Looks(f, field, NULL, hit, 2)
  <2> HIDE DEF hit
  <2> QED BY LooksExists
<1>4. \E f : Finds(f)
  <2> HIDE DEF Finds, hit
  <2> QED BY <1>2, <1>3
<1> DEFINE f == CHOOSE f : Finds(f)
<1>5. Finds(f)
  <2> HIDE DEF Finds
  <2> QED BY <1>4
<1> HIDE DEF f
<1>6. f[Len(list) + 1] = NULL
  BY <1>5
<1>7. \A k \in 2..Len(list) :
        f[k] = IF list[k].name = field THEN list[k].value ELSE f[k + 1]
  <2> SUFFICES ASSUME NEW k \in 2..Len(list)
               PROVE  f[k] = IF list[k].name = field THEN list[k].value ELSE f[k + 1]
    OBVIOUS
  <2>1. k \in 2..Len(list) + 1 /\ ~(k > Len(list))
    OBVIOUS
  <2> QED BY <1>5, <2>1
<1>8. sam3FindField(field) = f[2]
  BY <1>1 DEF f
<1> QED BY <1>6, <1>7, <1>8

\* And so is the loop of sam3IsGoodReply: f is what it says from each place on.
GoodFrom(f, field, value) ==
  /\ \A r0, r1 : sam3IsGoodReply(r0, r1, field, value) <=>
       /\ list # <<>> /\ list[1].name = r0 /\ list[1].value = r1 /\ f[2]
  /\ f[Len(list) + 1] = TRUE
  /\ \A k \in 2..Len(list) :
       f[k] = IF list[k].name = field THEN value \in {NULL, list[k].value} ELSE f[k + 1]

\* The scan of sam3IsGoodReply exists as a function.
LEMMA GoodLooks ==
  ASSUME Len(list) \in Nat, Len(list) > 0, NEW field, NEW value
  PROVE  \E f : GoodFrom(f, field, value)
<1> DEFINE Goods(f) == f = [k \in 2..Len(list) + 1 |->
                              IF k > Len(list) THEN TRUE
                              ELSE IF list[k].name = field THEN value \in {NULL, list[k].value}
                              ELSE f[k + 1]]
           hit == [k \in 2..Len(list) |-> value \in {NULL, list[k].value}]
<1>1. \A r0, r1 : sam3IsGoodReply(r0, r1, field, value) <=>
        /\ list # <<>> /\ list[1].name = r0 /\ list[1].value = r1
        /\ (CHOOSE f : Goods(f))[2]
  BY Zenon DEF sam3IsGoodReply
<1>2. ASSUME NEW f, Looks(f, field, TRUE, hit, 2)
      PROVE  Goods(f)
  <2>1. \A k \in 2..Len(list) + 1 : ~(k > Len(list)) => k \in 2..Len(list)
    OBVIOUS
  <2>2. \A k \in 2..Len(list) : hit[k] = (value \in {NULL, list[k].value})
    OBVIOUS
  <2> HIDE DEF hit
  <2>3. [k \in 2..Len(list) + 1 |-> IF k > Len(list) THEN TRUE
                              ELSE IF list[k].name = field THEN value \in {NULL, list[k].value}
                              ELSE f[k + 1]]
       = [k \in 2..Len(list) + 1 |-> IF k > Len(list) THEN TRUE
                              ELSE IF list[k].name = field THEN hit[k]
                              ELSE f[k + 1]]
    BY <2>1, <2>2
  <2> QED BY <1>2, <2>3, Zenon DEF Looks
<1>3. \E f : Looks(f, field, TRUE, hit, 2)
  <2> HIDE DEF hit
  <2> QED BY LooksExists
<1>4. \E f : Goods(f)
  <2> HIDE DEF Goods, hit
  <2> QED BY <1>2, <1>3
<1> DEFINE f == CHOOSE f : Goods(f)
<1>5. Goods(f)
  <2> HIDE DEF Goods
  <2> QED BY <1>4
<1> HIDE DEF f
<1>6. f[Len(list) + 1] = TRUE
  BY <1>5
<1>7. \A k \in 2..Len(list) :
        f[k] = IF list[k].name = field THEN value \in {NULL, list[k].value} ELSE f[k + 1]
  <2> SUFFICES ASSUME NEW k \in 2..Len(list)
               PROVE  f[k] = IF list[k].name = field
                               THEN value \in {NULL, list[k].value} ELSE f[k + 1]
    OBVIOUS
  <2>1. k \in 2..Len(list) + 1 /\ ~(k > Len(list))
    OBVIOUS
  <2> QED BY <1>5, <2>1
<1>8. \A r0, r1 : sam3IsGoodReply(r0, r1, field, value) <=>
        /\ list # <<>> /\ list[1].name = r0 /\ list[1].value = r1 /\ f[2]
  BY <1>1 DEF f
<1> QED BY <1>6, <1>7, <1>8 DEF GoodFrom

\* The two loops agree from every place on.
LEMMA FieldsAgree ==
  ASSUME FieldInv, NEW i \in DOMAIN list, NEW j \in DOMAIN list
  PROVE  sam3IsGoodReply(list[1].name, list[1].value, list[i].name, list[j].value)
           <=> sam3FindField(list[i].name) \in {NULL, list[j].value}
<1> DEFINE name == list[i].name
           value == list[j].value
           n == Len(list) + 1
<1>1. Len(list) \in Nat /\ Len(list) > 0 /\ list # <<>> /\ DOMAIN list = 1..Len(list)
  BY DEF FieldInv
<1>2. \A k \in 1..Len(list) : list[k].value \in Text /\ list[k].value # NULL
  <2> SUFFICES ASSUME NEW k \in 1..Len(list)
               PROVE  list[k].value \in Text /\ list[k].value # NULL
    OBVIOUS
  <2>1. list[k] \in Pair
    BY <1>1 DEF FieldInv
  <2>2. list[k].value \in Text /\ NULL \notin Text
    BY <2>1, ReplyAssumption DEF Pair
  <2> QED BY <2>2
<1>3. value # NULL
  BY <1>1, <1>2
<1> HIDE DEF name, value
<1>4. PICK f : /\ sam3FindField(name) = f[2] /\ f[Len(list) + 1] = NULL
               /\ \A k \in 2..Len(list) :
                    f[k] = IF list[k].name = name THEN list[k].value ELSE f[k + 1]
  BY <1>1, FindLooks
<1>5. PICK g : GoodFrom(g, name, value)
  BY <1>1, GoodLooks
<1> DEFINE S == {k \in 2..n : g[k] <=> f[k] \in {NULL, value}}
<1>6. ASSUME NEW k \in 2..n, \A m \in k + 1..n : m \in S
      PROVE  k \in S
  <2>1. CASE k = n
    <3>1. g[k] = TRUE /\ f[k] = NULL
      BY <1>4, <1>5, <2>1 DEF GoodFrom
    <3> QED BY <3>1
  <2>2. CASE k # n
    <3>1. k \in 2..Len(list) /\ k \in 1..Len(list) /\ k + 1 \in k + 1..n
      BY <1>1, <2>2
    <3>2. f[k] = IF list[k].name = name THEN list[k].value ELSE f[k + 1]
      BY <1>4, <3>1
    <3>3. g[k] = IF list[k].name = name THEN value \in {NULL, list[k].value} ELSE g[k + 1]
      BY <1>5, <3>1 DEF GoodFrom
    <3>4. g[k + 1] <=> f[k + 1] \in {NULL, value}
      BY <1>6, <3>1
    <3>5. list[k].value # NULL
      BY <1>2, <3>1
    <3>6. g[k] <=> f[k] \in {NULL, value}
      <4>1. CASE list[k].name = name
        <5>1. f[k] = list[k].value /\ (g[k] = (value \in {NULL, list[k].value}))
          BY <3>2, <3>3, <4>1, Zenon
        <5> QED BY <1>3, <3>5, <5>1, Zenon
      <4>2. CASE list[k].name # name
        <5>1. f[k] = f[k + 1] /\ g[k] = g[k + 1]
          BY <3>2, <3>3, <4>2, Zenon
        <5> QED BY <3>4, <5>1, Zenon
      <4> QED BY <4>1, <4>2
    <3> QED BY <3>6
  <2> QED BY <2>1, <2>2
<1>7. 2 \in S
  <2> HIDE DEF S
  <2>1. 2 \in Nat /\ n \in Nat /\ 2 \in 2..n
    BY <1>1
  <2> HIDE DEF n
  <2>2. \A k \in 2..n : k \in S
    BY <1>6, <2>1, DownInduction
  <2> QED BY <2>1, <2>2
<1>8. sam3IsGoodReply(list[1].name, list[1].value, name, value)
        <=> sam3FindField(name) \in {NULL, value}
  <2>1. g[2] <=> f[2] \in {NULL, value}
    BY <1>7
  <2>2. sam3IsGoodReply(list[1].name, list[1].value, name, value) <=> g[2]
    BY <1>1, <1>5, Zenon DEF GoodFrom
  <2> QED BY <1>4, <2>1, <2>2, Zenon
<1> QED BY <1>8 DEF name, value

\* The two loops over a reply agree, whatever the reply is: a field that
\* sam3IsGoodReply accepts has the value sam3FindField returns, or is not there
\* (libsam3.c:435-443, 573-596).
THEOREM VerdictAgreesHolds == Spec => []VerdictAgrees
<1>1. Init => TypeOK /\ FieldInv
  <2>1. <<>> \in Seq(Pair)
    OBVIOUS
  <2> QED BY <2>1, TypeInit DEF Init, FieldInv
<1>2. TypeOK /\ FieldInv /\ [Next]_vars => (TypeOK /\ FieldInv)'
  BY TypeStep, FieldStep
<1>3. TypeOK /\ FieldInv => VerdictAgrees
  BY FieldsAgree, Zenon DEF VerdictAgrees
<1> QED BY <1>1, <1>2, <1>3, PTL DEF Spec

-----------------------------------------------------------------------------
(* Quotes.                                                                 *)

\* From 0 up.
LEMMA UpInduction ==
  ASSUME NEW n \in Nat, NEW S,
         \A i \in 0..n : (i = 0 \/ i - 1 \in S) => i \in S
  PROVE  \A i \in 0..n : i \in S
<1> SUFFICES ASSUME NEW x \in 0..n, x \notin S PROVE FALSE
  OBVIOUS
<1> DEFINE D == {k \in 0..n : k \notin S}
<1>1. D \in SUBSET Nat /\ x \in D
  OBVIOUS
<1>2. PICK m \in D : \A k \in D : m <= k
  BY <1>1, Least
<1>3. m \in 0..n /\ m \notin S
  BY <1>2
<1>4. m # 0 => m - 1 \in 0..n /\ ~(m <= m - 1)
  BY <1>3
<1>5. m # 0 => m - 1 \in S
  BY <1>2, <1>4
<1> QED BY <1>3, <1>5

\* What the character at i makes of the quotes before it.
Turn(line, at, i) ==
  IF i = 0 THEN "outside"
  ELSE IF at[i - 1] = "protected" THEN "inside"
  ELSE IF at[i - 1] = "outside"
    THEN IF line[i] = Quote THEN "inside" ELSE "outside"
  ELSE IF line[i] = Quote THEN "outside"
  ELSE IF line[i] = Back THEN "protected"
  ELSE "inside"

Turns(line, f, n) == f = [i \in 0..n |-> Turn(line, f, i)]

\* Inside is such a function.
LEMMA InsideTurns ==
  ASSUME NEW line
  PROVE  Inside(line) = CHOOSE f : Turns(line, f, Len(line))
BY Zenon DEF Inside, Turns, Turn

\* Each character depends on the one before it.
LEMMA TurnsExists ==
  ASSUME NEW line, Len(line) \in Nat
  PROVE  \E f : Turns(line, f, Len(line))
<1> DEFINE n == Len(line)
           S == {i \in 0..n : \E f : Turns(line, f, i)}
<1>1. ASSUME NEW i \in 0..n, i = 0 \/ i - 1 \in S
      PROVE  i \in S
  <2>1. \E f : i # 0 => Turns(line, f, i - 1)
    BY <1>1
  <2>2. PICK f : i # 0 => Turns(line, f, i - 1)
    BY <2>1
  <2> DEFINE g == [k \in 0..i |-> IF k = i THEN Turn(line, f, i) ELSE f[k]]
  <2>3. \A k \in 0..i : g[k] = IF k = i THEN Turn(line, f, i) ELSE f[k]
    OBVIOUS
  <2>4. g = [k \in 0..i |-> g[k]]
    OBVIOUS
  <2> HIDE DEF g
  <2>5. ASSUME NEW k \in 0..i
        PROVE  Turn(line, g, k) = Turn(line, f, k)
    <3>1. CASE k = 0
      BY <3>1 DEF Turn
    <3>2. CASE k # 0
      <4>1. k - 1 \in 0..i /\ k - 1 # i
        BY <3>2
      <4>2. g[k - 1] = f[k - 1]
        BY <2>3, <4>1
      <4> QED BY <4>2 DEF Turn
    <3> QED BY <3>1, <3>2
  <2>6. ASSUME NEW k \in 0..i
        PROVE  g[k] = Turn(line, g, k)
    <3>1. CASE k = i
      BY <2>3, <2>5, <3>1
    <3>2. CASE k # i
      <4>1. i # 0 /\ k \in 0..i - 1
        BY <3>2
      <4>2. f[k] = Turn(line, f, k)
        BY <2>2, <4>1 DEF Turns
      <4> QED BY <2>3, <2>5, <3>2, <4>2
    <3> QED BY <3>1, <3>2
  <2>7. Turns(line, g, i)
    BY <2>4, <2>6 DEF Turns
  <2> QED BY <2>7
<1>2. n \in S
  <2> HIDE DEF S
  <2>1. n \in Nat /\ n \in 0..n
    OBVIOUS
  <2> HIDE DEF n
  <2>2. \A i \in 0..n : i \in S
    BY <1>1, <2>1, UpInduction
  <2> QED BY <2>1, <2>2
<1> QED BY <1>2

\* Quotes open and close in turn.
LEMMA InsideStep ==
  ASSUME NEW line, Len(line) \in Nat
  PROVE  LET at == Inside(line)
         IN /\ at[0] = "outside"
            /\ \A i \in 1..Len(line) :
                 /\ at[i - 1] = "protected" => at[i] = "inside"
                 /\ at[i - 1] = "outside" =>
                      at[i] = IF line[i] = Quote THEN "inside" ELSE "outside"
                 /\ at[i - 1] = "inside" =>
                      at[i] = IF line[i] = Quote THEN "outside"
                              ELSE IF line[i] = Back THEN "protected" ELSE "inside"
<1> DEFINE at == Inside(line)
<1>1. Turns(line, at, Len(line))
  BY InsideTurns, TurnsExists
<1> HIDE DEF at
<1>2. \A i \in 0..Len(line) : at[i] = Turn(line, at, i)
  BY <1>1 DEF Turns
<1>3. at[0] = "outside"
  BY <1>2 DEF Turn
<1>4. ASSUME NEW i \in 1..Len(line)
      PROVE  at[i] = Turn(line, at, i) /\ i # 0
  BY <1>2
<1>5. ASSUME NEW i \in 1..Len(line)
      PROVE  /\ at[i - 1] = "protected" => at[i] = "inside"
             /\ at[i - 1] = "outside" =>
                  at[i] = IF line[i] = Quote THEN "inside" ELSE "outside"
             /\ at[i - 1] = "inside" =>
                  at[i] = IF line[i] = Quote THEN "outside"
                          ELSE IF line[i] = Back THEN "protected" ELSE "inside"
  BY <1>4 DEF Turn
<1> QED BY <1>3, <1>5 DEF at

-----------------------------------------------------------------------------
(* Words.                                                                  *)

\* Where a word ends: at the end of the line, or at a space outside of quotes.
Boundary(e) == e = End \/ (rep[e] = " " /\ Inside(rep)[e - 1] = "outside")

\* e is where the loop of xstrtokend ends that has come to i.
Ends(e, i) == e \in i..End /\ Boundary(e) /\ \A j \in i..e - 1 : ~Gap(rep, j)

\* What is left of the loop, in words.
LEMMA Rounds ==
  ASSUME NEW f, NEW i \in 1..End,
         \A q \in BOOLEAN : f[<<i, q>>] = Round(f, <<i, q>>)
  PROVE  /\ f[<<i, FALSE>>] = IF i = End \/ rep[i] = " " THEN i
                              ELSE IF rep[i] = Quote THEN f[<<i + 1, TRUE>>]
                              ELSE f[<<i + 1, FALSE>>]
         /\ f[<<i, TRUE>>] = IF i = End THEN i
                             ELSE IF rep[i] = Quote THEN f[<<i + 1, FALSE>>]
                             ELSE IF rep[i] = Back /\ i + 1 < End THEN f[<<i + 2, TRUE>>]
                             ELSE f[<<i + 1, TRUE>>]
<1>1. f[<<i, FALSE>>] = Round(f, <<i, FALSE>>) /\ f[<<i, TRUE>>] = Round(f, <<i, TRUE>>)
  OBVIOUS
<1>2. Round(f, <<i, FALSE>>) = IF i = End \/ rep[i] = " " THEN i
                              ELSE IF rep[i] = Quote THEN f[<<i + 1, TRUE>>]
                              ELSE f[<<i + 1, FALSE>>]
  <2>1. Round(f, <<i, FALSE>>) = IF i = End \/ (~FALSE /\ rep[i] = " ") THEN i
                              ELSE IF rep[i] = Quote THEN f[<<i + 1, ~FALSE>>]
                              ELSE IF FALSE /\ rep[i] = Back /\ i + 1 < End THEN f[<<i + 2, FALSE>>]
                              ELSE f[<<i + 1, FALSE>>]
    BY DEF Round
  <2>2. (~FALSE) = TRUE
    OBVIOUS
  <2> QED BY <2>1, <2>2, Zenon
<1>3. Round(f, <<i, TRUE>>) = IF i = End THEN i
                             ELSE IF rep[i] = Quote THEN f[<<i + 1, FALSE>>]
                             ELSE IF rep[i] = Back /\ i + 1 < End THEN f[<<i + 2, TRUE>>]
                             ELSE f[<<i + 1, TRUE>>]
  <2>1. Round(f, <<i, TRUE>>) = IF i = End \/ (~TRUE /\ rep[i] = " ") THEN i
                              ELSE IF rep[i] = Quote THEN f[<<i + 1, ~TRUE>>]
                              ELSE IF TRUE /\ rep[i] = Back /\ i + 1 < End THEN f[<<i + 2, TRUE>>]
                              ELSE f[<<i + 1, TRUE>>]
    BY DEF Round
  <2>2. (~TRUE) = FALSE
    OBVIOUS
  <2> QED BY <2>1, <2>2, Zenon
<1> QED BY <1>1, <1>2, <1>3

\* Within the line a gap is a space outside of quotes.
LEMMA GapIn ==
  ASSUME Len(rep) \in Nat, NEW i \in 1..Len(rep)
  PROVE  Gap(rep, i) <=> rep[i] = " " /\ Inside(rep)[i - 1] = "outside"
<1>1. i # 0 /\ ~(i > Len(rep))
  OBVIOUS
<1> QED BY <1>1, Zenon DEF Gap

\* Where a word ends there is a gap.
LEMMA BoundaryGap ==
  ASSUME Len(rep) \in Nat, NEW e \in 1..End, Boundary(e)
  PROVE  Gap(rep, e)
<1>1. CASE e = End
  <2>1. e > Len(rep)
    BY <1>1 DEF End
  <2> QED BY <2>1, Zenon DEF Gap
<1>2. CASE e # End
  <2>1. e \in 1..Len(rep)
    BY <1>2 DEF End
  <2>2. rep[e] = " " /\ Inside(rep)[e - 1] = "outside"
    BY <1>2, Zenon DEF Boundary
  <2> QED BY <2>1, <2>2, GapIn
<1> QED BY <1>1, <1>2

\* A character of a word is in front of the rest of it.
LEMMA EndsLater ==
  ASSUME Len(rep) \in Nat, NEW i \in 1..End, NEW k \in 1..End, NEW e, i <= k, Ends(e, k),
         \A j \in i..k - 1 : ~Gap(rep, j)
  PROVE  Ends(e, i)
<1>1. e \in i..End /\ \A j \in i..e - 1 : j \in i..k - 1 \/ j \in k..e - 1
  BY DEF Ends, End
<1> QED BY <1>1 DEF Ends

\* The loop of xstrtokend that starts outside of quotes, or has seen one open,
\* ends where the word does: it knows whether it is inside of quotes.
LEMMA WordEnds ==
  ASSUME Len(rep) \in Nat, NEW s \in 1..End, Inside(rep)[s - 1] = "outside"
  PROVE  Ends(WordEnd(s), s)
<1> DEFINE at == Inside(rep)
<1>0. End \in Nat \ {0} /\ End = Len(rep) + 1
  BY DEF End
<1>1. PICK f : /\ \A t : WordEnd(t) = f[<<t, FALSE>>]
               /\ \A i \in 1..End, q \in BOOLEAN : f[<<i, q>>] = Round(f, <<i, q>>)
  BY <1>0, WordEndRounds
<1> DEFINE S == {i \in 1..End :
                   /\ at[i - 1] = "outside" => Ends(f[<<i, FALSE>>], i)
                   /\ at[i - 1] = "inside" => Ends(f[<<i, TRUE>>], i)}
<1>2. ASSUME NEW i \in 1..End, \A j \in i + 1..End : j \in S
      PROVE  i \in S
  <2>1. /\ f[<<i, FALSE>>] = IF i = End \/ rep[i] = " " THEN i
                             ELSE IF rep[i] = Quote THEN f[<<i + 1, TRUE>>]
                             ELSE f[<<i + 1, FALSE>>]
        /\ f[<<i, TRUE>>] = IF i = End THEN i
                            ELSE IF rep[i] = Quote THEN f[<<i + 1, FALSE>>]
                            ELSE IF rep[i] = Back /\ i + 1 < End THEN f[<<i + 2, TRUE>>]
                            ELSE f[<<i + 1, TRUE>>]
    BY <1>1, Rounds
  <2>2. ASSUME Boundary(i)
        PROVE  Ends(i, i)
    BY <1>0, <2>2 DEF Ends
  <2>3. CASE i = End
    <3>1. f[<<i, FALSE>>] = i /\ f[<<i, TRUE>>] = i
      BY <2>1, <2>3
    <3>2. Ends(i, i)
      BY <2>2, <2>3 DEF Boundary
    <3> QED BY <3>1, <3>2
  <2>4. CASE i # End
    <3>1. i \in 1..Len(rep) /\ i + 1 \in i + 1..End /\ (i + 1 < End => i + 2 \in i + 1..End)
      BY <1>0, <2>4
    <3>2. /\ at[i - 1] = "protected" => at[i] = "inside"
          /\ at[i - 1] = "outside" => at[i] = IF rep[i] = Quote THEN "inside" ELSE "outside"
          /\ at[i - 1] = "inside" =>
               at[i] = IF rep[i] = Quote THEN "outside"
                       ELSE IF rep[i] = Back THEN "protected" ELSE "inside"
      BY <3>1, InsideStep
    <3>3. i + 1 \in S
      BY <1>2, <3>1
    <3>4. (i + 1) - 1 = i
      BY <1>0
    <3>5. /\ at[i] = "outside" => Ends(f[<<i + 1, FALSE>>], i + 1)
          /\ at[i] = "inside" => Ends(f[<<i + 1, TRUE>>], i + 1)
      BY <3>3, <3>4
    <3>6. ASSUME NEW e, Ends(e, i + 1), ~Gap(rep, i)
          PROVE  Ends(e, i)
      <4>1. i + 1 \in 1..End /\ i <= i + 1 /\ \A j \in i..(i + 1) - 1 : j = i
        BY <1>0, <3>1
      <4> QED BY <3>6, <4>1, EndsLater
    <3>7. ~(rep[i] = " " /\ at[i - 1] = "outside") => ~Gap(rep, i)
      BY <3>1, GapIn
    <3>8. ASSUME at[i - 1] = "outside"
          PROVE  Ends(f[<<i, FALSE>>], i)
      <4>1. CASE rep[i] = " "
        BY <2>1, <2>2, <3>8, <4>1 DEF Boundary
      <4>2. CASE rep[i] # " " /\ rep[i] = Quote
        <5>1. f[<<i, FALSE>>] = f[<<i + 1, TRUE>>] /\ at[i] = "inside"
          BY <2>1, <2>4, <3>2, <3>8, <4>2
        <5> QED BY <3>5, <3>6, <3>7, <4>2, <5>1
      <4>3. CASE rep[i] # " " /\ rep[i] # Quote
        <5>1. f[<<i, FALSE>>] = f[<<i + 1, FALSE>>] /\ at[i] = "outside"
          BY <2>1, <2>4, <3>2, <3>8, <4>3
        <5> QED BY <3>5, <3>6, <3>7, <4>3, <5>1
      <4> QED BY <4>1, <4>2, <4>3
    <3>9. ASSUME at[i - 1] = "inside"
          PROVE  Ends(f[<<i, TRUE>>], i)
      <4>1. ~Gap(rep, i)
        BY <3>7, <3>9
      <4>2. CASE rep[i] = Quote
        <5>1. f[<<i, TRUE>>] = f[<<i + 1, FALSE>>] /\ at[i] = "outside"
          BY <2>1, <2>4, <3>2, <3>9, <4>2
        <5> QED BY <3>5, <3>6, <4>1, <5>1
      <4>3. CASE rep[i] # Quote /\ rep[i] # Back
        <5>1. f[<<i, TRUE>>] = f[<<i + 1, TRUE>>] /\ at[i] = "inside"
          BY <2>1, <2>4, <3>2, <3>9, <4>3
        <5> QED BY <3>5, <3>6, <4>1, <5>1
      <4>4. CASE rep[i] # Quote /\ rep[i] = Back /\ i + 1 < End
        <5>1. f[<<i, TRUE>>] = f[<<i + 2, TRUE>>] /\ at[i] = "protected"
          BY <2>1, <2>4, <3>2, <3>9, <4>4
        <5>2. i + 1 \in 1..Len(rep) /\ (i + 1) - 1 = i /\ (i + 2) - 1 = i + 1
              /\ i + 2 \in i + 1..End /\ i + 2 \in 1..End /\ i <= i + 2
          BY <1>0, <3>1, <4>4
        <5>3. at[i + 1] = "inside"
          <6>1. at[(i + 1) - 1] = "protected" => at[i + 1] = "inside"
            BY <5>2, InsideStep
          <6> QED BY <5>1, <5>2, <6>1
        <5>4. i + 2 \in S
          BY <1>2, <5>2
        <5>5. Ends(f[<<i + 2, TRUE>>], i + 2)
          BY <5>2, <5>3, <5>4
        <5>6. ~Gap(rep, i + 1)
          <6>1. ~(rep[i + 1] = " " /\ at[(i + 1) - 1] = "outside")
            BY <5>1, <5>2
          <6> QED BY <5>2, <6>1, GapIn
        <5>7. \A j \in i..(i + 2) - 1 : j = i \/ j = i + 1
          BY <3>1
        <5> QED BY <4>1, <5>1, <5>2, <5>5, <5>6, <5>7, EndsLater
      <4>5. CASE rep[i] # Quote /\ rep[i] = Back /\ ~(i + 1 < End)
        <5>1. f[<<i, TRUE>>] = f[<<i + 1, TRUE>>]
          BY <2>1, <2>4, <4>5
        <5>2. i + 1 = End /\ End \in 1..End
          BY <1>0, <3>1, <4>5
        <5>3. f[<<End, TRUE>>] = End
          <6>1. f[<<End, TRUE>>] = IF End = End THEN End
                                   ELSE IF rep[End] = Quote THEN f[<<End + 1, FALSE>>]
                                   ELSE IF rep[End] = Back /\ End + 1 < End THEN f[<<End + 2, TRUE>>]
                                   ELSE f[<<End + 1, TRUE>>]
            BY <1>1, <5>2, Rounds
          <6> QED BY <6>1
        <5>4. Ends(End, End)
          BY <1>0 DEF Ends, Boundary
        <5> QED BY <3>6, <4>1, <5>1, <5>2, <5>3, <5>4
      <4> QED BY <4>2, <4>3, <4>4, <4>5
    <3> QED BY <3>8, <3>9
  <2> QED BY <2>3, <2>4
<1>3. \A i \in 1..End : i \in S
  <2> HIDE DEF S
  <2>1. 1 \in Nat /\ End \in Nat
    BY <1>0
  <2> QED BY <1>2, <2>1, DownInduction
<1>4. Ends(f[<<s, FALSE>>], s)
  BY <1>3
<1> QED BY <1>1, <1>4

\* Where the parser stands before it looks for a word.
AtGap(s) == s = 1 \/ Boundary(s)

\* Between two words there are spaces only, and no quotes are open.
LEMMA SpacesOutside ==
  ASSUME Len(rep) \in Nat, NEW s \in 1..End, AtGap(s)
  PROVE  /\ Inside(rep)[SkipSpace(s) - 1] = "outside" \/ SkipSpace(s) = End
         /\ \A j \in s..SkipSpace(s) - 1 : Gap(rep, j)
<1> DEFINE at == Inside(rep)
           w == SkipSpace(s)
<1>0. End \in Nat \ {0} /\ End = Len(rep) + 1
  BY DEF End
<1>1. w \in s..End /\ ~IsSpace(w) /\ \A j \in s..w - 1 : IsSpace(j)
  BY <1>0, SkipSpaceType
<1> HIDE DEF w
<1>2. ASSUME NEW j \in s..w - 1
      PROVE  j \in 1..Len(rep) /\ rep[j] = " "
  <2>1. IsSpace(j) /\ j \in 1..Len(rep)
    BY <1>0, <1>1
  <2> QED BY <2>1, Zenon DEF IsSpace
<1>3. CASE w = s /\ s = End
  BY <1>0, <1>3 DEF w
<1>4. CASE ~(w = s /\ s = End)
  <2>1. s # End
    BY <1>0, <1>1, <1>4
  <2>2. at[s - 1] = "outside"
    <3>1. CASE s = 1
      <4>1. s - 1 = 0
        BY <3>1
      <4> QED BY <4>1, InsideStep
    <3>2. CASE s # 1
      BY <2>1, <3>2, Zenon DEF AtGap, Boundary
    <3> QED BY <3>1, <3>2
  <2> DEFINE S == {i \in 0..w - s : at[s + i - 1] = "outside"}
  <2>3. ASSUME NEW i \in 0..w - s, i = 0 \/ i - 1 \in S
        PROVE  i \in S
    <3>1. CASE i = 0
      <4>1. s + i - 1 = s - 1
        BY <3>1
      <4> QED BY <2>2, <4>1
    <3>2. CASE i # 0
      <4>1. at[s + (i - 1) - 1] = "outside"
        BY <2>3, <3>2
      <4>2. /\ s + i - 1 \in s..w - 1 /\ (s + i - 1) - 1 = s + (i - 1) - 1
        BY <1>0, <1>1, <3>2
      <4>3. s + i - 1 \in 1..Len(rep) /\ rep[s + i - 1] = " "
        BY <1>2, <4>2
      <4>4. at[s + i - 1] = IF rep[s + i - 1] = Quote THEN "inside" ELSE "outside"
        BY <4>1, <4>2, <4>3, InsideStep
      <4>5. " " # Quote
        BY DEF Quote
      <4> QED BY <4>3, <4>4, <4>5
    <3> QED BY <3>1, <3>2
  <2>4. \A i \in 0..w - s : i \in S
    <3> HIDE DEF S
    <3>1. w - s \in Nat
      BY <1>0, <1>1
    <3> QED BY <2>3, <3>1, UpInduction
  <2>5. ASSUME NEW j \in s..w
        PROVE  at[j - 1] = "outside"
    <3>1. j - s \in 0..w - s /\ s + (j - s) - 1 = j - 1
      BY <1>0, <1>1
    <3> QED BY <2>4, <3>1
  <2>6. at[w - 1] = "outside"
    <3>1. w \in s..w
      BY <1>1
    <3> QED BY <2>5, <3>1
  <2>7. \A j \in s..w - 1 : Gap(rep, j)
    <3> SUFFICES ASSUME NEW j \in s..w - 1 PROVE Gap(rep, j)
      OBVIOUS
    <3>1. j \in s..w
      BY <1>1
    <3>2. at[j - 1] = "outside"
      BY <2>5, <3>1
    <3> QED BY <1>2, <3>2, GapIn
  <2> QED BY <2>6, <2>7 DEF w
<1> QED BY <1>3, <1>4

\* From one word to the next: xstrtokend finds the first start of a word at or
\* behind the place it is given, and stops where that word ends.
LEMMA NextWord ==
  ASSUME Len(rep) \in Nat, NEW s \in 1..End, AtGap(s)
  PROVE  LET w == SkipSpace(s)
             e == xstrtokend(s)
         IN /\ \A j \in Starts(rep) : j < w => j < s
            /\ w = End => e = NULL
            /\ w # End => /\ e = WordEnd(w) /\ w \in Starts(rep) /\ s <= w /\ w < e /\ e \in 1..End
                          /\ Boundary(e) /\ \A j \in Starts(rep) : j < e => j <= w
                          /\ Between(w, e) = WordAt(rep, w)
<1> DEFINE w == SkipSpace(s)
           e == WordEnd(w)
<1>0. End \in Nat \ {0} /\ End = Len(rep) + 1
  BY DEF End
<1>1. w \in s..End /\ ~IsSpace(w)
  BY <1>0, SkipSpaceType
<1>2. /\ Inside(rep)[w - 1] = "outside" \/ w = End
      /\ \A j \in s..w - 1 : Gap(rep, j)
  BY SpacesOutside
<1>3. xstrtokend(s) = IF w = End THEN NULL ELSE e
  BY DEF xstrtokend
<1> HIDE DEF w, e
<1>4. \A j \in Starts(rep) : j \in 1..Len(rep) /\ ~Gap(rep, j) /\ Gap(rep, j - 1)
  BY DEF Starts
<1>5. \A j \in Starts(rep) : j < w => j < s
  <2> SUFFICES ASSUME NEW j \in Starts(rep), j < w, ~(j < s) PROVE FALSE
    OBVIOUS
  <2>1. j \in s..w - 1
    BY <1>0, <1>1, <1>4
  <2> QED BY <1>2, <1>4, <2>1
<1>6. ASSUME w # End
      PROVE  /\ w \in Starts(rep) /\ s <= w /\ w < e /\ e \in 1..End /\ Boundary(e)
             /\ \A j \in Starts(rep) : j < e => j <= w
             /\ Between(w, e) = WordAt(rep, w)
  <2>1. w \in 1..End /\ w \in 1..Len(rep) /\ w < End /\ s <= w
    BY <1>0, <1>1, <1>6
  <2>2. Ends(e, w)
    BY <1>2, <1>6, <2>1, WordEnds DEF e
  <2>3. e \in w + 1..End
    <3>1. WordEnd(w) \in w + 1..End
      BY <1>0, <1>1, <2>1, WordEndType
    <3> QED BY <3>1 DEF e
  <2>4. e \in 1..End /\ w < e /\ e \in w + 1..Len(rep) + 1
    BY <1>0, <2>1, <2>3
  <2>5. Boundary(e) /\ Gap(rep, e) /\ \A j \in w..e - 1 : ~Gap(rep, j)
    BY <2>2, <2>4, BoundaryGap DEF Ends
  <2>6. Gap(rep, w - 1)
    <3>1. CASE w = 1
      <4>1. w - 1 = 0
        BY <3>1
      <4> QED BY <4>1, Zenon DEF Gap
    <3>2. CASE w # 1 /\ w = s
      <4>1. Boundary(w)
        BY <3>2, Zenon DEF AtGap
      <4>2. Gap(rep, w)
        BY <2>1, <4>1, BoundaryGap
      <4>3. w \in w..e - 1
        BY <2>3, <2>1
      <4> QED BY <2>5, <4>2, <4>3
    <3>3. CASE w # s
      <4>1. w - 1 \in s..w - 1
        BY <1>1, <3>3
      <4> QED BY <1>2, <4>1
    <3> QED BY <3>1, <3>2, <3>3
  <2>7. ~Gap(rep, w)
    <3>1. w \in w..e - 1
      BY <2>1, <2>3
    <3> QED BY <2>5, <3>1
  <2>8. w \in Starts(rep)
    BY <2>1, <2>6, <2>7 DEF Starts
  <2>9. \A j \in Starts(rep) : j < e => j <= w
    <3> SUFFICES ASSUME NEW j \in Starts(rep), j < e, ~(j <= w) PROVE FALSE
      OBVIOUS
    <3>1. j - 1 \in w..e - 1
      BY <1>4, <2>1, <2>4
    <3> QED BY <1>4, <2>5, <3>1
  <2>10. Between(w, e) = WordAt(rep, w)
    <3> DEFINE P(i) == Gap(rep, i) /\ \A j \in w..i - 1 : ~Gap(rep, j)
               c == CHOOSE i \in w + 1..Len(rep) + 1 : P(i)
    <3>1. c \in w + 1..Len(rep) + 1 /\ P(c)
      <4>1. e \in w + 1..Len(rep) + 1 /\ P(e)
        BY <2>4, <2>5
      <4> HIDE DEF P
      <4> QED BY <4>1
    <3> HIDE DEF c
    <3>2. ~(c < e) /\ ~(e < c)
      <4>1. c < e => c \in w..e - 1
        BY <2>1, <2>4, <3>1
      <4>2. e < c => e \in w..c - 1
        BY <2>1, <2>4, <3>1
      <4> QED BY <2>5, <3>1, <4>1, <4>2
    <3>3. c = e
      BY <2>1, <2>4, <3>1, <3>2
    <3> QED BY <3>3 DEF WordAt, Between, c, P
  <2> QED BY <2>1, <2>4, <2>5, <2>8, <2>9, <2>10
<1> QED BY <1>3, <1>5, <1>6 DEF w, e

-----------------------------------------------------------------------------
(* Counting words.                                                         *)

\* There are no more words than characters.
LEMMA StartsFinite ==
  ASSUME Len(rep) \in Nat
  PROVE  /\ IsFiniteSet(Starts(rep)) /\ Cardinality(Starts(rep)) \in Nat
         /\ \A i : /\ IsFiniteSet(StartsBefore(rep, i))
                   /\ Cardinality(StartsBefore(rep, i)) \in Nat
                   /\ Cardinality(StartsBefore(rep, i)) <= Cardinality(Starts(rep))
<1>1. IsFiniteSet(1..Len(rep))
  BY FS_Interval
<1>2. Starts(rep) \in SUBSET (1..Len(rep))
  BY DEF Starts
<1>3. IsFiniteSet(Starts(rep))
  BY <1>1, <1>2, FS_Subset
<1>4. ASSUME NEW i
      PROVE  /\ IsFiniteSet(StartsBefore(rep, i))
             /\ Cardinality(StartsBefore(rep, i)) \in Nat
             /\ Cardinality(StartsBefore(rep, i)) <= Cardinality(Starts(rep))
  <2>1. StartsBefore(rep, i) \in SUBSET Starts(rep)
    BY DEF StartsBefore
  <2> QED BY <1>3, <2>1, FS_Subset, FS_CardinalityType
<1> QED BY <1>3, <1>4, FS_CardinalityType

\* A start has as many before it as its number says: the others have more or
\* fewer.
LEMMA NthWord ==
  ASSUME Len(rep) \in Nat, NEW s \in Starts(rep)
  PROVE  LET k == Cardinality(StartsBefore(rep, s)) + 1
         IN k \in 1..Len(Words(rep)) /\ Words(rep)[k] = WordAt(rep, s)
<1> DEFINE n(i) == Cardinality(StartsBefore(rep, i))
<1>1. Starts(rep) \subseteq Nat
  BY DEF Starts
<1>2. ASSUME NEW i \in Starts(rep), NEW j, j \in Starts(rep) => i < j, j \in Nat, i < j
      PROVE  n(i) < n(j)
  <2>1. i \in Nat /\ i \notin StartsBefore(rep, i)
    BY <1>1 DEF StartsBefore
  <2>2. StartsBefore(rep, i) \cup {i} \in SUBSET StartsBefore(rep, j)
    BY <1>1, <1>2 DEF StartsBefore
  <2>3. Cardinality(StartsBefore(rep, i) \cup {i}) = n(i) + 1
    BY <2>1, StartsFinite, FS_AddElement
  <2>4. Cardinality(StartsBefore(rep, i) \cup {i}) <= n(j)
    BY <2>2, StartsFinite, FS_Subset
  <2>5. n(i) \in Nat /\ n(j) \in Nat
    BY StartsFinite
  <2> HIDE DEF n
  <2> QED BY <2>3, <2>4, <2>5
<1>3. ASSUME NEW i \in Starts(rep), n(i) = n(s)
      PROVE  i = s
  <2>1. i \in Nat /\ s \in Nat /\ n(i) \in Nat
    BY <1>1, StartsFinite
  <2>2. i < s => n(i) < n(s)
    BY <1>2, <2>1
  <2>3. s < i => n(s) < n(i)
    BY <1>2, <2>1
  <2> HIDE DEF n
  <2> QED BY <1>3, <2>1, <2>2, <2>3
<1>4. (CHOOSE i \in Starts(rep) : n(i) = (n(s) + 1) - 1) = s
  <2>1. n(s) \in Nat
    BY StartsFinite
  <2> HIDE DEF n
  <2>2. (n(s) + 1) - 1 = n(s)
    BY <2>1
  <2> QED BY <1>3, <2>2
<1>5. n(s) + 1 <= Cardinality(Starts(rep))
  <2>1. StartsBefore(rep, s) \cup {s} \in SUBSET Starts(rep) /\ s \notin StartsBefore(rep, s)
    BY <1>1 DEF StartsBefore
  <2>2. Cardinality(StartsBefore(rep, s) \cup {s}) = n(s) + 1
    BY <2>1, StartsFinite, FS_AddElement
  <2> QED BY <2>1, <2>2, StartsFinite, FS_Subset
<1>6. n(s) + 1 \in 1..Cardinality(Starts(rep))
  <2>1. n(s) \in Nat /\ Cardinality(Starts(rep)) \in Nat
    BY StartsFinite
  <2> HIDE DEF n
  <2> QED BY <1>5, <2>1
<1>7. Len(Words(rep)) = Cardinality(Starts(rep))
  BY StartsFinite DEF Words
<1>8. Words(rep)[n(s) + 1] = WordAt(rep, s)
  BY <1>4, <1>6 DEF Words
<1> QED BY <1>6, <1>7, <1>8

\* There are as many words as places where one begins.
LEMMA WordCount ==
  ASSUME Len(rep) \in Nat
  PROVE  Len(Words(rep)) = Cardinality(Starts(rep))
BY StartsFinite DEF Words

\* Behind a word one more has been seen; behind the last, all.
LEMMA OneMoreWord ==
  ASSUME Len(rep) \in Nat, NEW s \in 1..End, AtGap(s)
  PROVE  LET w == SkipSpace(s)
             e == xstrtokend(s)
         IN /\ w = End => StartsBefore(rep, s) = Starts(rep)
            /\ w # End =>
                 /\ Cardinality(StartsBefore(rep, w)) = Cardinality(StartsBefore(rep, s))
                 /\ Cardinality(StartsBefore(rep, e)) = Cardinality(StartsBefore(rep, s)) + 1
<1> DEFINE w == SkipSpace(s)
           e == xstrtokend(s)
<1>1. /\ \A j \in Starts(rep) : j < w => j < s
      /\ w # End => /\ w \in Starts(rep) /\ s <= w /\ w < e /\ e \in 1..End
                    /\ \A j \in Starts(rep) : j < e => j <= w
  BY NextWord
<1>2. Starts(rep) \subseteq 1..Len(rep) /\ End = Len(rep) + 1
  BY DEF Starts, End
<1> HIDE DEF w, e
<1>3. CASE w = End
  <2>1. \A j \in Starts(rep) : j < w
    BY <1>2, <1>3
  <2>2. StartsBefore(rep, s) = Starts(rep)
    BY <1>1, <2>1 DEF StartsBefore
  <2> QED BY <1>3, <2>2 DEF w
<1>4. CASE w # End
  <2>1. StartsBefore(rep, w) = StartsBefore(rep, s)
    BY <1>1, <1>2, <1>4 DEF StartsBefore
  <2>2. StartsBefore(rep, e) = StartsBefore(rep, w) \cup {w} /\ w \notin StartsBefore(rep, w)
    BY <1>1, <1>2, <1>4 DEF StartsBefore
  <2>3. Cardinality(StartsBefore(rep, e)) = Cardinality(StartsBefore(rep, w)) + 1
    BY <2>2, StartsFinite, FS_AddElement
  <2> QED BY <1>4, <2>1, <2>3 DEF w, e
<1> QED BY <1>3, <1>4

-----------------------------------------------------------------------------
(* Fields.                                                                 *)

\* What is between two places.
LEMMA BetweenIs ==
  ASSUME TypeOK, NEW s \in 1..End, NEW e \in 1..End, s <= e
  PROVE  /\ Between(s, e) \in Seq(Char) /\ Len(Between(s, e)) = e - s
         /\ \A i \in 1..e - s : Between(s, e)[i] = rep[s + i - 1]
<1>1. rep \in Seq(Char) /\ Len(rep) \in Nat
  BY ReplyAssumption, LineLength DEF TypeOK, Text
<1>2. s \in 1..Len(rep) + 1 /\ e - 1 \in s - 1..Len(rep)
  BY <1>1 DEF End
<1>3. /\ SubSeq(rep, s, e - 1) \in Seq(Char)
      /\ Len(SubSeq(rep, s, e - 1)) = IF s <= e - 1 THEN (e - 1) - s + 1 ELSE 0
      /\ \A i \in 1..(e - 1) - s + 1 : SubSeq(rep, s, e - 1)[i] = rep[s + i - 1]
  BY <1>1, <1>2, SubSeqProperties
<1>4. (IF s <= e - 1 THEN (e - 1) - s + 1 ELSE 0) = e - s /\ (e - 1) - s + 1 = e - s
  BY <1>1, <1>2
<1> QED BY <1>3, <1>4 DEF Between

\* A piece of a piece of the line.
LEMMA PieceOfPiece ==
  ASSUME TypeOK, NEW s \in 1..End, NEW e \in 1..End, s <= e,
         NEW m \in 1..e - s + 1, NEW n \in m - 1..e - s
  PROVE  SubSeq(Between(s, e), m, n) = Between(s + m - 1, s + n)
<1>0. Len(rep) \in Nat /\ End = Len(rep) + 1
  BY LineLength DEF TypeOK, End
<1> DEFINE word == Between(s, e)
           piece == Between(s + m - 1, s + n)
<1>1. word \in Seq(Char) /\ Len(word) = e - s /\ \A i \in 1..e - s : word[i] = rep[s + i - 1]
  BY BetweenIs
<1>2. /\ s + m - 1 \in 1..End /\ s + n \in 1..End /\ s + m - 1 <= s + n
      /\ (s + n) - (s + m - 1) = n - m + 1
      /\ m \in Int /\ n \in Int
  BY <1>0
<1>3. /\ piece \in Seq(Char) /\ Len(piece) = n - m + 1
      /\ \A i \in 1..n - m + 1 : piece[i] = rep[(s + m - 1) + i - 1]
  BY <1>2, BetweenIs, ZenonT(60)
<1> HIDE DEF word, piece
<1>4. \A i \in m..n : word[i] \in Char
  <2> SUFFICES ASSUME NEW i \in m..n PROVE word[i] \in Char
    OBVIOUS
  <2>1. i \in 1..Len(word)
    BY <1>0, <1>1
  <2> QED BY <1>1, <2>1
<1>5. /\ SubSeq(word, m, n) \in Seq(Char)
      /\ Len(SubSeq(word, m, n)) = IF m <= n THEN n - m + 1 ELSE 0
      /\ \A i \in 1..n - m + 1 : SubSeq(word, m, n)[i] = word[m + i - 1]
  BY <1>2, <1>4, SubSeqProperties
<1>6. (IF m <= n THEN n - m + 1 ELSE 0) = n - m + 1
  BY <1>0
<1>7. \A i \in 1..n - m + 1 : SubSeq(word, m, n)[i] = piece[i]
  <2> SUFFICES ASSUME NEW i \in 1..n - m + 1 PROVE SubSeq(word, m, n)[i] = piece[i]
    OBVIOUS
  <2>1. m + i - 1 \in 1..e - s /\ s + (m + i - 1) - 1 = (s + m - 1) + i - 1
    BY <1>0
  <2>2. word[m + i - 1] = rep[s + (m + i - 1) - 1]
    BY <1>1, <2>1
  <2> QED BY <1>3, <1>5, <2>1, <2>2
<1>8. SubSeq(word, m, n) = piece
  BY <1>3, <1>5, <1>6, <1>7, SeqEqual
<1> QED BY <1>8 DEF word, piece

\* A word is cut at its first '='.
LEMMA FieldIs ==
  ASSUME TypeOK, NEW s \in 1..End, NEW e \in 1..End, s <= e
  PROVE  LET eq == {i \in s..e - 1 : rep[i] = "="}
         IN /\ eq = {} => Field(Between(s, e)) = [name |-> Between(s, e), value |-> <<>>]
            /\ \A m \in eq : (\A j \in eq : m <= j) =>
                 Field(Between(s, e)) = [name |-> Between(s, m), value |-> Between(m + 1, e)]
<1> DEFINE eq == {i \in s..e - 1 : rep[i] = "="}
           word == Between(s, e)
           I == {i \in 1..Len(word) : word[i] = "="}
<1>0. Len(rep) \in Nat /\ End = Len(rep) + 1
  BY LineLength DEF TypeOK, End
<1>1. word \in Seq(Char) /\ Len(word) = e - s /\ \A i \in 1..e - s : word[i] = rep[s + i - 1]
  BY BetweenIs
<1>2. Field(word) = IF \E i \in 1..Len(word) : word[i] = "="
                      THEN LET i == IF I # {} THEN CHOOSE x \in I : \A y \in I : x =< y ELSE 0
                           IN [name |-> SubSeq(word, 1, i - 1), value |-> SubSeq(word, i + 1, Len(word))]
                      ELSE [name |-> word, value |-> <<>>]
  BY Zenon DEF Field, Contains, SelectInSeq, Min
<1>3. ASSUME NEW i \in I
      PROVE  s + i - 1 \in eq
  <2>1. i \in 1..e - s /\ rep[s + i - 1] = "="
    BY <1>1
  <2>2. s + i - 1 \in s..e - 1
    BY <1>0, <2>1
  <2> QED BY <2>1, <2>2
<1>4. ASSUME NEW m \in eq
      PROVE  m - s + 1 \in I /\ m \in s..e - 1
  <2>1. m \in s..e - 1 /\ rep[m] = "="
    OBVIOUS
  <2>2. m - s + 1 \in 1..e - s /\ s + (m - s + 1) - 1 = m
    BY <1>0, <2>1
  <2>3. word[m - s + 1] = "="
    BY <1>1, <2>1, <2>2
  <2> QED BY <1>1, <2>1, <2>2, <2>3
<1>5. CASE eq = {}
  <2>1. I = {}
    BY <1>3, <1>5
  <2>2. ~(\E i \in 1..Len(word) : word[i] = "=")
    BY <2>1
  <2> HIDE DEF word, I
  <2>3. Field(word) = [name |-> word, value |-> <<>>]
    BY <1>2, <2>2, Zenon
  <2> QED BY <1>5, <2>3 DEF word
<1>6. ASSUME NEW m \in eq, \A j \in eq : m <= j
      PROVE  Field(word) = [name |-> Between(s, m), value |-> Between(m + 1, e)]
  <2> DEFINE k == CHOOSE x \in I : \A y \in I : x =< y
             i == m - s + 1
  <2>1. i \in I /\ m \in s..e - 1
    BY <1>4
  <2>2. \A y \in I : i =< y
    <3> SUFFICES ASSUME NEW y \in I PROVE i =< y
      OBVIOUS
    <3>1. s + y - 1 \in eq /\ y \in 1..e - s
      BY <1>1, <1>3
    <3>2. m <= s + y - 1
      BY <1>6, <3>1
    <3> QED BY <1>0, <2>1, <3>1, <3>2
  <2>3. k \in I /\ \A y \in I : k =< y
    <3> HIDE DEF I, i
    <3> QED BY <2>1, <2>2
  <2>4. k \in Nat /\ i \in 1..e - s
    BY <1>1, <2>1, <2>3
  <2> HIDE DEF k
  <2>5. k = i
    <3>1. k =< i /\ i =< k
      BY <2>1, <2>2, <2>3
    <3> HIDE DEF i, I
    <3> QED BY <2>4, <3>1
  <2>6. Field(word) = [name |-> SubSeq(word, 1, i - 1), value |-> SubSeq(word, i + 1, Len(word))]
    <3>1. I # {} /\ \E x \in 1..Len(word) : word[x] = "="
      BY <2>1
    <3>2. Field(word) = [name |-> SubSeq(word, 1, k - 1), value |-> SubSeq(word, k + 1, Len(word))]
      <4> HIDE DEF I, word
      <4> QED BY <1>2, <3>1, Zenon DEF k
    <3> HIDE DEF I, word, i
    <3> QED BY <2>5, <3>2
  <2>7. SubSeq(word, 1, i - 1) = Between(s, m)
    <3>1. 1 \in 1..e - s + 1 /\ i - 1 \in 1 - 1..e - s /\ s + 1 - 1 = s /\ s + (i - 1) = m
      BY <1>0, <2>1, <2>4
    <3>2. SubSeq(word, 1, i - 1) = Between(s + 1 - 1, s + (i - 1))
      <4> HIDE DEF i
      <4> QED BY <3>1, PieceOfPiece
    <3> QED BY <3>1, <3>2
  <2>8. SubSeq(word, i + 1, Len(word)) = Between(m + 1, e)
    <3>1. /\ i + 1 \in 1..e - s + 1 /\ e - s \in (i + 1) - 1..e - s
          /\ s + (i + 1) - 1 = m + 1 /\ s + (e - s) = e /\ Len(word) = e - s
      BY <1>0, <1>1, <2>1, <2>4
    <3>2. SubSeq(word, i + 1, e - s) = Between(s + (i + 1) - 1, s + (e - s))
      <4> HIDE DEF i
      <4> QED BY <3>1, PieceOfPiece
    <3> QED BY <3>1, <3>2
  <2> QED BY <2>6, <2>7, <2>8
<1> QED BY <1>5, <1>6

-----------------------------------------------------------------------------
(* The parser.                                                             *)

\* Between words; as many words are in the list as have been passed, and they
\* are those of the line.
Parsed(l, i) ==
  /\ i \in 1..End /\ Boundary(i)
  /\ Len(l) >= 1 /\ Cardinality(StartsBefore(rep, i)) = Len(l) + 1
  /\ \A k \in 1..Len(l) : l[k] = Meaning(rep)[k]

WordInv ==
  /\ pc \in {"read", "words"} => list = <<>> /\ p = 1
  /\ pc \in {"fields", "list"} => Parsed(list, p)
  /\ pc = "list" => StartsBefore(rep, p) = Starts(rep)
  /\ pc = "tooShort" => Len(Words(rep)) < 2

\* The item of the words behind the k-th.
LEMMA MeaningAt ==
  ASSUME Len(rep) \in Nat, NEW k \in Nat \ {0}, k + 1 \in 1..Len(Words(rep))
  PROVE  Meaning(rep)[k] = IF k = 1 THEN [name |-> Words(rep)[1], value |-> Words(rep)[2]]
                                    ELSE Field(Words(rep)[k + 1])
<1>1. Len(Words(rep)) \in Nat
  BY StartsFinite, WordCount
<1>2. k \in 1..Len(Words(rep)) - 1
  BY <1>1
<1> QED BY <1>2 DEF Meaning

\* What a step of the parser leaves that has added the next item.
LEMMA ItemAdded ==
  ASSUME TypeOK, FieldInv, NEW name \in Text, NEW value \in Text, NEW e \in 1..End,
         AddItem(name, value, e), Boundary(e),
         Cardinality(StartsBefore(rep, e)) = Len(list) + 2,
         [name |-> name, value |-> value] = Meaning(rep)[Len(list) + 1],
         \A k \in 1..Len(list) : list[k] = Meaning(rep)[k]
  PROVE  WordInv'
<1> DEFINE item == [name |-> name, value |-> value]
<1>1. rep' = rep
  BY DEF AddItem
<1>2. CASE pc' \in {"error", "lost"}
  BY <1>2 DEF WordInv
<1>3. CASE list' = Append(list, item) /\ p' = e /\ pc' = "fields"
  <2>1. item \in Pair /\ list \in Seq(Pair) /\ Len(list) \in Nat
    BY DEF Pair, FieldInv
  <2> HIDE DEF item
  <2>2. /\ Len(list') = Len(list) + 1 /\ list'[Len(list) + 1] = item
        /\ \A k \in 1..Len(list) : list'[k] = list[k]
    BY <1>3, <2>1, AppendProperties
  <2>3. item = Meaning(rep)[Len(list) + 1]
    BY DEF item
  <2>4. \A k \in 1..Len(list') : list'[k] = Meaning(rep)[k]
    <3> SUFFICES ASSUME NEW k \in 1..Len(list') PROVE list'[k] = Meaning(rep)[k]
      OBVIOUS
    <3>1. k \in 1..Len(list) \/ k = Len(list) + 1
      BY <2>1, <2>2
    <3> QED BY <2>2, <2>3, <3>1
  <2>5. Len(list') >= 1 /\ Cardinality(StartsBefore(rep, e)) = Len(list') + 1
    BY <2>1, <2>2
  <2>6. Parsed(list', e)
    BY <2>4, <2>5 DEF Parsed
  <2>7. Parsed(list, p)'
    BY <1>1, <1>3, <2>6 DEF Parsed, Boundary, End
  <2> QED BY <1>3, <2>7 DEF WordInv
<1>4. pc' \in {"error", "lost"} \/ (list' = Append(list, item) /\ p' = e /\ pc' = "fields")
  BY DEF AddItem
<1> QED BY <1>2, <1>3, <1>4

\* The first two words are one item.
LEMMA WordsStep ==
  ASSUME TypeOK, FieldInv, WordInv, ParseWords
  PROVE  WordInv'
<1> DEFINE s == SkipSpace(1)
           e == xstrtokend(1)
           s2 == SkipSpace(e)
           e1 == xstrtokend(e)
           n(i) == Cardinality(StartsBefore(rep, i))
<1>0. Len(rep) \in Nat /\ End = Len(rep) + 1 /\ 1 \in 1..End
  BY LineLength DEF TypeOK, End
<1>1. list = <<>> /\ Len(list) = 0
  BY DEF ParseWords, WordInv
<1>2. n(1) = 0
  <2>1. StartsBefore(rep, 1) = {}
    BY DEF StartsBefore, Starts
  <2> QED BY <2>1, FS_EmptySet
<1>3. NULL \notin Nat
  BY ReplyAssumption
<1>4. /\ s = End => e = NULL /\ StartsBefore(rep, 1) = Starts(rep)
      /\ s # End => /\ s \in Starts(rep) /\ e \in 1..End /\ Boundary(e) /\ s < e
                    /\ Between(s, e) = WordAt(rep, s)
                    /\ n(s) = 0 /\ n(e) = 1
  <2>1. AtGap(1)
    BY DEF AtGap
  <2>2. n(1) + 1 = 1
    BY <1>2
  <2> HIDE DEF s, e, n
  <2>3. /\ s = End => e = NULL /\ StartsBefore(rep, 1) = Starts(rep)
        /\ s # End => /\ s \in Starts(rep) /\ e \in 1..End /\ Boundary(e) /\ s < e
                      /\ Between(s, e) = WordAt(rep, s)
    BY <1>0, <2>1, NextWord, OneMoreWord DEF s, e
  <2>4. s # End => n(s) = n(1) /\ n(e) = n(1) + 1
    BY <1>0, <2>1, OneMoreWord DEF s, e, n
  <2> QED BY <1>2, <2>2, <2>3, <2>4
<1>5. ASSUME s # End
      PROVE  /\ s2 = End => e1 = NULL /\ StartsBefore(rep, e) = Starts(rep)
             /\ s2 # End => /\ s2 \in Starts(rep) /\ e1 \in 1..End /\ Boundary(e1) /\ s2 < e1
                            /\ Between(s2, e1) = WordAt(rep, s2)
                            /\ n(s2) = 1 /\ n(e1) = 2
  <2>1. e \in 1..End /\ Boundary(e) /\ n(e) = 1
    BY <1>4, <1>5
  <2> HIDE DEF e, n
  <2>2. AtGap(e)
    BY <2>1 DEF AtGap
  <2> HIDE DEF s2, e1
  <2>3. /\ s2 = End => e1 = NULL /\ StartsBefore(rep, e) = Starts(rep)
        /\ s2 # End => /\ s2 \in Starts(rep) /\ e1 \in 1..End /\ Boundary(e1) /\ s2 < e1
                      /\ Between(s2, e1) = WordAt(rep, s2)
    BY <1>0, <2>1, <2>2, NextWord, OneMoreWord DEF s2, e1
  <2>4. s2 # End => n(s2) = n(e) /\ n(e1) = n(e) + 1
    BY <1>0, <2>1, <2>2, OneMoreWord DEF s2, e1, n
  <2> QED BY <2>1, <2>3, <2>4
<1>6. CASE pc' = "tooShort" /\ rep' = rep /\ (e = NULL \/ e1 = NULL)
  <2>1. CASE s = End
    <3>1. Cardinality(Starts(rep)) = 0
      BY <1>2, <1>4, <2>1
    <3>2. Len(Words(rep)) < 2
      BY <1>0, <3>1, WordCount
    <3> QED BY <1>6, <3>2 DEF WordInv
  <2>2. CASE s # End
    <3>1. s2 = End
      <4>1. e # NULL
        BY <1>3, <1>4, <2>2
      <4>2. e1 = NULL
        BY <1>6, <4>1
      <4> HIDE DEF s2, e1, e
      <4> QED BY <1>3, <1>5, <2>2, <4>2
    <3>2. Cardinality(Starts(rep)) = 1
      BY <1>4, <1>5, <2>2, <3>1
    <3>3. Len(Words(rep)) < 2
      <4> HIDE DEF s, e, s2, e1, n
      <4>1. Len(Words(rep)) = 1
        BY <1>0, <3>2, WordCount
      <4> QED BY <4>1
    <3> QED BY <1>6, <3>3 DEF WordInv
  <2> QED BY <2>1, <2>2
<1>7. CASE e # NULL /\ e1 # NULL /\ AddItem(Between(s, e), Between(s2, e1), e1)
  <2>1. s # End /\ s2 # End
    BY <1>4, <1>5, <1>7
  <2>2. /\ s \in Starts(rep) /\ e \in 1..End /\ s < e /\ Between(s, e) = WordAt(rep, s) /\ n(s) = 0
        /\ s2 \in Starts(rep) /\ e1 \in 1..End /\ Boundary(e1) /\ s2 < e1
        /\ Between(s2, e1) = WordAt(rep, s2) /\ n(s2) = 1 /\ n(e1) = 2
    BY <1>4, <1>5, <2>1
  <2> HIDE DEF s, e, s2, e1
  <2>3. s \in 1..End /\ s2 \in 1..End
    BY <1>0, <2>2 DEF Starts
  <2>4. Between(s, e) \in Text /\ Between(s2, e1) \in Text
    BY <1>0, <2>2, <2>3, BetweenType
  <2>5. Words(rep)[1] = Between(s, e)
    <3>1. Words(rep)[n(s) + 1] = WordAt(rep, s)
      BY <1>0, <2>2, NthWord
    <3>2. n(s) + 1 = 1
      BY <2>2
    <3> QED BY <2>2, <3>1, <3>2
  <2>6. 2 \in 1..Len(Words(rep)) /\ Words(rep)[2] = Between(s2, e1)
    <3>1. n(s2) + 1 \in 1..Len(Words(rep)) /\ Words(rep)[n(s2) + 1] = WordAt(rep, s2)
      BY <1>0, <2>2, NthWord
    <3>2. n(s2) + 1 = 2
      BY <2>2
    <3> QED BY <2>2, <3>1, <3>2
  <2>7. Meaning(rep)[1] = [name |-> Between(s, e), value |-> Between(s2, e1)]
    <3>1. 1 \in Nat \ {0} /\ 1 + 1 \in 1..Len(Words(rep))
      BY <2>6
    <3> QED BY <1>0, <2>5, <2>6, <3>1, MeaningAt
  <2>8. Len(list) + 1 = 1 /\ n(e1) = Len(list) + 2 /\ \A k \in 1..Len(list) : FALSE
    BY <1>1, <2>2
  <2> QED BY <1>7, <2>2, <2>4, <2>7, <2>8, ItemAdded
<1>8. \/ pc' = "tooShort" /\ rep' = rep /\ (e = NULL \/ e1 = NULL)
      \/ e # NULL /\ e1 # NULL /\ AddItem(Between(s, e), Between(s2, e1), e1)
  BY Zenon DEF ParseWords
<1> QED BY <1>6, <1>7, <1>8

\* And each further word is one.
LEMMA FieldsStep ==
  ASSUME TypeOK, FieldInv, WordInv, ParseField
  PROVE  WordInv'
<1> DEFINE s == SkipSpace(p)
           e == xstrtokend(p)
           eq == {i \in s..e - 1 : rep[i] = "="}
           e1 == CHOOSE i \in eq : \A j \in eq : i <= j
           n(i) == Cardinality(StartsBefore(rep, i))
<1>0. Len(rep) \in Nat /\ End = Len(rep) + 1 /\ Len(list) \in Nat
  BY LineLength DEF TypeOK, End, FieldInv
<1>1. /\ p \in 1..End /\ Boundary(p) /\ Len(list) >= 1 /\ n(p) = Len(list) + 1
      /\ \A k \in 1..Len(list) : list[k] = Meaning(rep)[k]
  BY DEF ParseField, WordInv, Parsed
<1>2. NULL \notin Nat /\ AtGap(p)
  BY <1>1, ReplyAssumption DEF AtGap
<1>3. /\ s = End => e = NULL /\ StartsBefore(rep, p) = Starts(rep)
      /\ s # End => /\ s \in Starts(rep) /\ e \in 1..End /\ Boundary(e) /\ s < e
                    /\ Between(s, e) = WordAt(rep, s)
                    /\ n(s) = Len(list) + 1 /\ n(e) = Len(list) + 2
  <2> HIDE DEF s, e, n
  <2>3. /\ s = End => e = NULL /\ StartsBefore(rep, p) = Starts(rep)
        /\ s # End => /\ s \in Starts(rep) /\ e \in 1..End /\ Boundary(e) /\ s < e
                      /\ Between(s, e) = WordAt(rep, s)
    BY <1>0, <1>1, <1>2, NextWord, OneMoreWord DEF s, e
  <2>4. s # End => n(s) = n(p) /\ n(e) = n(p) + 1
    BY <1>0, <1>1, <1>2, OneMoreWord DEF s, e, n
  <2> QED BY <1>0, <1>1, <2>3, <2>4
<1>4. CASE e = NULL /\ pc' = "list" /\ UNCHANGED <<rep, p, list>>
  <2>1. s = End
    BY <1>2, <1>3, <1>4
  <2>2. StartsBefore(rep, p) = Starts(rep)
    BY <1>3, <2>1
  <2>3. Parsed(list, p)
    BY <1>1 DEF Parsed
  <2> QED BY <1>4, <2>2, <2>3 DEF WordInv, Parsed, Boundary, End
<1>5. ASSUME e # NULL
      PROVE  /\ s \in 1..End /\ e \in 1..End /\ s <= e /\ s < e /\ Boundary(e)
             /\ n(e) = Len(list) + 2
             /\ Meaning(rep)[Len(list) + 1] = Field(Between(s, e))
  <2>1. s # End
    BY <1>3, <1>5
  <2>2. /\ s \in Starts(rep) /\ e \in 1..End /\ Boundary(e) /\ s < e
        /\ Between(s, e) = WordAt(rep, s)
        /\ n(s) = Len(list) + 1 /\ n(e) = Len(list) + 2
    BY <1>3, <2>1
  <2> HIDE DEF s, e
  <2>3. s \in 1..End /\ s <= e
    BY <1>0, <2>2 DEF Starts
  <2>4. (Len(list) + 1) + 1 \in 1..Len(Words(rep))
        /\ Words(rep)[(Len(list) + 1) + 1] = Between(s, e)
    <3>1. n(s) + 1 \in 1..Len(Words(rep)) /\ Words(rep)[n(s) + 1] = WordAt(rep, s)
      BY <1>0, <2>2, NthWord
    <3> HIDE DEF n
    <3> QED BY <2>2, <3>1
  <2>5. Len(list) + 1 \in Nat \ {0} /\ Len(list) + 1 # 1
    BY <1>0, <1>1
  <2>6. Meaning(rep)[Len(list) + 1] = Field(Words(rep)[(Len(list) + 1) + 1])
    BY <1>0, <2>4, <2>5, MeaningAt
  <2> QED BY <2>2, <2>3, <2>4, <2>6
<1>6. CASE e # NULL /\ eq # {} /\ AddItem(Between(s, e1), Between(e1 + 1, e), e)
  <2>1. e1 \in eq /\ \A j \in eq : e1 <= j
    <3>1. eq \in SUBSET Nat
      <4>1. s \in 1..End /\ e \in 1..End
        BY <1>5, <1>6
      <4> HIDE DEF s, e
      <4> QED BY <1>0, <4>1
    <3> HIDE DEF eq
    <3> QED BY <1>6, <3>1, Least
  <2>2. /\ s \in 1..End /\ e \in 1..End /\ s <= e /\ Boundary(e) /\ n(e) = Len(list) + 2
        /\ Meaning(rep)[Len(list) + 1] = Field(Between(s, e))
    BY <1>5, <1>6
  <2> HIDE DEF s, e, e1
  <2>3. e1 \in s..e - 1 /\ e1 \in 1..End /\ e1 + 1 \in 1..End /\ s <= e1 /\ e1 + 1 <= e
    BY <1>0, <2>1, <2>2
  <2>4. Field(Between(s, e)) = [name |-> Between(s, e1), value |-> Between(e1 + 1, e)]
    BY <2>1, <2>2, FieldIs
  <2>5. Between(s, e1) \in Text /\ Between(e1 + 1, e) \in Text
    BY <2>2, <2>3, BetweenType
  <2> HIDE DEF eq
  <2> QED BY <1>1, <1>6, <2>2, <2>4, <2>5, ItemAdded
<1>7. CASE e # NULL /\ eq = {} /\ AddItem(Between(s, e), <<>>, e)
  <2>1. /\ s \in 1..End /\ e \in 1..End /\ s <= e /\ Boundary(e) /\ n(e) = Len(list) + 2
        /\ Meaning(rep)[Len(list) + 1] = Field(Between(s, e))
    BY <1>5, <1>7
  <2> HIDE DEF s, e
  <2>2. Field(Between(s, e)) = [name |-> Between(s, e), value |-> <<>>]
    BY <1>7, <2>1, FieldIs
  <2>3. Between(s, e) \in Text /\ <<>> \in Text
    BY <2>1, BetweenType DEF Text
  <2> QED BY <1>1, <1>7, <2>1, <2>2, <2>3, ItemAdded
<1>8. \/ e = NULL /\ pc' = "list" /\ UNCHANGED <<rep, p, list>>
      \/ e # NULL /\ eq # {} /\ AddItem(Between(s, e1), Between(e1 + 1, e), e)
      \/ e # NULL /\ eq = {} /\ AddItem(Between(s, e), <<>>, e)
  BY Zenon DEF ParseField
<1> QED BY <1>4, <1>6, <1>7, <1>8

\* No word has been seen yet.
LEMMA WordInit == Init => WordInv
BY DEF Init, WordInv

\* Every step leaves the parser at a gap, with a list that means the words before.
LEMMA WordStep == TypeOK /\ FieldInv /\ WordInv /\ [Next]_vars => WordInv'
<1> SUFFICES ASSUME TypeOK, FieldInv, WordInv, [Next]_vars PROVE WordInv'
  OBVIOUS
<1>1. CASE sam3tcpReceiveStr
  <2>1. pc' \in {"read", "words", "tooLong"} /\ list' = list /\ p' = p /\ pc = "read"
    BY <1>1 DEF sam3tcpReceiveStr
  <2> QED BY <2>1 DEF WordInv
<1>2. CASE Release
  BY <1>2 DEF Release, WordInv
<1>3. CASE UNCHANGED vars
  BY <1>3 DEF vars, WordInv, Parsed, Boundary, End
<1> QED BY <1>1, <1>2, <1>3, WordsStep, FieldsStep DEF Next, Returned

\* The words in the list are the first words of the line, and all of them when
\* the parser has come to its end.
LEMMA ListMeans == TypeOK /\ FieldInv /\ WordInv => ParsesReply
<1> SUFFICES ASSUME TypeOK, FieldInv, WordInv, pc \in {"fields", "list"}
             PROVE  /\ Len(Words(rep)) >= 2 /\ IsPrefix(list, Meaning(rep))
                    /\ pc = "list" => list = Meaning(rep)
  BY DEF ParsesReply, WordInv
<1> DEFINE m == Meaning(rep)
           n == Len(list)
<1>1. Len(rep) \in Nat /\ list \in Seq(Pair) /\ n \in Nat
  BY LineLength DEF TypeOK, FieldInv
<1>2. /\ n >= 1 /\ Cardinality(StartsBefore(rep, p)) = n + 1 /\ \A k \in 1..n : list[k] = m[k]
      /\ pc = "list" => StartsBefore(rep, p) = Starts(rep)
  BY DEF WordInv, Parsed
<1>3. /\ Len(Words(rep)) \in Nat /\ Len(Words(rep)) >= n + 1
      /\ pc = "list" => Len(Words(rep)) = n + 1
  <2>1. Len(Words(rep)) = Cardinality(Starts(rep))
    BY <1>1, WordCount
  <2> HIDE DEF n
  <2> QED BY <1>1, <1>2, <2>1, StartsFinite
<1>4. /\ Len(m) = Len(Words(rep)) - 1 /\ DOMAIN m = 1..Len(Words(rep)) - 1
      /\ m = [k \in 1..Len(Words(rep)) - 1 |-> m[k]]
  <2>1. Len(Words(rep)) - 1 \in Nat
    BY <1>1, <1>2, <1>3
  <2> QED BY <2>1 DEF Meaning
<1> HIDE DEF m, n
<1>5. n <= Len(m) /\ Len(m) \in Nat /\ (pc = "list" => Len(m) = n)
  BY <1>1, <1>2, <1>3, <1>4
<1>6. \A k \in 1..n : list[k] \in Pair /\ m[k] \in Pair /\ list[k] = m[k]
  BY <1>1, <1>2 DEF n
<1>7. SubSeq(list, 1, n) = SubSeq(m, 1, n)
  <2>1. /\ SubSeq(list, 1, n) \in Seq(Pair) /\ SubSeq(m, 1, n) \in Seq(Pair)
        /\ Len(SubSeq(list, 1, n)) = n /\ Len(SubSeq(m, 1, n)) = n
        /\ \A i \in 1..n : SubSeq(list, 1, n)[i] = list[i] /\ SubSeq(m, 1, n)[i] = m[i]
    <3>1. \A x : (\A k \in 1..n : x[k] \in Pair) =>
                   /\ SubSeq(x, 1, n) \in Seq(Pair)
                   /\ Len(SubSeq(x, 1, n)) = IF 1 <= n THEN n - 1 + 1 ELSE 0
                   /\ \A i \in 1..n - 1 + 1 : SubSeq(x, 1, n)[i] = x[1 + i - 1]
      BY <1>1, SubSeqProperties
    <3>2. (IF 1 <= n THEN n - 1 + 1 ELSE 0) = n /\ n - 1 + 1 = n
      BY <1>1, <1>2
    <3>3. \A i \in 1..n : 1 + i - 1 = i
      BY <1>1
    <3> QED BY <1>6, <3>1, <3>2, <3>3
  <2> QED BY <1>6, <2>1, SeqEqual
<1>8. ASSUME pc = "list"
      PROVE  list = m
  <2>1. DOMAIN m = 1..n /\ m = [k \in 1..n |-> m[k]]
    BY <1>1, <1>3, <1>4, <1>8
  <2>2. m \in Seq(Pair)
    BY <1>1, <1>6, <2>1
  <2>3. Len(m) = Len(list) /\ \A k \in 1..Len(list) : list[k] = m[k]
    BY <1>5, <1>6, <1>8 DEF n
  <2> QED BY <1>1, <2>2, <2>3, SeqEqual
<1>9. Len(Words(rep)) >= 2
  BY <1>1, <1>2, <1>3
<1> QED BY <1>5, <1>7, <1>8, <1>9 DEF IsPrefix, m, n

\* For every line, every alphabet and every malloc() that fails: what is in the
\* list are the first words of the line, at the end all of them, and only a line
\* without two words is no reply.  xstrtokend starts anew at every word, and yet
\* it takes no space for a gap that is between quotes (libsam3.c:413-546).
THEOREM ParsesReplyHolds == Spec => []ParsesReply
<1>1. Init => TypeOK /\ FieldInv /\ WordInv
  <2>1. <<>> \in Seq(Pair)
    OBVIOUS
  <2> QED BY <2>1, TypeInit, WordInit DEF Init, FieldInv
<1>2. TypeOK /\ FieldInv /\ WordInv /\ [Next]_vars => (TypeOK /\ FieldInv /\ WordInv)'
  BY TypeStep, FieldStep, WordStep
<1> QED BY <1>1, <1>2, ListMeans, PTL DEF Spec
=============================================================================
