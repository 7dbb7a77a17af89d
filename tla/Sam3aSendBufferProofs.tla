----------------------- MODULE Sam3aSendBufferProofs -----------------------
(***************************************************************************)
(* The send buffer of a connection loses nothing and keeps the order, for  *)
(* every buffer size and every way the kernel and the application cut the  *)
(* data up, as long as what is queued in cbSent fits the shrunk buffer.    *)
(***************************************************************************)
EXTENDS Sam3aSendBuffer, SequenceTheorems, TLAPS

Byte == 0..MaxBytes

\* The shrunk buffer holds what has been queued in the callback.
Fits == inSent => Len(data) <= Quota

IInv == TypeOK /\ InOrder /\ Fits

\* memmove() of the rest of the buffer to its front (libsam3a.c:1446-1449): the
\* two parts of a sequence put together are the sequence.
LEMMA CutAndJoin ==
  ASSUME NEW S, NEW s \in Seq(S), NEW k \in 0..Len(s)
  PROVE  /\ SubSeq(s, 1, k) \in Seq(S) /\ Len(SubSeq(s, 1, k)) = k
         /\ SubSeq(s, k + 1, Len(s)) \in Seq(S)
         /\ Len(SubSeq(s, k + 1, Len(s))) = Len(s) - k
         /\ SubSeq(s, 1, k) \o SubSeq(s, k + 1, Len(s)) = s
<1> DEFINE a == SubSeq(s, 1, k)
           b == SubSeq(s, k + 1, Len(s))
<1>1. Len(s) \in Nat /\ k \in Int /\ k <= Len(s) /\ 0 <= k
  BY LenProperties
<1>2. \A i \in 1..Len(s) : s[i] \in S
  BY ElementOfSeq
<1>3. a \in Seq(S) /\ Len(a) = k /\ \A i \in 1..k : a[i] = s[i]
  <2>1. \A i \in 1..k : s[i] \in S
    BY <1>1, <1>2
  <2>2. /\ SubSeq(s, 1, k) \in Seq(S)
        /\ Len(SubSeq(s, 1, k)) = IF 1 <= k THEN k - 1 + 1 ELSE 0
        /\ \A i \in 1..(k - 1 + 1) : SubSeq(s, 1, k)[i] = s[1 + i - 1]
    BY <1>1, <2>1, SubSeqProperties
  <2> QED BY <1>1, <2>2
<1>4. b \in Seq(S) /\ Len(b) = Len(s) - k /\ \A i \in 1..Len(b) : b[i] = s[k + i]
  <2>1. \A i \in (k + 1)..Len(s) : s[i] \in S
    BY <1>1, <1>2
  <2>2. /\ SubSeq(s, k + 1, Len(s)) \in Seq(S)
        /\ Len(SubSeq(s, k + 1, Len(s)))
             = IF k + 1 <= Len(s) THEN Len(s) - (k + 1) + 1 ELSE 0
        /\ \A i \in 1..(Len(s) - (k + 1) + 1) :
             SubSeq(s, k + 1, Len(s))[i] = s[(k + 1) + i - 1]
    BY <1>1, <2>1, SubSeqProperties
  <2> QED BY <1>1, <2>2
<1> HIDE DEF a, b
<1>5. /\ a \o b \in Seq(S) /\ Len(a \o b) = Len(s)
      /\ \A i \in 1..Len(s) : (a \o b)[i] = IF i <= k THEN a[i] ELSE b[i - k]
  BY <1>1, <1>3, <1>4, ConcatProperties
<1>6. ASSUME NEW i \in 1..Len(s) PROVE (a \o b)[i] = s[i]
  <2>1. CASE i <= k
    BY <1>1, <1>3, <1>5, <2>1
  <2>2. CASE ~(i <= k)
    <3>1. i - k \in 1..Len(b) /\ k + (i - k) = i
      BY <1>1, <1>4, <2>2
    <3> QED BY <1>4, <1>5, <2>2, <3>1
  <2> QED BY <2>1, <2>2
<1>7. a \o b = s
  BY <1>5, <1>6, SeqEqual
<1> QED BY <1>3, <1>4, <1>7 DEF a, b

\* The new bytes continue the numbering (libsam3a.c:1701-1702).
LEMMA FreshContinues ==
  ASSUME NEW n \in 1..MaxBytes, accepted \in Nat, accepted + n <= MaxBytes,
         MaxBytes \in Nat
  PROVE  /\ Fresh(n) \in Seq(1..MaxBytes) /\ Len(Fresh(n)) = n
         /\ [i \in 1..accepted |-> i] \o Fresh(n) = [i \in 1..(accepted + n) |-> i]
<1> DEFINE S == 1..MaxBytes
           p == [i \in 1..accepted |-> i]
           q == [i \in 1..(accepted + n) |-> i]
<1>1. p \in Seq(S) /\ Len(p) = accepted
  BY SMT
<1>2. Fresh(n) \in Seq(S) /\ Len(Fresh(n)) = n /\ \A i \in 1..n : Fresh(n)[i] = accepted + i
  BY SMT DEF Fresh
<1>3. q \in Seq(S) /\ Len(q) = accepted + n
  BY SMT
<1>4. /\ p \o Fresh(n) \in Seq(S) /\ Len(p \o Fresh(n)) = accepted + n
      /\ \A i \in 1..(accepted + n) :
           (p \o Fresh(n))[i] = IF i <= accepted THEN p[i] ELSE Fresh(n)[i - accepted]
  <2> DEFINE f == Fresh(n)
  <2>1. p \in Seq(S) /\ Len(p) = accepted /\ f \in Seq(S) /\ Len(f) = n
    BY <1>1, <1>2
  <2> HIDE DEF p, q, f, S
  <2>2. /\ p \o f \in Seq(S) /\ Len(p \o f) = Len(p) + Len(f)
        /\ \A i \in 1..(Len(p) + Len(f)) :
             (p \o f)[i] = IF i <= Len(p) THEN p[i] ELSE f[i - Len(p)]
    BY <2>1, ConcatProperties
  <2> QED BY <2>1, <2>2 DEF f
<1>5. \A i \in 1..(accepted + n) : (p \o Fresh(n))[i] = q[i]
  BY <1>2, <1>4
<1>6. p \o Fresh(n) = q
  <2> HIDE DEF p, q
  <2> QED BY <1>3, <1>4, <1>5, SeqEqual
<1> QED BY <1>2, <1>6

-----------------------------------------------------------------------------
\* sam3aSend keeps the invariant (libsam3a.c:1681-1708).
LEMMA SendStep ==
  ASSUME IInv, NEW n \in 1..MaxBytes, sam3aSend(n)
  PROVE  IInv'
<1> USE DEF IInv
<1>1. MaxBytes \in Nat /\ Quota \in Nat
  BY BufferAssumption
<1>2. accepted \in Nat /\ accepted + n <= MaxBytes
  BY <1>1 DEF TypeOK, sam3aSend
<1>3. /\ Fresh(n) \in Seq(1..MaxBytes) /\ Len(Fresh(n)) = n
      /\ [i \in 1..accepted |-> i] \o Fresh(n) = [i \in 1..(accepted + n) |-> i]
  BY <1>1, <1>2, FreshContinues
<1>4. Fresh(n) \in Seq(Byte) /\ data \in Seq(Byte) /\ wire \in Seq(Byte)
  <2>1. 1..MaxBytes \subseteq Byte
    BY <1>1 DEF Byte
  <2> QED BY <1>3, <2>1, SeqMonotonic DEF TypeOK, Byte
<1>5. /\ data' = data \o Fresh(n) /\ data' \in Seq(Byte)
      /\ Len(data') = Len(data) + n
  <2>1. data' = data \o Fresh(n)
    BY DEF sam3aSend
  <2>2. data \o Fresh(n) \in Seq(Byte) /\ Len(data \o Fresh(n)) = Len(data) + Len(Fresh(n))
    BY <1>4, ConcatProperties
  <2> QED BY <1>3, <2>1, <2>2
<1>6. wire' \o data' = (wire \o data) \o Fresh(n)
  <2>1. (wire \o data) \o Fresh(n) = wire \o (data \o Fresh(n))
    BY <1>4, ConcatAssociative
  <2> QED BY <1>5, <2>1 DEF sam3aSend
<1>7. InOrder'
  BY <1>3, <1>6 DEF InOrder, sam3aSend
<1>8. Len(data) \in Nat
  BY <1>4, LenProperties
<1>9. TypeOK'
  <2>1. size' \in Nat /\ Len(data') <= size'
    BY <1>1, <1>5, <1>8 DEF TypeOK, sam3aSend
  <2>2. accepted' \in 0..MaxBytes /\ inSent' \in BOOLEAN /\ wire' \in Seq(1..MaxBytes)
    BY <1>1, <1>2 DEF TypeOK, sam3aSend
  <2> QED BY <1>5, <2>1, <2>2 DEF TypeOK, Byte
<1>10. Fits'
  BY <1>1, <1>5, <1>8 DEF Fits, sam3aSend
<1> QED BY <1>7, <1>9, <1>10

\* The writer keeps it, whatever part of the buffer the kernel takes
\* (libsam3a.c:1433-1457).
LEMMA WriteStep ==
  ASSUME IInv, NEW k \in 1..Len(data), aioConnDataWriter(k)
  PROVE  IInv'
<1> USE DEF IInv
<1>1. MaxBytes \in Nat /\ Quota \in Nat
  BY BufferAssumption
<1>2. data \in Seq(Byte) /\ wire \in Seq(Byte) /\ wire \in Seq(1..MaxBytes) /\ Len(data) \in Nat
  <2>1. 1..MaxBytes \subseteq Byte
    BY <1>1 DEF Byte
  <2> QED BY <2>1, SeqMonotonic, LenProperties DEF TypeOK, Byte
<1>3. k \in 0..Len(data)
  BY <1>2
<1> DEFINE a == SubSeq(data, 1, k)
           b == SubSeq(data, k + 1, Len(data))
<1>4. /\ a \in Seq(Byte) /\ Len(a) = k
      /\ b \in Seq(Byte) /\ Len(b) = Len(data) - k
      /\ a \o b = data
  BY <1>2, <1>3, CutAndJoin
<1>5. wire' = wire \o a /\ data' = b
  BY DEF aioConnDataWriter
<1> HIDE DEF a, b
<1>6. wire' \o data' = wire \o data
  <2>1. (wire \o a) \o b = wire \o (a \o b)
    <3>1. wire \in Seq(Byte) /\ a \in Seq(Byte) /\ b \in Seq(Byte)
      BY <1>2, <1>4
    <3>2. \A x, y, z \in Seq(Byte) : (x \o y) \o z = x \o (y \o z)
      BY ConcatAssociative, SMTT(40)
    <3> QED BY <3>1, <3>2, Zenon
  <2> QED BY <1>4, <1>5, <2>1
<1>7. InOrder'
  BY <1>6 DEF InOrder, aioConnDataWriter
<1>8. wire' \in Seq(1..MaxBytes)
  <2>1. /\ wire' \in Seq(Byte) /\ Len(wire') = Len(wire) + k
    BY <1>2, <1>4, <1>5, ConcatProperties
  <2>2. /\ Len(wire' \o data') = Len(wire') + Len(data')
        /\ \A i \in 1..(Len(wire') + Len(data')) :
             (wire' \o data')[i] = IF i <= Len(wire') THEN wire'[i] ELSE data'[i - Len(wire')]
    <3>1. wire' \in Seq(Byte) /\ data' \in Seq(Byte)
      BY <1>4, <1>5, <2>1
    <3> QED BY <3>1, ConcatProperties
  <2>3. Len(wire') \in Nat /\ Len(data') \in Nat /\ wire' \in [1..Len(wire') -> Byte]
    BY <1>4, <1>5, <2>1, LenProperties
  <2>4. wire' \o data' = [i \in 1..accepted |-> i] /\ accepted \in 0..MaxBytes
    BY <1>6 DEF InOrder, TypeOK
  <2>5. Len(wire') + Len(data') = accepted
    BY <1>1, <2>2, <2>4
  <2>6. \A i \in 1..Len(wire') : wire'[i] = i /\ i \in 1..MaxBytes
    BY <1>1, <2>2, <2>3, <2>4, <2>5
  <2>7. wire' \in [1..Len(wire') -> 1..MaxBytes]
    BY <2>3, <2>6
  <2> QED BY <2>3, <2>7, SeqDef
<1>9. TypeOK'
  <2>1. Len(data') <= size' /\ size' \in Nat
    BY <1>2, <1>3, <1>4, <1>5 DEF TypeOK, aioConnDataWriter
  <2>2. accepted' \in 0..MaxBytes /\ inSent' \in BOOLEAN
    BY DEF TypeOK, aioConnDataWriter
  <2> QED BY <1>4, <1>5, <1>8, <2>1, <2>2 DEF TypeOK, Byte
<1>10. Fits'
  <2>1. inSent' => k = Len(data)
    BY DEF aioConnDataWriter
  <2>2. Len(data') = Len(data) - k
    BY <1>4, <1>5
  <2> QED BY <1>1, <1>2, <2>1, <2>2 DEF Fits
<1> QED BY <1>7, <1>9, <1>10

\* Giving memory back keeps it: no byte stands behind the new end of the
\* buffer (libsam3a.c:1458-1465).
LEMMA ShrinkStep ==
  ASSUME Quota <= Shrunk, IInv, Shrink
  PROVE  IInv'
<1> USE DEF IInv
<1>1. Shrunk \in Nat /\ Quota \in Nat /\ data \in Seq(Byte)
  BY BufferAssumption DEF TypeOK, Byte
<1>2. Len(data) \in Nat /\ data \in [1..Len(data) -> Byte]
  BY <1>1, LenProperties
<1>3. Len(data) <= Shrunk
  BY <1>1, <1>2 DEF Fits, Shrink
<1>4. data' = data
  <2>1. [i \in 1..Len(data) |-> IF i <= Shrunk THEN data[i] ELSE Lost] = data
    <3>1. \A i \in 1..Len(data) : i <= Shrunk
      BY <1>1, <1>2, <1>3
    <3> QED BY <1>2, <3>1
  <2> QED BY <2>1 DEF Shrink
<1>5. size' \in Nat /\ Len(data) <= size'
  BY <1>1, <1>2, <1>3 DEF Shrink, TypeOK
<1> QED BY <1>4, <1>5 DEF Shrink, TypeOK, InOrder, Fits

\* The invariant holds as long as the buffer is never shrunk below what is in it.
LEMMA IInvHolds ==
  ASSUME Quota <= Shrunk
  PROVE  Spec => []IInv
<1>1. Init => IInv
  <2> SUFFICES ASSUME Init PROVE IInv
    OBVIOUS
  <2>1. TypeOK
    <3>1. << >> \in Seq(0..MaxBytes) /\ << >> \in Seq(1..MaxBytes) /\ Len(<< >>) = 0
      BY EmptySeq
    <3>2. 0 \in 0..MaxBytes /\ Initial \in Nat /\ 0 <= Initial
      BY BufferAssumption
    <3>3. /\ data = << >> /\ wire = << >> /\ accepted = 0 /\ size = Initial
          /\ inSent = FALSE
      BY DEF Init
    <3> QED BY <3>1, <3>2, <3>3 DEF TypeOK
  <2>2. InOrder
    BY SMT DEF Init, InOrder
  <2> QED BY <2>1, <2>2 DEF Init, IInv, Fits
<1>2. IInv /\ [Next]_vars => IInv'
  <2> SUFFICES ASSUME IInv, [Next]_vars PROVE IInv'
    OBVIOUS
  <2>1. ASSUME NEW n \in 1..MaxBytes, sam3aSend(n) PROVE IInv'
    BY <2>1, SendStep
  <2>2. ASSUME NEW k \in 1..Len(data), aioConnDataWriter(k) PROVE IInv'
    BY <2>2, WriteStep
  <2>3. CASE Shrink
    BY <2>3, ShrinkStep
  <2>4. CASE UNCHANGED vars
    BY <2>4 DEF vars, IInv, TypeOK, InOrder, Fits
  <2> QED BY <2>1, <2>2, <2>3, <2>4 DEF Next
<1> QED BY <1>1, <1>2, PTL DEF Spec

\* Every byte sam3aSend has accepted is sent once and in order, or still queued,
\* for every buffer size, provided that no cbSent queues more than the buffer
\* is shrunk to after it (libsam3a.c:1423-1468, 1681-1708).
THEOREM SentInOrder ==
  ASSUME Quota <= Shrunk
  PROVE  Spec => []InOrder
<1>1. IInv => InOrder
  BY DEF IInv
<1> QED BY <1>1, IInvHolds, PTL

\* Under the same condition the queue never outgrows the buffer it is kept in.
THEOREM QueueFitsBuffer ==
  ASSUME Quota <= Shrunk
  PROVE  Spec => []TypeOK
<1>1. IInv => TypeOK
  BY DEF IInv
<1> QED BY <1>1, IInvHolds, PTL
=============================================================================
