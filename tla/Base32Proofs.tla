---------------------------- MODULE Base32Proofs ----------------------------
(***************************************************************************)
(* The encoder of Base32, for sources and buffers of every size: its       *)
(* characters are those of RFC 4648, and its size is what it says it is.   *)
(*                                                                         *)
(* A block takes the next five bytes and gives the next eight characters,  *)
(* 40 bits of each, so the bit m of a block is the bit 40n + m of the      *)
(* source (BitOfBlock), and each group is the sum of its five bits         *)
(* (GroupsAreBits).  The rest is counting, which Counts does: while there  *)
(* are bytes left, five have been taken for every eight characters.        *)
(***************************************************************************)
EXTENDS Base32, SequenceTheorems, TLAPS

B(a, w) == (a \div w) % 2

Taken == Len(src) - srcsize

Counts ==
  /\ destsize % 8 = 0
  /\ srcsize > 0 => 8 * Taken = 5 * destsize
  /\ destsize + EncodedLength(srcsize) = EncodedLength(Len(src))
  /\ Len(dest) = IF destsize <= destsz THEN destsize ELSE (destsz \div 8) * 8
  /\ pc = "loop" => top = Len(dest)
  /\ pc = "done" => /\ srcsize = 0
                    /\ top = IF destsize <= destsz THEN destsize + 1 ELSE Len(dest)

IInv == TypeOK /\ Counts /\ EncodesRfc4648

-----------------------------------------------------------------------------
(* A block is the next 40 bits.                                            *)

\* The bytes that a block reads are bytes, with 0 for those that are missing.
LEMMA InIsByte ==
  ASSUME TypeOK, NEW i \in 1..5
  PROVE  In(i) \in Byte
<1>1. src \in Seq(Byte)
  BY Base32Assumption DEF TypeOK
<1>2. Len(src) \in Nat /\ \A k \in 1..Len(src) : src[k] \in Byte
  BY <1>1, LenProperties, ElementOfSeq
<1>3. CASE i <= blksize
  <2>1. Len(src) - srcsize + i \in 1..Len(src)
    BY <1>2, <1>3 DEF TypeOK, blksize, Min5
  <2> QED BY <1>2, <1>3, <2>1 DEF In
<1>4. CASE ~(i <= blksize)
  BY <1>4 DEF In, Byte
<1> QED BY <1>3, <1>4

\* The bit m of a block is the bit 40n + m of the source.
LEMMA BitOfBlock ==
  ASSUME TypeOK, srcsize > 0, NEW n \in Nat, Taken = 5 * n, NEW m \in 0..39
  PROVE  Bit(src, 40 * n + m) = B(In((m \div 8) + 1), BitWeight[(m % 8) + 1])
<1> DEFINE c == m \div 8
<1>1. c \in 0..4 /\ (40 * n + m) \div 8 = 5 * n + c /\ (40 * n + m) % 8 = m % 8
  OBVIOUS
<1>2. Len(src) \in Nat /\ srcsize \in 0..Len(src)
  BY LenProperties, Base32Assumption DEF TypeOK
<1>3. 5 * n + c < Len(src) <=> c + 1 <= blksize
  BY <1>1, <1>2 DEF Taken, blksize, Min5
<1>4. CASE c + 1 <= blksize
  <2>1. In(c + 1) = src[5 * n + c + 1]
    BY <1>1, <1>2, <1>4 DEF In, Taken
  <2> QED BY <1>1, <1>3, <1>4, <2>1 DEF Bit, B
<1>5. CASE ~(c + 1 <= blksize)
  <2>1. In(c + 1) = 0
    BY <1>5 DEF In
  <2>2. Bit(src, 40 * n + m) = 0
    BY <1>1, <1>3, <1>5 DEF Bit
  <2>3. \A w \in {1, 2, 4, 8, 16, 32, 64, 128} : B(0, w) = 0
    BY DEF B
  <2>4. BitWeight[(m % 8) + 1] \in {1, 2, 4, 8, 16, 32, 64, 128}
    <3>1. m % 8 \in 0..7
      OBVIOUS
    <3> QED BY <3>1 DEF BitWeight
  <2> QED BY <2>1, <2>2, <2>3, <2>4
<1> QED BY <1>4, <1>5

\* The five bits of a group that is in one byte, and of one that is in two:
\* what the masks and shifts take is what the bits weigh.
LEMMA GroupsAreBits ==
  ASSUME NEW a \in Byte, NEW b \in Byte
  PROVE  /\ a \div 8 = B(a, 128) * 16 + B(a, 64) * 8 + B(a, 32) * 4 + B(a, 16) * 2 + B(a, 8)
         /\ (a % 8) * 4 + b \div 64 = B(a, 4) * 16 + B(a, 2) * 8 + B(a, 1) * 4 + B(b, 128) * 2 + B(b, 64)
         /\ (a \div 2) % 32 = B(a, 32) * 16 + B(a, 16) * 8 + B(a, 8) * 4 + B(a, 4) * 2 + B(a, 2)
         /\ (a % 2) * 16 + b \div 16 = B(a, 1) * 16 + B(b, 128) * 8 + B(b, 64) * 4 + B(b, 32) * 2 + B(b, 16)
         /\ (a % 16) * 2 + b \div 128 = B(a, 8) * 16 + B(a, 4) * 8 + B(a, 2) * 4 + B(a, 1) * 2 + B(b, 128)
         /\ (a \div 4) % 32 = B(a, 64) * 16 + B(a, 32) * 8 + B(a, 16) * 4 + B(a, 8) * 2 + B(a, 4)
         /\ (a % 4) * 8 + b \div 32 = B(a, 2) * 16 + B(a, 1) * 8 + B(b, 128) * 4 + B(b, 64) * 2 + B(b, 32)
         /\ a % 32 = B(a, 16) * 16 + B(a, 8) * 8 + B(a, 4) * 4 + B(a, 2) * 2 + B(a, 1)
<1>1. a \in 0..255 /\ b \in 0..255
  BY DEF Byte
<1>2. a \div 8 = B(a, 128) * 16 + B(a, 64) * 8 + B(a, 32) * 4 + B(a, 16) * 2 + B(a, 8)
  BY <1>1 DEF B
<1>3. (a % 8) * 4 + b \div 64 = B(a, 4) * 16 + B(a, 2) * 8 + B(a, 1) * 4 + B(b, 128) * 2 + B(b, 64)
  BY <1>1 DEF B
<1>4. (a \div 2) % 32 = B(a, 32) * 16 + B(a, 16) * 8 + B(a, 8) * 4 + B(a, 4) * 2 + B(a, 2)
  BY <1>1 DEF B
<1>5. (a % 2) * 16 + b \div 16 = B(a, 1) * 16 + B(b, 128) * 8 + B(b, 64) * 4 + B(b, 32) * 2 + B(b, 16)
  BY <1>1 DEF B
<1>6. (a % 16) * 2 + b \div 128 = B(a, 8) * 16 + B(a, 4) * 8 + B(a, 2) * 4 + B(a, 1) * 2 + B(b, 128)
  BY <1>1, SMTT(40) DEF B
<1>7. (a \div 4) % 32 = B(a, 64) * 16 + B(a, 32) * 8 + B(a, 16) * 4 + B(a, 8) * 2 + B(a, 4)
  BY <1>1 DEF B
<1>8. (a % 4) * 8 + b \div 32 = B(a, 2) * 16 + B(a, 1) * 8 + B(b, 128) * 4 + B(b, 64) * 2 + B(b, 32)
  BY <1>1 DEF B
<1>9. a % 32 = B(a, 16) * 16 + B(a, 8) * 8 + B(a, 4) * 4 + B(a, 2) * 2 + B(a, 1)
  BY <1>1 DEF B
<1> QED BY <1>2, <1>3, <1>4, <1>5, <1>6, <1>7, <1>8, <1>9

\* So the characters of a block are those that the RFC asks for at its place.
LEMMA BlockEncodes ==
  ASSUME TypeOK, srcsize > 0, NEW n \in Nat, Taken = 5 * n, NEW f \in 1..8
  PROVE  Characters[f] = Character(src, 8 * n + f - 1)
<1> DEFINE bit(m) == B(In((m \div 8) + 1), BitWeight[(m % 8) + 1])
<1>1. Len(src) \in Nat /\ srcsize \in 1..Len(src) /\ Len(src) = 5 * n + srcsize
  BY LenProperties, Base32Assumption DEF TypeOK, Taken
<1>2. \A i \in 1..5 : In(i) \in Byte
  BY InIsByte
<1>3. blksize \in 1..5 /\ (srcsize < 5 => blksize = srcsize) /\ (srcsize >= 5 => blksize = 5)
  BY <1>1 DEF blksize, Min5
<1>4. 5 * (8 * n + f - 1) >= 8 * Len(src) <=> ~(f <= GroupsUsed)
  <2>1. GroupsUsed = IF blksize = 1 THEN 2 ELSE IF blksize = 2 THEN 4 ELSE
                     IF blksize = 3 THEN 5 ELSE IF blksize = 4 THEN 7 ELSE 8
    BY <1>3 DEF GroupsUsed
  <2>2. 5 * (8 * n + f - 1) >= 8 * Len(src) <=> 5 * (f - 1) >= 8 * srcsize
    BY <1>1
  <2>3. 5 * (f - 1) >= 8 * srcsize <=> 5 * (f - 1) >= 8 * blksize
    BY <1>1, <1>3
  <2> QED BY <1>3, <2>1, <2>2, <2>3
<1>5. \A m \in 0..39 : Bit(src, 40 * n + m) = bit(m)
  BY BitOfBlock
<1>6. CASE ~(f <= GroupsUsed)
  BY <1>4, <1>6 DEF Characters, Character
<1>7. CASE f <= GroupsUsed
  <2>1. Characters[f] = Groups[f]
    BY <1>7 DEF Characters
  <2> DEFINE k == 5 * (f - 1)
  <2>2. Character(src, 8 * n + f - 1) =
          Bit(src, 40 * n + k) * 16 + Bit(src, 40 * n + (k + 1)) * 8
          + Bit(src, 40 * n + (k + 2)) * 4 + Bit(src, 40 * n + (k + 3)) * 2
          + Bit(src, 40 * n + (k + 4))
    <3>1. /\ 5 * (8 * n + f - 1) = 40 * n + k
          /\ 5 * (8 * n + f - 1) + 1 = 40 * n + (k + 1)
          /\ 5 * (8 * n + f - 1) + 2 = 40 * n + (k + 2)
          /\ 5 * (8 * n + f - 1) + 3 = 40 * n + (k + 3)
          /\ 5 * (8 * n + f - 1) + 4 = 40 * n + (k + 4)
      OBVIOUS
    <3> QED BY <1>4, <1>7, <3>1 DEF Character
  <2>3. Character(src, 8 * n + f - 1) =
          bit(k) * 16 + bit(k + 1) * 8 + bit(k + 2) * 4 + bit(k + 3) * 2 + bit(k + 4)
    <3>1. k \in 0..39 /\ k + 1 \in 0..39 /\ k + 2 \in 0..39 /\ k + 3 \in 0..39 /\ k + 4 \in 0..39
      OBVIOUS
    <3> HIDE DEF bit, k
    <3> QED BY <1>5, <2>2, <3>1
  <2>4. CASE f = 1
    <3>1. bit(0) = B(In(1), 128) /\ bit(1) = B(In(1), 64) /\ bit(2) = B(In(1), 32)
          /\ bit(3) = B(In(1), 16) /\ bit(4) = B(In(1), 8)
      BY DEF BitWeight
    <3>2. Groups[f] = In(1) \div 8
      BY <2>4 DEF Groups
    <3> HIDE DEF bit
    <3> QED BY <1>2, <2>1, <2>3, <2>4, <3>1, <3>2, GroupsAreBits
  <2>5. CASE f = 2
    <3>1. bit(5) = B(In(1), 4) /\ bit(6) = B(In(1), 2) /\ bit(7) = B(In(1), 1)
          /\ bit(8) = B(In(2), 128) /\ bit(9) = B(In(2), 64)
      BY DEF BitWeight
    <3>2. Groups[f] = (In(1) % 8) * 4 + In(2) \div 64
      BY <2>5 DEF Groups
    <3> HIDE DEF bit
    <3> QED BY <1>2, <2>1, <2>3, <2>5, <3>1, <3>2, GroupsAreBits
  <2>6. CASE f = 3
    <3>1. bit(10) = B(In(2), 32) /\ bit(11) = B(In(2), 16) /\ bit(12) = B(In(2), 8)
          /\ bit(13) = B(In(2), 4) /\ bit(14) = B(In(2), 2)
      BY DEF BitWeight
    <3>2. Groups[f] = (In(2) \div 2) % 32
      BY <2>6 DEF Groups
    <3> HIDE DEF bit
    <3> QED BY <1>2, <2>1, <2>3, <2>6, <3>1, <3>2, GroupsAreBits
  <2>7. CASE f = 4
    <3>1. bit(15) = B(In(2), 1) /\ bit(16) = B(In(3), 128) /\ bit(17) = B(In(3), 64)
          /\ bit(18) = B(In(3), 32) /\ bit(19) = B(In(3), 16)
      BY DEF BitWeight
    <3>2. Groups[f] = (In(2) % 2) * 16 + In(3) \div 16
      BY <2>7 DEF Groups
    <3> HIDE DEF bit
    <3> QED BY <1>2, <2>1, <2>3, <2>7, <3>1, <3>2, GroupsAreBits
  <2>8. CASE f = 5
    <3>1. bit(20) = B(In(3), 8) /\ bit(21) = B(In(3), 4) /\ bit(22) = B(In(3), 2)
          /\ bit(23) = B(In(3), 1) /\ bit(24) = B(In(4), 128)
      BY DEF BitWeight
    <3>2. Groups[f] = (In(3) % 16) * 2 + In(4) \div 128
      BY <2>8 DEF Groups
    <3> HIDE DEF bit
    <3> QED BY <1>2, <2>1, <2>3, <2>8, <3>1, <3>2, GroupsAreBits
  <2>9. CASE f = 6
    <3>1. bit(25) = B(In(4), 64) /\ bit(26) = B(In(4), 32) /\ bit(27) = B(In(4), 16)
          /\ bit(28) = B(In(4), 8) /\ bit(29) = B(In(4), 4)
      BY DEF BitWeight
    <3>2. Groups[f] = (In(4) \div 4) % 32
      BY <2>9 DEF Groups
    <3> HIDE DEF bit
    <3> QED BY <1>2, <2>1, <2>3, <2>9, <3>1, <3>2, GroupsAreBits
  <2>10. CASE f = 7
    <3>1. bit(30) = B(In(4), 2) /\ bit(31) = B(In(4), 1) /\ bit(32) = B(In(5), 128)
          /\ bit(33) = B(In(5), 64) /\ bit(34) = B(In(5), 32)
      BY DEF BitWeight
    <3>2. Groups[f] = (In(4) % 4) * 8 + In(5) \div 32
      BY <2>10 DEF Groups
    <3> HIDE DEF bit
    <3> QED BY <1>2, <2>1, <2>3, <2>10, <3>1, <3>2, GroupsAreBits
  <2>11. CASE f = 8
    <3>1. bit(35) = B(In(5), 16) /\ bit(36) = B(In(5), 8) /\ bit(37) = B(In(5), 4)
          /\ bit(38) = B(In(5), 2) /\ bit(39) = B(In(5), 1)
      BY DEF BitWeight
    <3>2. Groups[f] = In(5) % 32
      BY <2>11 DEF Groups
    <3> HIDE DEF bit
    <3> QED BY <1>2, <2>1, <2>3, <2>11, <3>1, <3>2, GroupsAreBits
  <2> QED BY <2>4, <2>5, <2>6, <2>7, <2>8, <2>9, <2>10, <2>11
<1> QED BY <1>6, <1>7

\* A character is a letter, a digit or the padding.
LEMMA CharactersAreSymbols ==
  ASSUME TypeOK, srcsize > 0
  PROVE  Characters \in Seq(0..Pad) /\ Len(Characters) = 8
<1>1. \A i \in 1..5 : In(i) \in 0..255
  BY InIsByte DEF Byte
<1>2. \A f \in 1..8 : Groups[f] \in 0..Pad
  <2>1. /\ In(1) \in 0..255 /\ In(2) \in 0..255 /\ In(3) \in 0..255
        /\ In(4) \in 0..255 /\ In(5) \in 0..255
    BY <1>1
  <2> QED BY <2>1 DEF Groups, Pad
<1>3. \A f \in 1..8 : Characters[f] \in 0..Pad
  BY <1>2 DEF Characters, Pad
<1>4. Characters = [f \in 1..8 |-> Characters[f]]
  BY DEF Characters
<1> QED BY <1>3, <1>4, LenProperties

-----------------------------------------------------------------------------
(* The invariant.                                                          *)

\* Nothing is encoded yet.
LEMMA InitIInv == Init => IInv
<1> SUFFICES ASSUME Init PROVE IInv
  OBVIOUS
<1>1. Len(src) \in Nat /\ destsz \in Nat
  BY Base32Assumption, LenProperties DEF Init
<1>2. TypeOK
  BY <1>1, EmptySeq DEF Init, TypeOK
<1>3. Counts
  BY <1>1, EmptySeq DEF Init, Counts, Taken, EncodedLength
<1>4. EncodesRfc4648
  BY EmptySeq DEF Init, EncodesRfc4648
<1> QED BY <1>2, <1>3, <1>4 DEF IInv

\* A block of up to five bytes becomes eight characters of the announced length.
LEMMA BlockKeepsIInv == IInv /\ Block => IInv'
<1> SUFFICES ASSUME IInv, Block PROVE IInv'
  OBVIOUS
<1>1. Len(src) \in Nat /\ destsz \in Nat /\ destsize \in Nat /\ srcsize \in 1..Len(src)
      /\ dest \in Seq(0..Pad) /\ Len(dest) \in Nat
  BY Base32Assumption, LenProperties DEF IInv, TypeOK, Block
<1>2. blksize \in 1..5 /\ blksize <= srcsize /\ (srcsize >= 5 => blksize = 5)
      /\ (srcsize < 5 => blksize = srcsize)
  BY <1>1 DEF blksize, Min5
<1>3. Characters \in Seq(0..Pad) /\ Len(Characters) = 8
  BY CharactersAreSymbols, <1>1 DEF IInv
<1>4. /\ destsize' = destsize + 8 /\ destsize' % 8 = 0
      /\ srcsize' = srcsize - blksize /\ destsz' = destsz /\ src' = src /\ pc' = "loop"
      /\ srcsize' > 0 => 8 * Taken' = 5 * destsize'
      /\ destsize' + EncodedLength(srcsize') = EncodedLength(Len(src'))
  <2>1. /\ destsize' = destsize + 8 /\ srcsize' = srcsize - blksize /\ destsz' = destsz
        /\ src' = src /\ pc' = "loop"
    BY DEF Block
  <2>2. destsize % 8 = 0 /\ 8 * Taken = 5 * destsize
        /\ destsize + EncodedLength(srcsize) = EncodedLength(Len(src))
    BY <1>1 DEF IInv, Counts
  <2>3. srcsize' > 0 => blksize = 5
    BY <1>1, <1>2, <2>1
  <2>4. srcsize' > 0 => 8 * Taken' = 5 * destsize'
    BY <1>1, <2>1, <2>2, <2>3 DEF Taken
  <2>5. EncodedLength(srcsize) = 8 + EncodedLength(srcsize - blksize)
    BY <1>1, <1>2 DEF EncodedLength
  <2>6. EncodedLength(srcsize') = EncodedLength(srcsize) - 8 /\ EncodedLength(Len(src')) = EncodedLength(Len(src))
        /\ EncodedLength(srcsize) \in Int
    BY <1>1, <1>2, <2>1, <2>5 DEF EncodedLength
  <2>7. destsize' + EncodedLength(srcsize') = EncodedLength(Len(src'))
    BY <1>1, <2>1, <2>2, <2>6
  <2>8. destsize' % 8 = 0
    BY <1>1, <2>1, <2>2
  <2> QED BY <2>1, <2>4, <2>7, <2>8
<1>5. CASE Fits
  <2>1. dest' = dest \o Characters /\ Len(dest') = Len(dest) + 8 /\ dest' \in Seq(0..Pad)
    <3>1. dest' = dest \o Characters
      BY <1>5 DEF Block
    <3>2. \A s, t \in Seq(0..Pad) : s \o t \in Seq(0..Pad) /\ Len(s \o t) = Len(s) + Len(t)
      BY ConcatProperties
    <3> QED BY <1>1, <1>3, <3>1, <3>2
  <2>2. destsize = Len(dest) /\ destsize' <= destsz
    BY <1>1, <1>5 DEF IInv, Counts, Fits, Block
  <2>3. TypeOK'
    BY <1>1, <1>2, <1>5, <2>1 DEF IInv, TypeOK, Block
  <2>4. Counts'
    BY <1>1, <1>4, <2>1, <2>2 DEF IInv, Counts, Block
  <2>5. EncodesRfc4648'
    <3> SUFFICES ASSUME NEW k \in DOMAIN dest' PROVE dest'[k] = Character(src, k - 1)
      BY DEF EncodesRfc4648, Block
    <3>1. k \in 1..(Len(dest) + 8) /\ DOMAIN dest = 1..Len(dest)
      BY <1>1, <2>1, LenProperties
    <3>2. CASE k \in 1..Len(dest)
      <4>1. dest'[k] = dest[k]
        BY <1>1, <1>3, <2>1, <3>2, ConcatProperties
      <4> QED BY <3>1, <3>2, <4>1 DEF IInv, EncodesRfc4648
    <3>3. CASE k \notin 1..Len(dest)
      <4> DEFINE f == k - Len(dest)
      <4> DEFINE n == destsize \div 8
      <4>1. f \in 1..8 /\ dest'[k] = Characters[f]
        BY <1>1, <1>3, <2>1, <3>1, <3>3, ConcatProperties
      <4>2. n \in Nat /\ destsize = 8 * n /\ Taken = 5 * n
        BY <1>1 DEF IInv, Counts, Taken
      <4>3. Characters[f] = Character(src, 8 * n + f - 1)
        <5>1. TypeOK /\ srcsize > 0 /\ f \in 1..8 /\ n \in Nat /\ Taken = 5 * n
          BY <1>1, <4>1, <4>2 DEF IInv
        <5> HIDE DEF n, f
        <5> QED BY <5>1, BlockEncodes
      <4>4. 8 * n + f - 1 = k - 1
        BY <1>1, <2>2, <3>1, <4>2
      <4> HIDE DEF n, f
      <4> QED BY <4>1, <4>3, <4>4
    <3> QED BY <3>2, <3>3
  <2> QED BY <2>3, <2>4, <2>5 DEF IInv
<1>6. CASE ~Fits
  <2>1. dest' = dest /\ top' = top
    BY <1>6 DEF Block
  <2>2. TypeOK'
    <3>1. srcsize' \in 0..Len(src') /\ destsize' \in Nat
      BY <1>1, <1>2, <1>4
    <3> QED BY <1>1, <2>1, <3>1 DEF IInv, TypeOK, Block
  <2>3. Counts'
    <3>1. Len(dest) = (destsz \div 8) * 8
      BY <1>1, <1>6 DEF IInv, Counts, Fits
    <3> QED BY <1>1, <1>6, <1>4, <2>1, <3>1 DEF IInv, Counts, Block, Fits
  <2>4. EncodesRfc4648'
    BY <2>1 DEF IInv, EncodesRfc4648, Block
  <2> QED BY <2>2, <2>3, <2>4 DEF IInv
<1> QED BY <1>5, <1>6

\* The terminator changes no character.
LEMMA TerminateKeepsIInv == IInv /\ Terminate => IInv'
<1> SUFFICES ASSUME IInv, Terminate PROVE IInv'
  OBVIOUS
<1>1. Len(src) \in Nat /\ destsz \in Nat /\ destsize \in Nat /\ Len(dest) \in Nat
  BY Base32Assumption, LenProperties DEF IInv, TypeOK
<1>2. TypeOK'
  BY <1>1 DEF IInv, TypeOK, Terminate
<1>3. Counts'
  BY <1>1 DEF IInv, Counts, Terminate, Taken, EncodedLength
<1>4. EncodesRfc4648'
  BY DEF IInv, EncodesRfc4648, Terminate
<1> QED BY <1>2, <1>3, <1>4 DEF IInv

\* The invariant holds.
LEMMA IInvHolds == Spec => []IInv
<1>1. IInv /\ [Next]_vars => IInv'
  <2> SUFFICES ASSUME IInv, [Next]_vars PROVE IInv'
    OBVIOUS
  <2>1. CASE UNCHANGED vars
    BY <2>1 DEF vars, IInv, TypeOK, Counts, Taken, EncodesRfc4648
  <2> QED BY <2>1, BlockKeepsIInv, TerminateKeepsIInv DEF Next, Done
<1> QED BY <1>1, InitIInv, PTL DEF Spec

-----------------------------------------------------------------------------
\* Whatever the source and the buffer, every character that is written is the
\* one RFC 4648 asks for at its place (libsam3.c:1283-1328).
THEOREM EncodesRfc4648Holds == Spec => []EncodesRfc4648
BY IInvHolds, PTL DEF IInv

\* Whatever the source and the buffer, the size that is returned is the one
\* that sam3Base32EncodedLength gives, and it tells whether the text is whole
\* (libsam3.c:1324-1334).
THEOREM SizeTellsHolds == Spec => []SizeTells
<1>1. IInv => SizeTells
  <2> SUFFICES ASSUME IInv, pc = "done" PROVE SizeTells
    BY DEF SizeTells
  <2>1. Len(src) \in Nat /\ destsz \in Nat /\ destsize \in Nat /\ srcsize = 0
    BY Base32Assumption, LenProperties DEF IInv, TypeOK, Counts
  <2> QED BY <2>1 DEF IInv, Counts, SizeTells, EncodedLength
<1> QED BY <1>1, IInvHolds, PTL

\* Whatever the source and the buffer, only the terminator can be written
\* behind the buffer, and only if the text fills it (libsam3.c:1331).
THEOREM WithinBufferHolds == Spec => []WithinBuffer
<1>1. IInv => WithinBuffer
  <2> SUFFICES ASSUME IInv, top > destsz PROVE WithinBuffer
    BY DEF WithinBuffer
  <2>1. destsz \in Nat /\ destsize \in Nat /\ Len(dest) \in Nat /\ pc \in {"loop", "done"}
    BY Base32Assumption, LenProperties DEF IInv, TypeOK
  <2>2. Len(dest) <= destsz
    BY <2>1 DEF IInv, Counts
  <2> QED BY <2>1, <2>2 DEF IInv, Counts, WithinBuffer
<1> QED BY <1>1, IInvHolds, PTL

\* What is written are symbols of the alphabet and padding, and what is left of
\* the source never exceeds it.
THEOREM EncoderTypes == Spec => []TypeOK
BY IInvHolds, PTL DEF IInv
=============================================================================
