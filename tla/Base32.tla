------------------------------- MODULE Base32 -------------------------------
(***************************************************************************)
(* sam3Base32Encode (libsam3.c:1276-1336): how the library turns the hash  *)
(* of a destination into a host name.  (sam3Base32Decode, which no header  *)
(* declares, is the same text again.)  One step is one turn of its loop,   *)
(* a block of five bytes.  Characters are their places in b32chars, of     *)
(* which the last, 32, is the padding.                                     *)
(***************************************************************************)
EXTENDS Integers, Sequences

CONSTANTS Sources,   \* what the callers encode: sequences of bytes
          DestSizes  \* the sizes they say their buffers have

Byte == 0..255
Pad == 32

ASSUME Base32Assumption == Sources \subseteq Seq(Byte) /\ DestSizes \subseteq Nat

VARIABLES src,       \* srcbuf, all of it
          srcsize,   \* the bytes of it that are left
          destsz,    \* size of dest, as the caller gives it
          dest,      \* the characters written so far
          destsize,  \* what they would be with room for all
          top,       \* history: the end of what was written, terminator and all
          pc

vars == <<src, srcsize, destsz, dest, destsize, top, pc>>

\* sam3Base32EncodedLength, "NOT including '\0' terminator"
EncodedLength(size) == ((size + 4) \div 5) * 8

TypeOK == /\ src \in Sources
          /\ srcsize \in 0..Len(src)
          /\ destsz \in DestSizes
          /\ dest \in Seq(0..Pad)
          /\ destsize \in Nat
          /\ top \in Nat
          /\ pc \in {"loop", "done"}

Init == /\ src \in Sources
        /\ srcsize = Len(src)
        /\ destsz \in DestSizes
        /\ dest = <<>>
        /\ destsize = 0
        /\ top = 0
        /\ pc = "loop"

-----------------------------------------------------------------------------
(* The bits of five bytes in groups of five; bytes that are missing are 0. *)

Min5(n) == IF n < 5 THEN n ELSE 5
blksize == Min5(srcsize)

\* the i-th byte of the block at src
In(i) == IF i <= blksize THEN src[Len(src) - srcsize + i] ELSE 0

Groups ==
  <<In(1) \div 8,
    (In(1) % 8) * 4 + In(2) \div 64,
    (In(2) \div 2) % 32,
    (In(2) % 2) * 16 + In(3) \div 16,
    (In(3) % 16) * 2 + In(4) \div 128,
    (In(4) \div 4) % 32,
    (In(4) % 4) * 8 + In(5) \div 32,
    In(5) % 32>>

\* Mutant: a block of two bytes is padded one group late.
GroupsUsedLate == <<2, 5, 5, 7, 8>>[blksize]

\* how many of the groups hold bits of the block; the others are padding
GroupsUsed == <<2, 4, 5, 7, 8>>[blksize]

Characters == [f \in 1..8 |-> IF f <= GroupsUsed THEN Groups[f] ELSE Pad]

\* Mutants: the block is written when its first character fits; a buffer that
\* the text fills to the last character counts as too small.
FitsOneCharacter == destsize < destsz
FitsStrictly == destsize + 8 < destsz

\* if (destsize + 8 <= destsz)
Fits == destsize + 8 <= destsz

\* Mutant: a short block is counted as five bytes.
BlockOfFive ==
  /\ pc = "loop" /\ srcsize > 0
  /\ srcsize' = srcsize - 5
  /\ dest' = IF Fits THEN dest \o Characters ELSE dest
  /\ top' = IF Fits THEN Len(dest) + 8 ELSE top
  /\ destsize' = destsize + 8
  /\ UNCHANGED <<src, destsz, pc>>

Block ==
  /\ pc = "loop" /\ srcsize > 0
  /\ srcsize' = srcsize - blksize
  /\ dest' = IF Fits THEN dest \o Characters ELSE dest
  /\ top' = IF Fits THEN Len(dest) + 8 ELSE top
  /\ destsize' = destsize + 8
  /\ UNCHANGED <<src, destsz, pc>>

\* "make valid asciiz string"; destsize is returned
Terminate ==
  /\ pc = "loop" /\ srcsize = 0
  /\ top' = IF destsize <= destsz THEN Len(dest) + 1 ELSE top
  /\ pc' = "done"
  /\ UNCHANGED <<src, srcsize, destsz, dest, destsize>>

Done == pc = "done" /\ UNCHANGED vars

Next == Block \/ Terminate \/ Done

Spec == Init /\ [][Next]_vars

-----------------------------------------------------------------------------
(* RFC 4648, section 6: the bits of the whole source from the left, in     *)
(* groups of five; a last group that is not full gets zeros, and groups    *)
(* without a bit are padding.                                              *)

BitWeight == <<128, 64, 32, 16, 8, 4, 2, 1>>

Bit(s, j) == IF j \div 8 < Len(s)
               THEN (s[(j \div 8) + 1] \div BitWeight[(j % 8) + 1]) % 2 ELSE 0

Character(s, k) ==
  IF 5 * k >= 8 * Len(s) THEN Pad
  ELSE Bit(s, 5 * k) * 16 + Bit(s, 5 * k + 1) * 8 + Bit(s, 5 * k + 2) * 4
       + Bit(s, 5 * k + 3) * 2 + Bit(s, 5 * k + 4)

\* Every character written is the one the RFC asks for at its place, in a
\* buffer of any size, though each block is shifted by itself
\* (libsam3.c:1283-1328).
EncodesRfc4648 == \A k \in DOMAIN dest : dest[k] = Character(src, k - 1)

\* What the caller is told is the length it can ask for beforehand
\* (sam3Base32EncodedLength), and a length that is not above destsz promises
\* the whole text and its terminator; above it, there are as many whole blocks
\* as the buffer takes and no terminator (libsam3.c:1324-1334).
SizeTells ==
  pc = "done" =>
    /\ destsize = EncodedLength(Len(src))
    /\ destsize <= destsz => Len(dest) = destsize /\ top = destsize + 1
    /\ destsize > destsz => Len(dest) = (destsz \div 8) * 8 /\ top = Len(dest)

\* No byte is written behind the buffer, but for the terminator of a text that
\* fills it to the last character (libsam3.c:1331).
WithinBuffer ==
  top > destsz =>
    pc = "done" /\ destsize = destsz /\ top = destsz + 1
=============================================================================
