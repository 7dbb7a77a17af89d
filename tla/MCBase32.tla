------------------------------ MODULE MCBase32 ------------------------------
EXTENDS Base32, SequencesExt

\* Every group is a sum of parts, one for each byte that has bits in it: the
\* sources with a single bit tell where each bit goes, the others that the
\* parts do not run into each other.
OneBit == {[i \in 1..n |-> IF i = k THEN BitWeight[b] ELSE 0] :
             n \in 1..11, k \in 1..11, b \in 1..8}
MCSources == BoundedSeq({0, 165, 255}, 6) \cup OneBit

MCDestSizes == {0, 7, 8, 9, 15, 16, 17, 24}

\* The vectors of the test (test/libsam3/test_b32.c:52-58): the definition
\* that the encoder is compared with gives them too.
Reference(s) == [k \in 1..EncodedLength(Len(s)) |-> Character(s, k - 1)]
foobar == <<102, 111, 111, 98, 97, 114>>
ASSUME TestVectors ==
  /\ Reference(SubSeq(foobar, 1, 1)) = <<12, 24, 32, 32, 32, 32, 32, 32>>
  /\ Reference(SubSeq(foobar, 1, 2)) = <<12, 25, 23, 16, 32, 32, 32, 32>>
  /\ Reference(SubSeq(foobar, 1, 3)) = <<12, 25, 23, 22, 30, 32, 32, 32>>
  /\ Reference(SubSeq(foobar, 1, 4)) = <<12, 25, 23, 22, 30, 24, 16, 32>>
  /\ Reference(SubSeq(foobar, 1, 5)) = <<12, 25, 23, 22, 30, 24, 19, 1>>
  /\ Reference(foobar) = <<12, 25, 23, 22, 30, 24, 19, 1>>
                         \o <<14, 8, 32, 32, 32, 32, 32, 32>>
=============================================================================
