--------------------------- MODULE Sam3aSendBuffer ---------------------------
(***************************************************************************)
(* The send buffer of one stream connection, aio.data: sam3aSend appends   *)
(* to it, aioConnDataWriter sends from its front, calls cbSent when it has *)
(* run empty, and gives memory back afterwards (libsam3a.c:1423-1468,      *)
(* 1681-1708).  Sam3aState keeps only the length of this queue; here are   *)
(* its bytes.                                                              *)
(***************************************************************************)
EXTENDS Integers, Sequences

CONSTANTS
  Shrunk,    \* what the buffer shrinks to after cbSent; 8192 in the source
  Initial,   \* its size when the stream starts, that of the reply line buffer
  Quota,     \* the most the application queues in one cbSent
  MaxBytes   \* bound on the bytes it queues in all

ASSUME BufferAssumption == /\ Shrunk \in Nat \ {0} /\ Initial \in Nat
                           /\ Quota \in Nat /\ MaxBytes \in Nat

VARIABLES
  data,      \* the bytes from aio.data up to dataUsed; dataPos is 0
  size,      \* aio.dataSize
  accepted,  \* how many bytes sam3aSend has taken; they are numbered 1, 2, ...
  wire,      \* the bytes that have been sent
  inSent     \* aioConnDataWriter is in cbSent

vars == <<data, size, accepted, wire, inSent>>

\* What is read where no byte has been written.
Lost == 0

Init == /\ data = <<>> /\ size = Initial
        /\ accepted = 0 /\ wire = <<>>
        /\ inSent = FALSE

-----------------------------------------------------------------------------
\* The numbers of the next n bytes.
Fresh(n) == [i \in 1..n |-> accepted + i]

\* Mutants: memcpy() to the front of the buffer; dataUsed is not looked at
\* when the buffer is sized.
sam3aSendOverwrites(n) ==
  /\ accepted + n <= MaxBytes /\ (inSent => Len(data) + n <= Quota)
  /\ accepted' = accepted + n /\ data' = Fresh(n)
  /\ size' = IF Len(data) + n > size THEN Len(data) + n ELSE size
  /\ UNCHANGED <<wire, inSent>>
sam3aSendSmall(n) ==
  /\ accepted + n <= MaxBytes /\ (inSent => Len(data) + n <= Quota)
  /\ accepted' = accepted + n /\ data' = data \o Fresh(n)
  /\ size' = IF n > size THEN n ELSE size
  /\ UNCHANGED <<wire, inSent>>

\* (When realloc fails, nothing happens and the caller is told.)
sam3aSend(n) ==
  /\ accepted + n <= MaxBytes
  /\ inSent => Len(data) + n <= Quota
  /\ accepted' = accepted + n
  /\ data' = data \o Fresh(n)
  /\ size' = IF Len(data) + n > size THEN Len(data) + n ELSE size
  /\ UNCHANGED <<wire, inSent>>

\* aioConnDataWriter up to cbSent: its loop sends the first k bytes and moves
\* the others to the front
aioConnDataWriter(k) ==
  /\ ~inSent
  /\ wire' = wire \o SubSeq(data, 1, k)
  /\ data' = SubSeq(data, k + 1, Len(data))
  /\ inSent' = (k = Len(data))
  /\ UNCHANGED <<size, accepted>>

\* aioConnDataWriter after cbSent: what has been queued beyond the new end of
\* the buffer may or may not be found there later, and realloc may fail
Shrink ==
  /\ inSent /\ inSent' = FALSE
  /\ \/ size <= Shrunk /\ UNCHANGED <<data, size>>
     \/ /\ size > Shrunk /\ UNCHANGED <<data, size>>
     \/ /\ size > Shrunk
        /\ size' = Shrunk
        /\ \/ UNCHANGED data
           \/ data' = [i \in 1..Len(data) |-> IF i <= Shrunk THEN data[i] ELSE Lost]
  /\ UNCHANGED <<accepted, wire>>

Next == \/ \E n \in 1..MaxBytes : sam3aSend(n)
        \/ \E k \in 1..Len(data) : aioConnDataWriter(k)
        \/ Shrink

Spec == Init /\ [][Next]_vars

-----------------------------------------------------------------------------
\* The bytes in the buffer fit into it (libsam3a.c:1690-1702, 1458-1465).
TypeOK == /\ size \in Nat /\ accepted \in 0..MaxBytes
          /\ data \in Seq(0..MaxBytes) /\ wire \in Seq(1..MaxBytes)
          /\ inSent \in BOOLEAN
          /\ Len(data) <= size

\* Every byte that sam3aSend has accepted is sent once, in order, or is still
\* queued in its place, across partial sends, growing and shrinking
\* (libsam3a.c:1433-1466, 1687-1704).
InOrder == wire \o data = [i \in 1..accepted |-> i]

\* libsam3a.h:302 of sam3aSend: "this function can be used in cbSent()
\* callback"; what it accepts there is sent like everything else.
SendInCbSent == InOrder
=============================================================================
