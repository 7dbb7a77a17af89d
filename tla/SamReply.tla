------------------------------ MODULE SamReply ------------------------------
(***************************************************************************)
(* How a reply of the bridge is read and taken apart: sam3ReadReply with   *)
(* sam3tcpReceiveStr and sam3ParseReply (libsam3.c:307-349, 413-567), and  *)
(* the functions that look at the result.  libsam3a.c:459-627 has the same *)
(* parser, word for word.                                                  *)
(*                                                                         *)
(* The socket delivers the line in segments of any size, and every         *)
(* malloc() of the parser may fail.  One step is one recv() or one word.   *)
(***************************************************************************)
EXTENDS Integers, Sequences

CONSTANTS
  Letters,   \* the characters without a meaning to the parser
  NULL,      \* the null pointer
  Lines,     \* the lines the bridge may send, without their '\n'
  RepSize    \* sizeof(rep) in sam3ReadReply

Quote == "quote"
Back  == "backslash"
Char  == Letters \cup {" ", "=", Quote, Back}
Text  == Seq(Char)

ASSUME ReplyAssumption ==
  /\ Lines \subseteq Text
  /\ RepSize \in Nat \ {0}
  /\ NULL \notin Text \cup Nat

VARIABLES
  rep,    \* the line on the socket, and the buffer once it has been read
  got,    \* how many bytes of it have been taken from the socket
  pc,     \* the reader, the parser, or what came of it
  p,      \* the parser's position in rep
  list,   \* the SAMFieldList built so far
  heap    \* the blocks that malloc() has given and free() not taken back

vars == <<rep, got, pc, p, list, heap>>

Item   == [name : Text \cup {NULL}, value : Text \cup {NULL}]
Blocks == Nat \X {"item", "name", "value"}

\* The ways to return NULL: the reader fails, the line has no two words, a
\* malloc() fails, and one fails that leaves the list behind.
Failures == {"tooLong", "tooShort", "error", "lost"}

End == Len(rep) + 1   \* where the '\n' is on the socket, the NUL in the buffer

TypeOK == /\ rep \in Lines
          /\ got \in 0..End
          /\ pc \in {"read", "words", "fields", "list", "freed"} \cup Failures
          /\ p \in 1..End
          /\ list \in Seq(Item)
          /\ heap \subseteq Blocks

Init == /\ rep \in Lines
        /\ got = 0
        /\ pc = "read"
        /\ p = 1
        /\ list = <<>>
        /\ heap = {}

-----------------------------------------------------------------------------
(* sam3tcpReceiveStr: peek at what there is, take it up to the '\n'.  (At  *)
(* end of file it would never end: Sam3 has that.)                         *)

\* Mutant: the terminator is not counted.
RoomForAll == RepSize + 1 - got

\* the bytes of dest that are left, one of them for the terminator
Room == RepSize - got

\* Mutant: the whole segment is taken, the start of the next line with it.
TakenAll(rd) == rd

\* how many of the rd bytes seen are received
Taken(rd) == IF got + rd >= End THEN End - got ELSE rd

sam3tcpReceiveStr ==
  /\ pc = "read"
  /\ \/ \E rd \in 1..Room - 1 :
          /\ got' = got + Taken(rd)
          /\ pc' = IF got + rd >= End THEN "words" ELSE "read"
     \/ Room <= 1 /\ pc' = "tooLong" /\ UNCHANGED got
  /\ UNCHANGED <<rep, p, list, heap>>

-----------------------------------------------------------------------------
(* Words.                                                                  *)

IsSpace(i) == i < End /\ rep[i] = " "

\* while (isspace(*s)) ++s
SkipSpace(s) ==
  CHOOSE i \in s..End : ~IsSpace(i) /\ \A j \in s..i - 1 : IsSpace(j)

\* Mutant: a backslash does not protect the quote behind it.
WordEndNoEscape(s) ==
  LET scan[at \in (1..End) \X BOOLEAN] ==
        LET i   == at[1]
            qch == at[2]
        IN IF i = End \/ (~qch /\ rep[i] = " ") THEN i
           ELSE IF rep[i] = Quote THEN scan[<<i + 1, ~qch>>]
           ELSE scan[<<i + 1, qch>>]
  IN scan[<<s, FALSE>>]

\* the loop of xstrtokend: up to a space that is not between quotes, where a
\* backslash protects the next character
WordEnd(s) ==
  LET scan[at \in (1..End) \X BOOLEAN] ==
        LET i   == at[1]
            qch == at[2]
        IN IF i = End \/ (~qch /\ rep[i] = " ") THEN i
           ELSE IF rep[i] = Quote THEN scan[<<i + 1, ~qch>>]
           ELSE IF qch /\ rep[i] = Back /\ i + 1 < End THEN scan[<<i + 2, qch>>]
           ELSE scan[<<i + 1, qch>>]
  IN scan[<<s, FALSE>>]

\* "returns NULL if there are no more tokens"
xstrtokend(s) == IF SkipSpace(s) = End THEN NULL ELSE WordEnd(SkipSpace(s))

Between(s, e) == SubSeq(rep, s, e - 1)

-----------------------------------------------------------------------------
(* The field list and its memory.                                          *)

\* the blocks that the items of l are and point to
Pointers(l) ==
  {b \in (DOMAIN l) \X {"item", "name", "value"} :
     \/ b[2] = "item"
     \/ b[2] = "name" /\ l[b[1]].name # NULL
     \/ b[2] = "value" /\ l[b[1]].value # NULL}

\* Mutant: the items and their names, and not the values.
sam3FreeFieldListNames(l, h) == h \ {b \in Pointers(l) : b[2] # "value"}

sam3FreeFieldList(l, h) == h \ Pointers(l)

\* sam3ParseReply appends an item: malloc() gives the item, its name and its
\* value, or fails at the first of them, or at a later one
AddItem(name, value, e) ==
  LET grown(n, v) == Append(list, [name |-> n, value |-> v])
  IN /\ \/ /\ list' = grown(name, value)
           /\ heap' = heap \cup Pointers(list')
           /\ p' = e /\ pc' = "fields"
        \/ /\ list' = <<>>
           /\ pc' = IF list = <<>> THEN "error" ELSE "lost"
           /\ UNCHANGED <<p, heap>>
        \/ /\ list' = <<>>
           /\ \E l \in {grown(NULL, NULL), grown(name, NULL)} :
                heap' = sam3FreeFieldList(l, heap \cup Pointers(l))
           /\ pc' = "error"
           /\ UNCHANGED p
     /\ UNCHANGED <<rep, got>>

\* the first two words are one item
ParseWords ==
  LET s  == SkipSpace(1)
      e  == xstrtokend(1)
      e1 == IF e = NULL THEN NULL ELSE xstrtokend(e)
  IN /\ pc = "words"
     /\ \/ e1 = NULL /\ pc' = "tooShort" /\ UNCHANGED <<rep, got, p, list, heap>>
        \/ e1 # NULL /\ AddItem(Between(s, e), Between(SkipSpace(e), e1), e1)

\* and each word after them is one: key=value, or a key alone
ParseField ==
  LET s  == SkipSpace(p)
      e  == xstrtokend(p)
      eq == {i \in s..e - 1 : rep[i] = "="}
      e1 == CHOOSE i \in eq : \A j \in eq : i <= j
  IN /\ pc = "fields"
     /\ \/ e = NULL /\ pc' = "list" /\ UNCHANGED <<rep, got, p, list, heap>>
        \/ e # NULL /\ eq # {} /\ AddItem(Between(s, e1), Between(e1 + 1, e), e)
        \/ e # NULL /\ eq = {} /\ AddItem(Between(s, e), <<>>, e)

\* what every caller does with a list in the end
Release ==
  /\ pc = "list"
  /\ heap' = sam3FreeFieldList(list, heap)
  /\ list' = <<>> /\ pc' = "freed"
  /\ UNCHANGED <<rep, got, p>>

Returned == pc \in {"freed"} \cup Failures /\ UNCHANGED vars

Next == sam3tcpReceiveStr \/ ParseWords \/ ParseField \/ Release \/ Returned

Spec == Init /\ [][Next]_vars

-----------------------------------------------------------------------------
(* Looking at a list.                                                      *)

\* the first field of that name; the item of the two words is not a field
sam3FindField(field) ==
  LET from[i \in 2..Len(list) + 1] ==
        IF i > Len(list) THEN NULL
        ELSE IF list[i].name = field THEN list[i].value
        ELSE from[i + 1]
  IN IF list = <<>> THEN NULL ELSE from[2]

\* Mutant: the search goes on behind a field that has another value.
sam3IsGoodReplyAny(r0, r1, field, value) ==
  /\ list # <<>> /\ list[1].name = r0 /\ list[1].value = r1
  /\ \/ \A i \in 2..Len(list) : list[i].name # field
     \/ \E i \in 2..Len(list) : list[i].name = field /\ value \in {NULL, list[i].value}

\* the two words, and the first field of that name, if there is one, has the
\* value, if one is asked for
sam3IsGoodReply(r0, r1, field, value) ==
  LET from[i \in 2..Len(list) + 1] ==
        IF i > Len(list) THEN TRUE
        ELSE IF list[i].name = field THEN value \in {NULL, list[i].value}
        ELSE from[i + 1]
  IN list # <<>> /\ list[1].name = r0 /\ list[1].value = r1 /\ from[2]
=============================================================================
