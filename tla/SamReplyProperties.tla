------------------------- MODULE SamReplyProperties -------------------------
(***************************************************************************)
(* What makes the reply parser correct: what a reply means, said without   *)
(* the parser, and what the model of SamReply makes of it.                 *)
(***************************************************************************)
EXTENDS SamReply, SequencesExt

-----------------------------------------------------------------------------
(* What a line means.  Quotes open and close in turn from the start of the *)
(* line, except after a backslash between quotes; the spaces outside of    *)
(* quotes are between words; a field is a word up to its first '='.        *)

Inside(line) ==
  LET at[i \in 0..Len(line)] ==
        IF i = 0 THEN "outside"
        ELSE IF at[i - 1] = "protected" THEN "inside"
        ELSE IF at[i - 1] = "outside"
          THEN IF line[i] = Quote THEN "inside" ELSE "outside"
        ELSE IF line[i] = Quote THEN "outside"
        ELSE IF line[i] = Back THEN "protected"
        ELSE "inside"
  IN at

\* A place between two words, or before the first or behind the last.
Gap(line, i) == i = 0 \/ i > Len(line)
                \/ (line[i] = " " /\ Inside(line)[i - 1] = "outside")

Starts(line) == {i \in 1..Len(line) : ~Gap(line, i) /\ Gap(line, i - 1)}

StartsBefore(line, i) == {j \in Starts(line) : j < i}

\* The word that starts at s goes up to the next gap.
WordAt(line, s) ==
  LET e == CHOOSE i \in s + 1..Len(line) + 1 :
             Gap(line, i) /\ \A j \in s..i - 1 : ~Gap(line, j)
  IN SubSeq(line, s, e - 1)

\* The k-th word has k - 1 before it.
Words(line) ==
  [k \in 1..Cardinality(Starts(line)) |->
     WordAt(line, CHOOSE s \in Starts(line) : Cardinality(StartsBefore(line, s)) = k - 1)]

Field(word) ==
  IF Contains(word, "=")
    THEN LET i == SelectInSeq(word, LAMBDA ch : ch = "=")
         IN [name |-> SubSeq(word, 1, i - 1), value |-> SubSeq(word, i + 1, Len(word))]
    ELSE [name |-> word, value |-> <<>>]

\* The first two words are one item, and each further word is one.
Meaning(line) ==
  LET w == Words(line)
  IN [k \in 1..Len(w) - 1 |-> IF k = 1 THEN [name |-> w[1], value |-> w[2]]
                                       ELSE Field(w[k + 1])]

-----------------------------------------------------------------------------
(* Safety.                                                                 *)

\* However the line is cut into segments, the reader takes the line and not a
\* byte of the next one, and it gives up on exactly the lines that do not fit
\* the buffer with their end of line and a NUL (libsam3.c:314-345).
ReadsOneLine ==
  /\ pc = "tooLong" => Len(rep) + 2 > RepSize
  /\ pc \notin {"read", "tooLong"} => got = End /\ Len(rep) + 2 <= RepSize

\* At every word the list is the beginning of what the line means, and at the
\* end all of it; only a line without two words is no reply
\* (libsam3.c:462-546: xstrtokend starts anew at every word, and yet the
\* quotes of the whole line pair up).
ParsesReply ==
  /\ pc = "tooShort" => Len(Words(rep)) < 2
  /\ pc \in {"fields", "list"} =>
       /\ Len(Words(rep)) >= 2
       /\ IsPrefix(list, Meaning(rep))
       /\ pc = "list" => list = Meaning(rep)

\* Every block is in the list or has been freed, at whichever malloc() the
\* parser stops; except at the item of a third or later word, where it returns
\* without freeing the list (libsam3.c:523).
HeapAccounted == pc # "lost" => heap = Pointers(list)

\* The callers test a reply with one loop and take its values with another:
\* what sam3IsGoodReply says of a field is what sam3FindField finds there, and
\* a field that is missing passes (libsam3.c:435-443, 573-596).
VerdictAgrees ==
  pc = "list" =>
    \A i, j \in DOMAIN list :
      LET found == sam3FindField(list[i].name)
      IN sam3IsGoodReply(list[1].name, list[1].value, list[i].name, list[j].value)
           <=> found \in {NULL, list[j].value}
=============================================================================
