-------------------------- MODULE ExamplePrograms ---------------------------
(***************************************************************************)
(* What the pairs of example programs have in common.  A server writes the *)
(* public key of its destination to a file, a client on the same machine   *)
(* reads it there or is given it as an argument, and they talk through     *)
(* their bridges.  EchoStreams has the programs that talk over a stream,   *)
(* EchoDatagrams those that send datagrams.                                *)
(***************************************************************************)
EXTENDS Integers, SequencesExt

VARIABLES faults,  \* what can go wrong in this behaviour
          keyfile  \* "none", "stale" (an earlier server's) or "fresh"

KeyFiles == {"none", "stale", "fresh"}

\* main() has returned: 0 or, for what it calls FATAL, 1
Ended == {"done", "failed"}

\* fopen(KEYFILE, "wb") and what is written then; it may fail.
Written == {"fresh"} \cup (IF "disk" \in faults THEN {keyfile} ELSE {})

\* The server's destination is gone, the file may still be there.
Outdated == IF keyfile = "fresh" THEN "stale" ELSE keyfile
=============================================================================
