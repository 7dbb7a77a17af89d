---------------------------- MODULE SamProtocol ----------------------------
(***************************************************************************)
(* The lines that the SAM bridge and a library exchange, as both libraries *)
(* of the repository use them: external to src/, modelled from the         *)
(* commands the libraries send and the replies they expect.                *)
(***************************************************************************)
EXTENDS Naturals, Sequences

CONSTANT Faults   \* which failures of the bridge, the network and malloc happen

AllFaults == {"refuse",   \* the TCP connection to the bridge is refused
              "badReply", \* the bridge answers with RESULT /= OK or a bad value
              "bare",     \* ... without the field the caller asks for
              "garbage",  \* ... with a line the reply parser rejects
              "other",    \* ... with a well-formed reply to something else
              "part",     \* ... with a reply cut in two TCP segments
              "early",    \* a datagram comes before NAMING REPLY (sync)
              "hangup",   \* the bridge closes the socket in order (FIN)
              "reset",    \* the bridge resets the socket (RST)
              "slow",     \* a nonblocking send() takes a part of the buffer
              "badArg",   \* the application passes an argument that is rejected (sync)
              "memory"}   \* malloc and realloc fail

ASSUME FaultsAssumption == Faults \subseteq AllFaults

Commands == {"hello", "create", "nameMe", "keyGen", "nameRes", "connect",
             "accept", "forward"}

\* A line from the bridge: which command it answers (or "other"; or the
\* destination line that follows STREAM STATUS on an accept; or the header of
\* a datagram), and what it says.
Reply == [to : Commands \cup {"other", "acceptA", "dgram"},
          is : {"ok", "bad", "bare", "garbage"}]
Part  == [to |-> "part", is |-> "part"]      \* a line without its '\n' yet
Data  == [to |-> "data", is |-> "data"]      \* stream or datagram payload
Item  == Reply \cup {Part, Data}

\* What the bridge may answer to the command c.
Replies(c) ==
  {[to |-> c, is |-> "ok"]}
  \cup (IF "badReply" \in Faults THEN {[to |-> c, is |-> "bad"]} ELSE {})
  \cup (IF "bare" \in Faults THEN {[to |-> c, is |-> "bare"]} ELSE {})
  \cup (IF "garbage" \in Faults THEN {[to |-> c, is |-> "garbage"]} ELSE {})
  \cup (IF "other" \in Faults THEN {[to |-> "other", is |-> "ok"]} ELSE {})

\* After STREAM STATUS RESULT=OK the socket carries the stream; on an accept
\* that starts with the destination of the peer, once there is one.
NextRequest(c, r) ==
  IF r = [to |-> "connect", is |-> "ok"] THEN "stream"
  ELSE IF r = [to |-> "accept", is |-> "ok"] THEN "peer"
  ELSE "none"

\* sam3ParseReply returns NULL.
Unparsable(r) == r.is = "garbage" \/ r.to = "acceptA"

\* sam3IsGoodReply, and the values the caller takes from the reply are there.
\* A reply that has no RESULT field at all is a good one: the loop that looks
\* for the field ends, and the function returns 1.
Good(r, cmd) ==
  r.to = cmd /\ \/ r.is = "ok"
                \/ r.is = "bare" /\ cmd \in {"hello", "connect", "accept", "forward"}
=============================================================================
