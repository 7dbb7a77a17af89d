------------------------------ MODULE Examples ------------------------------
(***************************************************************************)
(* The example programs: a server and a client over a stream, any of them  *)
(* with any other, or dgrams.c and its clients; with any set of faults.    *)
(***************************************************************************)
EXTENDS EchoStreams, EchoDatagrams

CONSTANT MaxFaults  \* bound: how many kinds of faults the datagram programs meet

vars == <<faults, keyfile, svars, dvars>>

\* The programs that are not run.
StreamsOff == /\ server = [name |-> "none", pc |-> "off", conn |-> "none"]
              /\ client = [name |-> "none", pc |-> "off", conn |-> "none"]
              /\ keylen = 516
              /\ toServer = <<>> /\ toClient = <<>> /\ cut = FALSE
              /\ echoed = <<>> /\ heard = <<>>
DatagramsOff == /\ dserver = [pc |-> "off"]
                /\ dclients = [c \in DClients |-> [pc |-> "off", turn |-> 0]]
                /\ net = EmptyBag /\ inbox = <<>> /\ duplicates = 0

OverStreams == server.pc # "off"

Init == /\ keyfile \in {"none", "stale"}
        /\ \/ faults \in SUBSET StreamFaults /\ StreamsInit /\ DatagramsOff
           \/ /\ faults \in SUBSET DatagramFaults /\ Cardinality(faults) <= MaxFaults
              /\ StreamsOff /\ DatagramsInit

Streams(step) == OverStreams /\ step /\ UNCHANGED <<faults, dvars>>
Datagrams(step) == ~OverStreams /\ step /\ UNCHANGED <<faults, svars>>

Next == \/ Streams(ServerStep \/ ClientStep \/ Cut)
        \/ Datagrams(DServerStep \/ Deliver \/ Lose \/ Duplicate)
        \/ \E c \in DClients : Datagrams(DClientStep(c))

\* Each program is a process of its own, which the system runs while it can
\* run; a datagram that is not lost arrives at last.
Fairness == /\ WF_vars(Streams(ServerStep)) /\ WF_vars(Streams(ClientStep))
            /\ WF_vars(Datagrams(DServerStep)) /\ WF_vars(Datagrams(Deliver))
            /\ \A c \in DClients : WF_vars(Datagrams(DClientStep(c)))

Spec == Init /\ [][Next]_vars /\ Fairness

-----------------------------------------------------------------------------
Symbols == {"test", "quit", "re", "nl"}

TypeOK ==
  /\ faults \subseteq StreamFaults \cup DatagramFaults
  /\ keyfile \in KeyFiles
  /\ keylen \in {516, 616} /\ cut \in BOOLEAN
  /\ \A wire \in {toServer, toClient, echoed, heard} : wire \in Seq(Symbols)
  /\ OverStreams =>
       /\ server.pc \in {"create", "accept", "loop", "echo", "read", "more", "write",
                         "cancel", "close", "error", "spin"} \cup Ended
       /\ server.conn \in {"none", "listening", "open", "closed"}
       /\ client.pc \in {"key", "connect", "test", "echo", "quit", "loop", "read", "more",
                         "write", "cancel", "close", "error", "spin"} \cup Ended
       /\ client.conn \in {"none", "open", "closed"}
       /\ client.udata \in 0..2
       /\ server.str \in Seq(Symbols) /\ server.out \in Seq(Symbols) /\ client.out \in Seq(Symbols)
  /\ ~OverStreams =>
       /\ dserver.pc \in {"create", "receive", "reply", "close", "error", "spin"} \cup Ended
       /\ \A c \in DClients :
            /\ dclients[c].pc \in {"key", "send", "receive", "close", "error", "spin"} \cup Ended
            /\ dclients[c].turn \in 1..3
       /\ \A d \in BagToSet(net) : d.to \in DOMAIN inbox

-----------------------------------------------------------------------------
(* Safety.                                                                 *)

\* the answers to the lines that the client has sent
Answers == (IF client.udata > 0 THEN Answer("test") ELSE <<>>)
           \o (IF client.udata > 1 THEN Answer("quit") ELSE <<>>)

\* However a line is cut in two on its way, the client reads the answers to its
\* lines in their order, and a server that leaves because of a "quit" has given
\* every answer to the socket before (test_ss.c:89-118, streams.c:64-76).
EchoWhole ==
  OverStreams =>
    /\ IsPrefix(heard, echoed)
    /\ IsPrefix(echoed, Answers)
    /\ server.pc = "done" /\ server.doQuit /\ "memory" \notin faults => echoed = Answers

\* dgramc.c takes the next datagram for the answer to its last one.  It is
\* right if nothing comes twice, and with two clients as well as with one; if
\* something does, it is at least an answer to what this client has sent
\* (dgramc.c:91-136, dgrams.c:96-115).
AnswersMatch ==
  ~OverStreams =>
    \A c \in DClients :
      \A i \in DOMAIN dclients[c].got :
        \E j \in 1..i : /\ dclients[c].got[i] = Words[j]
                        /\ "duplicate" \notin faults => j = i

-----------------------------------------------------------------------------
(* Liveness.                                                               *)

\* A server to which a client is connected returns from main(), as long as the
\* client stays and the tunnel holds; without them test_ss may stay for ever
\* (test_ss.c:84-92, libsam3a.c:1410-1415) and streams.c read for ever
\* (streams.c:70, libsam3.c:319-345).  But a client that has said its "quit" may
\* leave at once: streams.c still ends (streams.c:64-87, streamc.c:92-97).  And a
\* streamc that thinks it is connected returns, as long as the server stays
\* (streamc.c:83-97).
StreamsEnd ==
  /\ (OverStreams /\ server.conn = "open")
       ~> (server.pc \in Ended \/ client.conn = "closed" \/ cut)
  /\ (OverStreams /\ server.name = "streams" /\ server.conn = "open" /\ client.udata = 2)
       ~> (server.pc \in Ended \/ cut \/ "memory" \in faults)
  /\ (OverStreams /\ client.name = "streamc" /\ client.pc = "test")
       ~> (client.pc \in Ended \/ Gone(server))

\* A client that waits for an answer gets it and returns, unless a datagram is
\* lost, for it waits without a timeout, the bridge closes a session's connection
\* and the program that reads it never comes back, the server has failed, or
\* another client has sent its "quit" (dgramc.c:95-140).  And that "quit" ends the
\* server, unless it is lost or the server never comes back (dgrams.c:96-127).
DatagramsEnd ==
  /\ \A c \in DClients :
       (~OverStreams /\ dclients[c].pc = "receive" /\ dclients[c].key = "fresh")
         ~> \/ dclients[c].pc \in Ended \cup {"spin"}
            \/ dserver.pc \in {"spin", "failed"}
            \/ "lose" \in faults
            \/ \E d \in DClients \ {c} : dclients[d].turn = 3
  /\ \A c \in DClients :
       (~OverStreams /\ dclients[c].pc = "receive" /\ dclients[c].turn = 3
          /\ dclients[c].key = "fresh")
         ~> (dserver.pc \in Ended \cup {"spin"} \/ "lose" \in faults)
=============================================================================
