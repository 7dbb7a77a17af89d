---------------------------- MODULE EchoStreams -----------------------------
(***************************************************************************)
(* The echo programs over a stream: the servers streams.c and test_ss.c,   *)
(* the clients streamc.c and test_sc.c.  The first of each use the         *)
(* blocking library (streamss.c and streamcs.c are the same in a silent    *)
(* session), the second the asynchronous one; any of the servers may meet  *)
(* any of the clients.                                                     *)
(*                                                                         *)
(* A line is a word and an end of line, and the two travel by themselves,  *)
(* so that a line can be cut in two.  A blocking program takes a step per  *)
(* call, an asynchronous one a step per round of its select() loop, in     *)
(* which the library reads all there is, calling cbRead for it, and then   *)
(* writes what it can (Sam3a and Sam3aSendBuffer have the details).        *)
(***************************************************************************)
EXTENDS ExamplePrograms

CONSTANTS Servers, Clients  \* which of the programs there are

\* These are all.
ASSUME ProgramsAssumption ==
  /\ Servers \subseteq {"streams", "test_ss"}
  /\ Clients \subseteq {"streamc", "test_sc"}

\* The bridge refuses, KEYFILE cannot be written, memory runs out, the tunnel
\* breaks.
StreamFaults == {"refuse", "disk", "memory", "cut"}

VARIABLES server, client,   \* the two processes
          keylen,           \* how long the bridge's keys are
          toServer, toClient, \* the stream, once it is there
          cut,              \* it has broken
          echoed, heard     \* history: what server has sent, what client has read

svars == <<server, client, keylen, toServer, toClient, cut, echoed, heard>>

Line(word) == <<word, "nl">>

\* what the server answers to a line, as libsam3 prints it, as test_ss sends it
Answer(word) == IF server.name = "test_ss" THEN Line(word)
                ELSE IF word = "quit" THEN <<>> ELSE <<"re">> \o Line(word)

HasLine(wire) == Contains(wire, "nl")

\* The bytes of a program that has closed its end still arrive.
Gone(peer) == peer.conn # "open" \/ cut

StreamsInit ==
  /\ server \in [name : Servers, pc : {"create"}, conn : {"none"},
                 str : {<<>>}, out : {<<>>}, doQuit : {FALSE}]
  /\ client \in [name : Clients, silent : BOOLEAN, pc : {"key"}, conn : {"none"},
                 key : {"none"}, out : {<<>>}, udata : {0}]
  /\ client.silent => client.name = "streamc"
  /\ keylen \in {516, 616}
  /\ toServer = <<>> /\ toClient = <<>> /\ cut = FALSE
  /\ echoed = <<>> /\ heard = <<>>

-----------------------------------------------------------------------------
(* streams.c                                                               *)

streamsCreate ==
  /\ server.name = "streams" /\ server.pc = "create"
  /\ \/ /\ "refuse" \in faults
        /\ server' = [server EXCEPT !.pc = "failed"]
        /\ UNCHANGED keyfile
     \/ /\ server' = [server EXCEPT !.pc = "accept", !.conn = "listening"]
        /\ keyfile' \in Written
  /\ UNCHANGED <<client, keylen, toServer, toClient, cut, echoed, heard>>

\* sam3StreamAccept; if it fails the program leaves its key file behind.
streamsAccept ==
  /\ server.name = "streams" /\ server.pc = "accept"
  /\ \/ /\ server.conn = "open"
        /\ server' = [server EXCEPT !.pc = "loop"]
        /\ UNCHANGED <<keyfile, toServer>>
     \/ /\ "refuse" \in faults \/ cut
        /\ server' = [server EXCEPT !.pc = "failed", !.conn = "closed"]
        /\ keyfile' = Outdated
        /\ toServer' = <<>>
  /\ UNCHANGED <<client, keylen, toClient, cut, echoed, heard>>

\* sam3tcpReceiveStr, and the comparison with "quit".  A stream that has been
\* reset is an error; one that the other side has closed is read over and over
\* (the HangupSpins of Sam3), and the program never comes back.
streamsReceive ==
  /\ server.name = "streams" /\ server.pc = "loop"
  /\ \/ /\ HasLine(toServer)
        /\ server' = [server EXCEPT !.pc = IF Head(toServer) = "quit" THEN "close" ELSE "echo",
                                    !.doQuit = (Head(toServer) = "quit"),
                                    !.str = <<Head(toServer)>>]
        /\ toServer' = Tail(Tail(toServer))
     \/ /\ ~HasLine(toServer) /\ Gone(client)
        /\ \E next \in {"error", "spin"} : server' = [server EXCEPT !.pc = next]
        /\ UNCHANGED toServer
  /\ UNCHANGED <<client, keyfile, keylen, toClient, cut, echoed, heard>>

\* sam3tcpPrintf(conn->fd, "re: %s\n", cmd); to a peer that has gone, the bytes
\* may still seem to leave.
streamsEcho ==
  /\ server.name = "streams" /\ server.pc = "echo"
  /\ \/ /\ server' = [server EXCEPT !.pc = "loop"]
        /\ echoed' = echoed \o Answer(server.str[1])
        /\ toClient' = IF Gone(client) THEN toClient ELSE toClient \o Answer(server.str[1])
     \/ /\ Gone(client)
        /\ server' = [server EXCEPT !.pc = "error"]
        /\ UNCHANGED <<echoed, toClient>>
  /\ UNCHANGED <<client, keyfile, keylen, toServer, cut, heard>>

\* sam3CloseSession, which closes the connection too, and unlink(KEYFILE)
streamsClose ==
  /\ server.name = "streams" /\ server.pc \in {"close", "error"}
  /\ server' = [server EXCEPT !.pc = IF @ = "close" THEN "done" ELSE "failed", !.conn = "closed"]
  /\ keyfile' = "none"
  /\ toServer' = <<>>
  /\ UNCHANGED <<client, keylen, toClient, cut, echoed, heard>>

-----------------------------------------------------------------------------
(* test_ss.c                                                               *)

\* The session is created and scbCreated called, which writes the key file and
\* starts to accept, or cancels the session; then main() ends.  The
\* asynchronous library has room for keys of 516 characters only.
scbCreatedServer ==
  /\ server.name = "test_ss" /\ server.pc = "create"
  /\ \/ /\ keylen # 516 \/ "refuse" \in faults
        /\ server' = [server EXCEPT !.pc = "done"]
        /\ UNCHANGED keyfile
     \/ /\ keylen = 516 /\ "disk" \in faults
        /\ server' = [server EXCEPT !.pc = "done"]
        /\ UNCHANGED keyfile
     \/ /\ keylen = 516 /\ "memory" \in faults
        /\ server' = [server EXCEPT !.pc = "done"]
        /\ keyfile' = "stale"
     \/ /\ keylen = 516
        /\ server' = [server EXCEPT !.pc = "loop", !.conn = "listening"]
        /\ keyfile' = "fresh"
  /\ UNCHANGED <<client, keylen, toServer, toClient, cut, echoed, heard>>

\* STREAM ACCEPT is refused: ccbError only prints, and the session stays.
ssAcceptFails ==
  /\ server.name = "test_ss" /\ server.conn = "listening" /\ "refuse" \in faults
  /\ server' = [server EXCEPT !.conn = "closed"]
  /\ UNCHANGED <<client, keyfile, keylen, toServer, toClient, cut, echoed, heard>>

\* What select() finds: something to read, the end of the stream perhaps, and
\* not always what was written just now; or room for what is to be written.
Selected(p, wire, peer) ==
  (IF wire # <<>> \/ Gone(peer) THEN {"read"} ELSE {})
  \cup (IF p.out # <<>> THEN {"write"} ELSE {})

ssSelect ==
  /\ server.name = "test_ss" /\ server.pc = "loop" /\ server.conn = "open"
  /\ \E next \in Selected(server, toServer, client) : server' = [server EXCEPT !.pc = next]
  /\ UNCHANGED <<client, keyfile, keylen, toServer, toClient, cut, echoed, heard>>

\* Mutant: "quit" ends the session at once.
AtNewlineQuits(line) ==
  [server EXCEPT !.str = <<>>, !.out = @ \o Append(line, "nl"), !.doQuit = @ \/ line = <<"quit">>,
                 !.pc = IF line = <<"quit">> THEN "cancel" ELSE "more"]

\* ccbRead at a '\n': the line goes back, quit or not.
AtNewline(line) ==
  [server EXCEPT !.str = <<>>, !.out = @ \o Append(line, "nl"),
                 !.doQuit = @ \/ line = <<"quit">>, !.pc = "more"]

\* aioConnDataReader: recv(), and ccbRead for what it got, over and over until
\* there is nothing left or the stream is at its end.  The end closes the
\* connection there and then, whatever is still to be written; the session
\* stays, and with it the program.  sam3aSend may run out of memory, and
\* ccbRead then cancels the session.
ssRead ==
  /\ server.name = "test_ss" /\ server.pc \in {"read", "more"}
  /\ \/ /\ toServer # <<>>
        /\ toServer' = Tail(toServer)
        /\ \/ /\ Head(toServer) # "nl"
              /\ server' = [server EXCEPT !.str = Append(@, Head(toServer)), !.pc = "more"]
           \/ /\ Head(toServer) = "nl"
              /\ server' = AtNewline(server.str)
           \/ /\ Head(toServer) = "nl" /\ "memory" \in faults
              /\ server' = [server EXCEPT !.pc = "cancel"]
     \/ /\ toServer = <<>> /\ Gone(client)
        /\ server' = [server EXCEPT !.pc = "loop", !.conn = "closed", !.out = <<>>]
        /\ UNCHANGED toServer
     \/ /\ server.pc = "more"
        /\ \E next \in {"write", "loop"} : server' = [server EXCEPT !.pc = next]
        /\ UNCHANGED toServer
  /\ UNCHANGED <<client, keyfile, keylen, toClient, cut, echoed, heard>>

\* Mutant: the answer to "quit" does not end the session.
ccbSentGoesOn == "loop"

\* ccbSent, when everything has been sent
ccbSentServer == IF server.doQuit THEN "cancel" ELSE "loop"

\* aioConnDataWriter, as much as the socket takes; when all has been written
\* it calls ccbSent.
ssWrite ==
  /\ server.name = "test_ss" /\ server.pc = "write"
  /\ \/ /\ server.out = <<>>
        /\ server' = [server EXCEPT !.pc = "loop"]
        /\ UNCHANGED <<echoed, toClient>>
     \/ \E n \in 1..Len(server.out) :
          /\ echoed' = echoed \o SubSeq(server.out, 1, n)
          /\ toClient' = IF Gone(client) THEN toClient
                         ELSE toClient \o SubSeq(server.out, 1, n)
          /\ server' = [server EXCEPT !.out = SubSeq(@, n + 1, Len(@)),
                          !.pc = IF n = Len(server.out) THEN ccbSentServer ELSE "loop"]
     \/ /\ server.out # <<>> /\ Gone(client)
        /\ server' = [server EXCEPT !.pc = "loop", !.conn = "closed", !.out = <<>>]
        /\ UNCHANGED <<echoed, toClient>>
  /\ UNCHANGED <<client, keyfile, keylen, toServer, cut, heard>>

\* sam3aCancelSession, the end of the loop in main(), and sam3aCloseSession;
\* the key file stays.
ssCancel ==
  /\ server.name = "test_ss" /\ server.pc = "cancel"
  /\ server' = [server EXCEPT !.pc = "done", !.conn = "closed"]
  /\ keyfile' = Outdated
  /\ toServer' = <<>>
  /\ UNCHANGED <<client, keylen, toClient, cut, echoed, heard>>

-----------------------------------------------------------------------------
(* streamc.c, and how a client comes to a stream.                          *)

\* The key is in the file, if it is as long as streamc.c thinks it is, or the
\* user gives it: the right one, when the server has printed it, or another.
streamcKey ==
  /\ client.name = "streamc" /\ client.pc = "key"
  /\ \/ /\ keyfile # "none" /\ keylen >= 616
        /\ client' = [client EXCEPT !.pc = "connect", !.key = keyfile]
     \/ /\ keyfile = "none" \/ keylen < 616 \/ "refuse" \in faults
        /\ client' = [client EXCEPT !.pc = "failed"]
     \/ /\ server.conn # "none"
        /\ client' = [client EXCEPT !.pc = "connect", !.key = "fresh"]
     \/ client' = [client EXCEPT !.pc = "connect", !.key = "stale"]
  /\ UNCHANGED <<server, keyfile, keylen, toServer, toClient, cut, echoed, heard>>

\* The bridge has a stream for who has the key of a server that accepts one.
Reaches == client.key = "fresh" /\ server.conn = "listening"

\* sam3StreamConnect: a failing handshake or no reply at all is an error in any
\* session, a RESULT that is not OK in one that is not silent.
streamcConnect ==
  /\ client.name = "streamc" /\ client.pc = "connect"
  /\ \/ /\ Reaches
        /\ client' = [client EXCEPT !.pc = "test", !.conn = "open"]
        /\ server' = [server EXCEPT !.conn = "open"]
     \/ /\ ~Reaches \/ "refuse" \in faults
        /\ client' = [client EXCEPT !.pc = IF client.silent THEN "test" ELSE "failed",
                                    !.conn = "closed"]
        /\ UNCHANGED server
     \/ /\ "refuse" \in faults
        /\ client' = [client EXCEPT !.pc = "failed", !.conn = "closed"]
        /\ UNCHANGED server
  /\ UNCHANGED <<keyfile, keylen, toServer, toClient, cut, echoed, heard>>

\* sam3tcpPrintf(conn->fd, "test\n"), and later "quit\n"
streamcSend(word, next) ==
  /\ client.name = "streamc" /\ client.pc = word
  /\ \/ /\ client' = [client EXCEPT !.pc = next, !.udata = @ + 1]
        /\ toServer' = IF Gone(server) THEN toServer ELSE toServer \o Line(word)
     \/ /\ Gone(server)
        /\ client' = [client EXCEPT !.pc = "error"]
        /\ UNCHANGED toServer
  /\ UNCHANGED <<server, keyfile, keylen, toClient, cut, echoed, heard>>

\* sam3tcpReceiveStr(conn->fd, cmd, sizeof(cmd)): one line, whatever it says;
\* at the end of the stream as in streams.c
streamcReceive ==
  /\ client.name = "streamc" /\ client.pc = "echo"
  /\ \/ \E n \in DOMAIN toClient :
          /\ SelectInSeq(toClient, LAMBDA ch : ch = "nl") = n
          /\ client' = [client EXCEPT !.pc = "quit"]
          /\ heard' = heard \o SubSeq(toClient, 1, n)
          /\ toClient' = SubSeq(toClient, n + 1, Len(toClient))
     \/ /\ ~HasLine(toClient) /\ Gone(server)
        /\ \E next \in {"error", "spin"} : client' = [client EXCEPT !.pc = next]
        /\ UNCHANGED <<heard, toClient>>
  /\ UNCHANGED <<server, keyfile, keylen, toServer, cut, echoed>>

\* sam3CloseConnection, sam3CloseSession
streamcClose ==
  /\ client.name = "streamc" /\ client.pc \in {"close", "error"}
  /\ client' = [client EXCEPT !.pc = IF @ = "close" THEN "done" ELSE "failed", !.conn = "closed"]
  /\ toClient' = <<>>
  /\ UNCHANGED <<server, keyfile, keylen, toServer, cut, echoed, heard>>

-----------------------------------------------------------------------------
(* test_sc.c                                                               *)

\* The session is created, and scbCreated reads the key file and connects, or
\* cancels the session and with it the program.
scbCreatedClient ==
  /\ client.name = "test_sc" /\ client.pc = "key"
  /\ \/ /\ keylen # 516 \/ keyfile = "none" \/ faults \cap {"refuse", "memory"} # {}
        /\ client' = [client EXCEPT !.pc = "done"]
     \/ /\ keylen = 516 /\ keyfile # "none"
        /\ client' = [client EXCEPT !.pc = "connect", !.key = keyfile]
  /\ UNCHANGED <<server, keyfile, keylen, toServer, toClient, cut, echoed, heard>>

\* Mutant: the switch breaks where it should return.
ccbSentClientBreaks(p) ==
  IF p.udata > 1 THEN {[p EXCEPT !.udata = @ + 1, !.pc = "loop"]}
  ELSE {[p EXCEPT !.out = Line(<<"test", "quit">>[p.udata + 1]), !.udata = @ + 1, !.pc = "loop"]}

\* ccbSent: "test", then "quit", then nothing more; if sam3aSend runs out of
\* memory, the session is cancelled.
ccbSentClient(p) ==
  LET word == <<"test", "quit">>[p.udata + 1]
  IN IF p.udata > 1 THEN {[p EXCEPT !.pc = "loop"]}
     ELSE {[p EXCEPT !.out = Line(word), !.udata = @ + 1, !.pc = "loop"]}
          \cup (IF "memory" \in faults THEN {[p EXCEPT !.udata = @ + 1, !.pc = "cancel"]} ELSE {})

\* aioConnConnectChecker: ccbConnected and, "indicate that we are ready for new
\* data", ccbSent; or ccbError, and a session without connections stays.
scConnect ==
  /\ client.name = "test_sc" /\ client.pc = "connect"
  /\ \/ /\ Reaches
        /\ client' \in ccbSentClient([client EXCEPT !.conn = "open"])
        /\ server' = [server EXCEPT !.conn = "open"]
     \/ /\ ~Reaches \/ "refuse" \in faults
        /\ client' = [client EXCEPT !.pc = "loop", !.conn = "closed"]
        /\ UNCHANGED server
  /\ UNCHANGED <<keyfile, keylen, toServer, toClient, cut, echoed, heard>>

scSelect ==
  /\ client.name = "test_sc" /\ client.pc = "loop" /\ client.conn = "open"
  /\ \E next \in Selected(client, toClient, server) : client' = [client EXCEPT !.pc = next]
  /\ UNCHANGED <<server, keyfile, keylen, toServer, toClient, cut, echoed, heard>>

\* ccbRead only prints.
scRead ==
  /\ client.name = "test_sc" /\ client.pc \in {"read", "more"}
  /\ \/ /\ toClient # <<>>
        /\ heard' = Append(heard, Head(toClient))
        /\ toClient' = Tail(toClient)
        /\ client' = [client EXCEPT !.pc = "more"]
     \/ /\ toClient = <<>> /\ Gone(server)
        /\ client' = [client EXCEPT !.pc = "loop", !.conn = "closed", !.out = <<>>]
        /\ UNCHANGED <<heard, toClient>>
     \/ /\ client.pc = "more"
        /\ \E next \in {"write", "loop"} : client' = [client EXCEPT !.pc = next]
        /\ UNCHANGED <<heard, toClient>>
  /\ UNCHANGED <<server, keyfile, keylen, toServer, cut, echoed>>

scWrite ==
  /\ client.name = "test_sc" /\ client.pc = "write"
  /\ \/ /\ client.out = <<>>
        /\ client' = [client EXCEPT !.pc = "loop"]
        /\ UNCHANGED toServer
     \/ \E n \in 1..Len(client.out) :
          /\ toServer' = IF Gone(server) THEN toServer ELSE toServer \o SubSeq(client.out, 1, n)
          /\ LET rest == [client EXCEPT !.out = SubSeq(@, n + 1, Len(@)), !.pc = "loop"]
             IN IF rest.out = <<>> THEN client' \in ccbSentClient(rest) ELSE client' = rest
     \/ /\ client.out # <<>> /\ Gone(server)
        /\ client' = [client EXCEPT !.pc = "loop", !.conn = "closed", !.out = <<>>]
        /\ UNCHANGED toServer
  /\ UNCHANGED <<server, keyfile, keylen, toClient, cut, echoed, heard>>

scCancel ==
  /\ client.name = "test_sc" /\ client.pc = "cancel"
  /\ client' = [client EXCEPT !.pc = "done", !.conn = "closed"]
  /\ toClient' = <<>>
  /\ UNCHANGED <<server, keyfile, keylen, toServer, cut, echoed, heard>>

-----------------------------------------------------------------------------
\* The tunnel breaks: what is on the way is lost, and each side reads the end
\* of its stream.
Cut ==
  /\ "cut" \in faults /\ ~cut
  /\ server.conn = "open" \/ client.conn = "open"
  /\ cut' = TRUE
  /\ toServer' = <<>> /\ toClient' = <<>>
  /\ UNCHANGED <<server, client, keyfile, keylen, echoed, heard>>

ServerStep == \/ streamsCreate \/ streamsAccept \/ streamsReceive \/ streamsEcho \/ streamsClose
              \/ scbCreatedServer \/ ssAcceptFails \/ ssSelect \/ ssRead \/ ssWrite \/ ssCancel

ClientStep == \/ streamcKey \/ streamcConnect \/ streamcSend("test", "echo") \/ streamcReceive
              \/ streamcSend("quit", "close") \/ streamcClose
              \/ scbCreatedClient \/ scConnect \/ scSelect \/ scRead \/ scWrite \/ scCancel
=============================================================================
