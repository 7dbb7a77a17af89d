--------------------------- MODULE EchoDatagrams ----------------------------
(***************************************************************************)
(* The echo programs over datagrams: dgrams.c, which answers every         *)
(* datagram to whoever sent it until one says "quit", and any number of    *)
(* dgramc.c, each of which sends "test", a big one and "quit" and waits    *)
(* for an answer after each.                                               *)
(*                                                                         *)
(* A datagram goes to the bridge by UDP and on through the network: it may *)
(* be lost, come twice or be overtaken.  What arrives, the bridge puts     *)
(* into the session's own connection, where it waits for                   *)
(* sam3DatagramReceive.                                                    *)
(***************************************************************************)
EXTENDS ExamplePrograms, BagsExt

CONSTANTS DClients,      \* the processes that run dgramc.c
          MaxDuplicates  \* bound: how many datagrams come twice

\* An address is a client's or the server's.
ASSUME AddressAssumption == "server" \notin DClients

\* The bridge refuses, KEYFILE cannot be written, the bridge leaves,
\* sam3DatagramSend fails, and what the network does.
DatagramFaults == {"refuse", "disk", "cut", "send", "lose", "duplicate"}

VARIABLES dserver, dclients, \* the processes
          net,               \* the datagrams on their way
          inbox,             \* those that have arrived
          duplicates         \* how many have come twice

dvars == <<dserver, dclients, net, inbox, duplicates>>

Words == <<"test", "big", "quit">>

Datagram(to, from, word) == [to |-> to, from |-> from, word |-> word]

DatagramsInit ==
  /\ dserver = [pc |-> "create", destkey |-> "nobody", word |-> "none"]
  /\ dclients = [c \in DClients |-> [pc |-> "key", key |-> "none", turn |-> 1, got |-> <<>>]]
  /\ net = EmptyBag
  /\ inbox = [p \in DClients \cup {"server"} |-> <<>>]
  /\ duplicates = 0

-----------------------------------------------------------------------------
(* dgrams.c                                                                *)

\* sam3GenerateKeys, sam3CreateSession with those keys, and the key file
dgramsCreate ==
  /\ dserver.pc = "create"
  /\ \/ /\ "refuse" \in faults
        /\ dserver' = [dserver EXCEPT !.pc = "failed"]
        /\ UNCHANGED keyfile
     \/ /\ dserver' = [dserver EXCEPT !.pc = "receive"]
        /\ keyfile' \in Written
  /\ UNCHANGED <<dclients, net, inbox, duplicates>>

\* Mutant: the sender is taken from the first datagram only.
KnownSender(from) == IF dserver.destkey = "nobody" THEN from ELSE dserver.destkey

\* sam3DatagramReceive: "will set ses->destkey"
Sender(from) == from

\* sam3DatagramReceive blocks until there is a datagram, or the bridge leaves:
\* an error if it resets the session's connection; if it closes it in order, the
\* header of a datagram is waited for without end (the HangupSpins of Sam3).
dgramsReceive ==
  /\ dserver.pc = "receive"
  /\ \/ /\ inbox["server"] # <<>>
        /\ dserver' = [pc |-> "reply", destkey |-> Sender(Head(inbox["server"]).from),
                       word |-> Head(inbox["server"]).word]
        /\ inbox' = [inbox EXCEPT !["server"] = Tail(@)]
     \/ /\ "cut" \in faults
        /\ \E next \in {"error", "spin"} : dserver' = [dserver EXCEPT !.pc = next]
        /\ UNCHANGED inbox
  /\ UNCHANGED <<dclients, net, keyfile, duplicates>>

\* Mutant: the server leaves on "quit" as the stream server does, without an
\* answer.
dgramsReplyButQuit ==
  /\ dserver.pc = "reply"
  /\ \/ /\ net' = IF dserver.word = "quit" THEN net
                  ELSE BagAdd(net, Datagram(dserver.destkey, "server", dserver.word))
        /\ dserver' = [dserver EXCEPT !.pc = IF dserver.word = "quit" THEN "close" ELSE "receive"]
     \/ /\ "send" \in faults /\ dserver.word # "quit"
        /\ dserver' = [dserver EXCEPT !.pc = "error"]
        /\ UNCHANGED net
  /\ UNCHANGED <<dclients, inbox, keyfile, duplicates>>

\* "echo datagram back to sender", and after the answer to "quit" sleep and leave;
\* an answer that cannot be sent ends the program.
dgramsReply ==
  /\ dserver.pc = "reply"
  /\ \/ /\ net' = BagAdd(net, Datagram(dserver.destkey, "server", dserver.word))
        /\ dserver' = [dserver EXCEPT !.pc = IF dserver.word = "quit" THEN "close" ELSE "receive"]
     \/ /\ "send" \in faults
        /\ dserver' = [dserver EXCEPT !.pc = "error"]
        /\ UNCHANGED net
  /\ UNCHANGED <<dclients, inbox, keyfile, duplicates>>

dgramsClose ==
  /\ dserver.pc \in {"close", "error"}
  /\ dserver' = [dserver EXCEPT !.pc = IF @ = "close" THEN "done" ELSE "failed"]
  /\ keyfile' = "none"
  /\ inbox' = [inbox EXCEPT !["server"] = <<>>]
  /\ UNCHANGED <<dclients, net, duplicates>>

-----------------------------------------------------------------------------
(* dgramc.c                                                                *)

\* The key file may have any length; then the session is created.
dgramcKey(c) ==
  /\ dclients[c].pc = "key"
  /\ \/ /\ keyfile # "none"
        /\ dclients' = [dclients EXCEPT ![c].pc = "send", ![c].key = keyfile]
     \/ /\ dserver.pc \notin {"create"} \cup Ended
        /\ dclients' = [dclients EXCEPT ![c].pc = "send", ![c].key = "fresh"]
     \/ /\ keyfile = "none" \/ "refuse" \in faults
        /\ dclients' = [dclients EXCEPT ![c].pc = "failed"]
  /\ UNCHANGED <<dserver, net, inbox, keyfile, duplicates>>

\* sam3DatagramSend to the key that was read, whoever has it now
dgramcSend(c) ==
  /\ dclients[c].pc = "send"
  /\ \/ /\ net' = IF dclients[c].key = "fresh"
                    THEN BagAdd(net, Datagram("server", c, Words[dclients[c].turn])) ELSE net
        /\ dclients' = [dclients EXCEPT ![c].pc = "receive"]
     \/ /\ "send" \in faults
        /\ dclients' = [dclients EXCEPT ![c].pc = "error"]
        /\ UNCHANGED net
  /\ UNCHANGED <<dserver, inbox, keyfile, duplicates>>

\* sam3DatagramReceive takes what is there, an answer to whatever it may be,
\* if it is not too big for the buffer: only the second one is big enough.
dgramcReceive(c) ==
  /\ dclients[c].pc = "receive"
  /\ LET turn == dclients[c].turn
     IN \/ /\ inbox[c] # <<>>
           /\ Head(inbox[c]).word = "big" => turn = 2
           /\ dclients' = [dclients EXCEPT ![c].pc = IF turn = 3 THEN "close" ELSE "send",
                                           ![c].turn = IF turn = 3 THEN 3 ELSE @ + 1,
                                           ![c].got = Append(@, Head(inbox[c]).word)]
           /\ inbox' = [inbox EXCEPT ![c] = Tail(@)]
        \/ /\ inbox[c] # <<>> /\ Head(inbox[c]).word = "big" /\ turn # 2
           /\ dclients' = [dclients EXCEPT ![c].pc = "error"]
           /\ UNCHANGED inbox
        \/ /\ "cut" \in faults
           /\ \E next \in {"error", "spin"} : dclients' = [dclients EXCEPT ![c].pc = next]
           /\ UNCHANGED inbox
  /\ UNCHANGED <<dserver, net, keyfile, duplicates>>

dgramcClose(c) ==
  /\ dclients[c].pc \in {"close", "error"}
  /\ dclients' = [dclients EXCEPT ![c].pc = IF @ = "close" THEN "done" ELSE "failed"]
  /\ inbox' = [inbox EXCEPT ![c] = <<>>]
  /\ UNCHANGED <<dserver, net, keyfile, duplicates>>

-----------------------------------------------------------------------------
(* The network.                                                            *)

Closed(p) == (IF p = "server" THEN dserver.pc ELSE dclients[p].pc) \in Ended

Deliver ==
  \E d \in BagToSet(net) :
    /\ net' = BagRemove(net, d)
    /\ inbox' = IF Closed(d.to) THEN inbox
                ELSE [inbox EXCEPT ![d.to] = Append(@, d)]
    /\ UNCHANGED <<dserver, dclients, keyfile, duplicates>>

Lose ==
  \E d \in BagToSet(net) :
    /\ "lose" \in faults
    /\ net' = BagRemove(net, d)
    /\ UNCHANGED <<dserver, dclients, inbox, keyfile, duplicates>>

Duplicate ==
  \E d \in BagToSet(net) :
    /\ "duplicate" \in faults /\ duplicates < MaxDuplicates
    /\ duplicates' = duplicates + 1
    /\ net' = BagAdd(net, d)
    /\ UNCHANGED <<dserver, dclients, inbox, keyfile>>

DServerStep == dgramsCreate \/ dgramsReceive \/ dgramsReply \/ dgramsClose
DClientStep(c) == dgramcKey(c) \/ dgramcSend(c) \/ dgramcReceive(c) \/ dgramcClose(c)
=============================================================================
