--------------------------- MODULE Sam3aHandlers ---------------------------
(***************************************************************************)
(* The I/O processors sam3aProcessSessionIO calls and the reply checkers   *)
(* they call (libsam3a.c:817-1055, 1143-1175, 1214-1249, 1295-1548,        *)
(* 1584-1647).  The source has every handler of the handshake twice, for   *)
(* sessions and for connections; the common text is written here once, for *)
(* an object o, and named for each.                                        *)
(***************************************************************************)
EXTENDS Sam3aTeardown

Rest == UNCHANGED <<connlist, rds, wrs, desc>>

\* The current frame ends in sesError or connError.
Fail(o, s) == Run(o, s, ErrorFrames(o))

MemoryMayFail == "memory" \in Faults

\* aioSesSendCmdWaitReply, aioConnSendCmdWaitReply, and their callers' check
\* of the result: queue a command, or report the lack of memory
SendCmdWaitReply(o, s, check) ==
  \/ Run(o, SendingCommand(s, check), <<>>)
  \/ MemoryMayFail /\ Fail(o, s)

aioSesSendCmdWaitReply(s, check) == SendCmdWaitReply(Ses, s, check)
aioConnSendCmdWaitReply(c, s, check) == SendCmdWaitReply(c, s, check)

-----------------------------------------------------------------------------
(* Write processors of the handshake.                                      *)

\* aioSesConnected, aioConnConnected: SO_ERROR tells how connect() ended
Connected(o) ==
  /\ IF net[o].link = "up" /\ net[o].hang # "rst"
       THEN SendCmdWaitReply(o, obj[o], "hello")
       ELSE Fail(o, obj[o])
  /\ UNCHANGED net

aioSesConnected == Connected(Ses)
aioConnConnected(c) == Connected(c)

\* Mutant: the sender stays installed when the command has gone out.
CmdSenderStays(o) ==
  /\ Run(o, [obj[o] EXCEPT !.aio = "fresh", !.procR = "replyReader"], <<>>)
  /\ net' = [net EXCEPT ![o].req = obj[o].check]

\* The command is on its way; a bridge that has left does not get it.
Sent(o) == net' = IF net[o].hang = "open"
                  THEN [net EXCEPT ![o].req = obj[o].check] ELSE net

\* The command goes out whole and the reply is awaited, or a part of it goes
\* out, or the socket is dead.  (A bridge that has left still lets the first
\* send() succeed.)
CmdSender(o) ==
  \/ /\ net[o].hang # "rst"
     /\ Run(o, AwaitingLine(obj[o], obj[o].check), <<>>)
     /\ Sent(o)
  \/ /\ MemoryMayFail /\ net[o].hang # "rst"
     /\ Fail(o, obj[o])
     /\ Sent(o)
  \/ /\ "slow" \in Faults /\ net[o].hang # "rst"
     /\ Run(o, obj[o], <<>>) /\ UNCHANGED net
  \/ /\ net[o].hang # "open"
     /\ Fail(o, obj[o]) /\ UNCHANGED net

aioSesCmdSender == CmdSender(Ses)
aioConnCmdSender(c) == CmdSender(c)

-----------------------------------------------------------------------------
(* The line reader.  It peeks at all the bytes there are, takes them up to *)
(* the first '\n', and gives up on a line that does not fit the buffer or  *)
(* of which an earlier call has taken a part (libsam3a.c:853: recv returns *)
(* the bytes of this call, and is compared with the length of the line).   *)

\* Items the reader looks at: a cut line whose end has arrived is whole.
Whole(in) == IF Len(in) > 1 /\ Head(in) = Part THEN Tail(in) ELSE in

\* aioLineReader returns 0, -1, and otherwise 1
LineAbsent(o) == \/ net[o].inbox = <<>>
                 \/ obj[o].aio # "full" /\ net[o].inbox = <<Part>>
LineFails(o)  == /\ ~LineAbsent(o)
                 /\ obj[o].aio \in {"full", "partial"}

\* What a call leaves in the socket: a full buffer is noticed before reading.
Unread(o) == IF net[o].inbox = <<>> \/ obj[o].aio = "full" THEN net[o].inbox
             ELSE Tail(Whole(net[o].inbox))

Line(o) == Head(Whole(net[o].inbox))

-----------------------------------------------------------------------------
(* Reply checkers.  s is the struct with its buffer holding the line r.    *)

\* udata, the function that continues after HELLO, is set at creation
aioSesHandshacked(s)       == aioSesSendCmdWaitReply(s, "create")
aioSesKeyGenHandshacked(s) == aioSesSendCmdWaitReply(s, "keyGen")
aioSesNameResHandshacked(s) == aioSesSendCmdWaitReply(s, "nameRes")
aioConConnectHandshacked(c, s) == aioConnSendCmdWaitReply(c, s, "connect")
aioConAcceptHandshacked(c, s)  == aioConnSendCmdWaitReply(c, s, "accept")

aioSesHelloChecker(s, r) ==
  \/ /\ Good(r, "hello")
     /\ \/ s.kind \in {"stream", "raw"} /\ aioSesHandshacked(Idle(s))
        \/ s.kind = "keyGen" /\ aioSesKeyGenHandshacked(Idle(s))
        \/ s.kind = "lookup" /\ aioSesNameResHandshacked(Idle(s))
  \/ ~Good(r, "hello") /\ Fail(Ses, s)

\* Mutant: a bad reply is dropped.
aioSesCreateCheckerSilent(s, r) ==
  IF Good(r, "create") THEN aioSesSendCmdWaitReply(s, "nameMe") ELSE Run(Ses, s, <<>>)

aioSesCreateChecker(s, r) ==
  IF Good(r, "create") THEN aioSesSendCmdWaitReply(s, "nameMe") ELSE Fail(Ses, s)

aioSesNameMeChecker(s, r) ==
  IF Good(r, "nameMe")
    THEN Run(Ses, Created(s), <<F("cbCreated", Ses)>>)
    ELSE Fail(Ses, s)

\* Mutant: the session is not cancelled after cbCreated.
aioSesKeyGenCheckerStays(s, r) ==
  IF Good(r, "keyGen") THEN Run(Ses, s, <<F("cbAnswer", Ses)>>) ELSE Fail(Ses, s)

aioSesKeyGenChecker(s, r) ==
  IF Good(r, "keyGen")
    THEN Run(Ses, s, <<F("cbAnswer", Ses), F("sesDisconnect", Ses)>>)
    ELSE Fail(Ses, s)

\* A well-formed reply to another command is dropped without a word
\* (libsam3a.c:1221: there is no else).  A reply without RESULT passes
\* sam3aIsGoodReply, and strcmp() reads a null pointer.
aioSesNameResChecker(s, r) ==
  \/ ~Unparsable(r) /\ r.to # "nameRes" /\ Run(Ses, s, <<>>)
  \/ Good(r, "nameRes")
       /\ Run(Ses, s, <<F("cbAnswer", Ses), F("sesDisconnect", Ses)>>)
  \/ Unparsable(r) /\ Fail(Ses, s)
  \/ r.to = "nameRes" /\ r.is = "bad" /\ Fail(Ses, s)
  \/ r.to = "nameRes" /\ r.is = "bare" /\ Run(Ses, s, <<F("crashed", Ses)>>)

\* Mutant: the function that continues the handshake is not called.
aioConnHelloCheckerStops(c, s, r) ==
  IF Good(r, "hello")
    THEN Run(c, Idle(s), <<>>)
    ELSE Fail(c, s)

aioConnHelloChecker(c, s, r) ==
  \/ /\ Good(r, "hello")
     /\ \/ s.kind = "connect" /\ aioConConnectHandshacked(c, Idle(s))
        \/ s.kind = "accept" /\ aioConAcceptHandshacked(c, Idle(s))
  \/ ~Good(r, "hello") /\ Fail(c, s)

aioConnConnectChecker(c, s, r) ==
  IF Good(r, "connect")
    THEN Run(c, Streaming(s), <<F("cbConnected", c), F("ready", c)>>)
    ELSE Fail(c, s)

\* The status line is followed by a line with the destination of the peer.
aioConnAcceptChecker(c, s, r) ==
  IF Good(r, "accept")
    THEN Run(c, AwaitingLine(s, "acceptA"), <<>>)
    ELSE Fail(c, s)

aioConnAcceptCheckerA(c, s, r) ==
  IF Good(r, "acceptA")
    THEN Run(c, Streaming(s), <<F("cbAccepted", c), F("ready", c)>>)
    ELSE Fail(c, s)

\* "indicate that we are ready for new data"
ready(c) ==
  /\ At("ready", c)
  /\ Run(c, obj[c], IF IsActive(obj[c]) THEN <<F("cbSent", c)>> ELSE <<>>)
  /\ Rest /\ UNCHANGED net

-----------------------------------------------------------------------------
(* Read processors of the handshake.                                       *)

\* The reader either has no line yet, or has failed, or has one.
NoLine(o) ==
  /\ LineAbsent(o) \/ LineFails(o)
  /\ IF LineFails(o) THEN Fail(o, obj[o])
     ELSE Run(o, IF net[o].inbox = <<>> THEN obj[o]
                 ELSE Buffer(obj[o], "partial"), <<>>)
  /\ net' = [net EXCEPT ![o].inbox = Unread(o)]

HasLine(o) == /\ ~LineAbsent(o) /\ ~LineFails(o)
              /\ net' = [net EXCEPT ![o].inbox = Unread(o)]

aioSesCmdReplyReader ==
  \/ NoLine(Ses)
  \/ /\ HasLine(Ses)
     /\ LET s == Buffer(obj[Ses], "full")
            r == Line(Ses)
        IN \/ s.check = "hello"   /\ aioSesHelloChecker(s, r)
           \/ s.check = "create"  /\ aioSesCreateChecker(s, r)
           \/ s.check = "nameMe"  /\ aioSesNameMeChecker(s, r)
           \/ s.check = "keyGen"  /\ aioSesKeyGenChecker(s, r)
           \/ s.check = "nameRes" /\ aioSesNameResChecker(s, r)

aioConnCmdReplyReader(c) ==
  \/ NoLine(c)
  \/ /\ HasLine(c)
     /\ LET s == Buffer(obj[c], "full")
            r == Line(c)
        IN \/ s.check = "hello"   /\ aioConnHelloChecker(c, s, r)
           \/ s.check = "connect" /\ aioConnConnectChecker(c, s, r)
           \/ s.check = "accept"  /\ aioConnAcceptChecker(c, s, r)
           \/ s.check = "acceptA" /\ aioConnAcceptCheckerA(c, s, r)

-----------------------------------------------------------------------------
(* Stream I/O.                                                             *)

\* One round of aioConnDataReader's loop: everything that has arrived goes
\* to cbRead in one piece; then EOF, an error, or EAGAIN ends the loop.
aioConnDataReader(c) ==
  /\ At("readLoop", c)
  /\ Rest
  /\ \/ /\ ~IsActive(obj[c])
        /\ Run(c, obj[c], <<>>) /\ UNCHANGED net
     \/ /\ IsActive(obj[c]) /\ net[c].inbox # <<>>
        /\ Run(c, obj[c], <<F("cbRead", c), F("readLoop", c)>>)
        /\ net' = [net EXCEPT ![c].inbox = <<>>]
     \/ /\ IsActive(obj[c]) /\ net[c].inbox = <<>>
        /\ \/ net[c].hang = "open" /\ Run(c, obj[c], <<>>)
           \/ net[c].hang = "fin" /\ Run(c, obj[c], <<F("connDisconnect", c)>>)
           \/ net[c].hang = "rst" /\ Fail(c, obj[c])
        /\ UNCHANGED net
     \/ /\ IsActive(obj[c]) /\ MemoryMayFail
        /\ Fail(c, obj[c]) /\ UNCHANGED net

\* Nothing to send; or all of it goes out and cbSent asks for more; or a part
\* of it; or the socket is dead.  How long the queue is, is all there is of the
\* buffer here: Sam3aSendBuffer has its bytes, and what the function does to them
\* after cbSent (1458-1466).
aioConnDataWriter(c) ==
  /\ UNCHANGED net
  /\ \/ obj[c].out = 0 /\ Run(c, obj[c], <<>>)
     \/ /\ obj[c].out > 0 /\ net[c].hang # "rst"
        /\ Run(c, Queue(obj[c], 0), <<F("cbSent", c)>>)
     \/ /\ obj[c].out > 0 /\ net[c].hang # "rst" /\ "slow" \in Faults
        /\ \E n \in 1..obj[c].out : Run(c, Queue(obj[c], n), <<>>)
     \/ /\ obj[c].out > 0 /\ net[c].hang # "open"
        /\ Fail(c, obj[c])
=============================================================================
