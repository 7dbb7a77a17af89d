-------------------------- MODULE Sam3aProperties --------------------------
(***************************************************************************)
(* What makes the asynchronous library correct, over the model of Sam3a.   *)
(***************************************************************************)
EXTENDS Sam3a

OnStack(pcs) == \E i \in DOMAIN stack : stack[i].pc \in pcs

InLog(o, e) == \E i \in DOMAIN told[o] : told[o][i] = e

-----------------------------------------------------------------------------
(* Refinement.                                                             *)

Life == INSTANCE CallbackLife
          WITH Objects <- Obj, log <- told

\* The callbacks of every session and connection follow the life cycle that
\* libsam3a.h:100-160 describes, whatever functions the application calls in
\* the middle of them (sesError, connError, sesDisconnect, connDisconnect,
\* the checkers and sam3aClose*).
CallbacksFollowLife == Life!Spec

-----------------------------------------------------------------------------
(* Safety.                                                                 *)

\* A connection that survives its session would never be served again:
\* sam3aProcessSessionIO looks at the session first.  Once sesDisconnect has
\* been through its list, every listed connection is cancelled, even if the
\* callbacks it made opened, cancelled or closed others (libsam3a.c:788-795).
CascadeComplete ==
  obj[Ses].mem = "live" /\ obj[Ses].cancelled /\ ~OnStack({"cascade"}) =>
    \A i \in DOMAIN connlist : obj[connlist[i]].cancelled

\* connlist holds each allocated connection once, whatever the order in which
\* callbacks opened and closed them (libsam3a.c:1573, 1735-1745).
ListIntegrity ==
  /\ \A i, j \in DOMAIN connlist : connlist[i] = connlist[j] => i = j
  /\ {connlist[i] : i \in DOMAIN connlist} = {c \in Conns : obj[c].mem = "live"}

\* No function that is still on the call stack works on a connection that has
\* been freed meanwhile: the loops read c->next, and the handlers read
\* conn->cancelled, after a callback (libsam3a.c:791, 1374, 1536, 1804).
FramesAreLive ==
  \A i \in DOMAIN stack : stack[i].o \in Conns => obj[stack[i].o].mem = "live"

\* The library and the bridge stay in step: a command is sent only when the
\* bridge owes nothing, the line to be read next answers the command that the
\* installed checker belongs to, and nobody waits for a reply to a command
\* the bridge has not got (libsam3a.c:887-941, 1311-1366, 1606-1632).  (A
\* STREAM STATUS without RESULT is taken for a good one: then an accept waits
\* for a peer the bridge does not know of.)
Lockstep ==
  \A o \in Obj :
    LET s == obj[o]
        n == net[o]
    IN IsActive(s) /\ s.mem = "live" /\ ~InLog(o, "error") =>
         /\ s.procW = "cmdSender" => n.req = "none" /\ n.inbox = <<>>
         /\ s.procR = "replyReader" /\ n.inbox \notin {<<>>, <<Part>>} =>
              Line(o).to \in {s.check, "other"}
         /\ s.procR = "replyReader" /\ s.aio = "fresh" /\ n.inbox = <<>>
              /\ n.hang = "open" =>
              \/ n.req = IF s.check = "acceptA" THEN "peer" ELSE s.check
              \/ s.check = "acceptA" /\ "bare" \in Faults

\* When the library waits for select(), an object that is still active has a
\* processor for what comes next; only a created session, which has nothing
\* more to say on its socket, has none (libsam3a.c:993, 947, 1474).
NeverDeaf ==
  stack = <<>> =>
    \A o \in Obj : obj[o].mem = "live" /\ IsActive(obj[o])
                     /\ ~(o = Ses /\ obj[o].callDisc) =>
                   obj[o].procR # "null" \/ obj[o].procW # "null"

\* select() looks at every descriptor that has something to wait for: the
\* count it is given reaches them all, though an idle connection does not
\* raise it when it is added to the write set (libsam3a.c:1783-1786).
MaxFdCovers ==
  \A o \in sam3aAddSessionToFDS.r \cup sam3aAddSessionToFDS.w : WithinMax(o)

\* An error is the end of an object: once the application has control outside
\* of callbacks again, what got cbError is cancelled (libsam3a.c:798-814).
ErrorIsFatal ==
  stack = <<>> =>
    \A o \in Obj : InLog(o, "error") /\ obj[o].mem = "live" => obj[o].cancelled

\* Key generation and name lookup are over with their answer: outside of
\* callbacks no such session is left open (libsam3a.c:1160, 1232).
OneShotIsOver ==
  stack = <<>> /\ obj[Ses].kind \in {"keyGen", "lookup"} /\ InLog(Ses, "answer")
    => obj[Ses].cancelled

\* The library shuts down the sockets it opened and no other descriptor: the
\* fd of a struct that memset() has cleared, 0, is never used
\* (libsam3a.c:776, 790, 1137).
OnlyOwnDescriptors == desc[Foreign] = "open"

\* No socket stays open behind a struct that is cancelled or freed.
SocketsShut ==
  \A o \in Obj : obj[o].mem = "closed" \/ obj[o].cancelled => desc[o] = "shut"

\* An installed processor has the buffer it works on: a command to send, a
\* line buffer, a send buffer; no handler runs on one that a disconnect has
\* freed or another handler has handed over (libsam3a.c:770, 784, 926, 1350).
ProcessorsHaveBuffers ==
  \A o \in Obj :
    /\ obj[o].procW = "cmdSender" => obj[o].aio = "cmd"
    /\ obj[o].procR = "replyReader" => obj[o].aio \in {"fresh", "partial", "full"}
    /\ obj[o].procR = "dataReader" => obj[o].aio = "stream" /\ obj[o].callDisc
    /\ obj[o].out > 0 => obj[o].procW = "dataWriter"

-----------------------------------------------------------------------------
(* Liveness, under FairSpec.                                               *)

\* aioConnDataReader reads until there is nothing more to read: a peer whose
\* data arrive as fast as cbRead takes them keeps the library, and every other
\* object of the application, in one call of sam3aProcessSessionIO
\* (libsam3a.c:1374).
ReadLoopForEver == <>[]OnStack({"readLoop"})

\* With a bridge that answers, well or badly, every handshake ends: the
\* session or connection comes up, fails, or is cancelled.  (A pending accept
\* may wait for a peer for ever.)  Only a read loop without end prevents it.
HandshakeEnds ==
  ReadLoopForEver \/ \A o \in Obj :
    (IsActive(obj[o]) /\ obj[o].kind # "accept" /\ obj[o].mem = "live")
      ~> (InLog(o, "up") \/ InLog(o, "answer") \/ ~IsActive(obj[o]) \/ obj[o].mem = "closed")

\* sam3aCloseSession comes to its end, whatever the callbacks it makes do:
\* its loop runs until connlist is empty (libsam3a.c:1129).
CloseEnds == OnStack({"closeSession"}) ~> obj[Ses].mem = "closed"

\* What sam3aSend has accepted leaves the queue, or the connection ends,
\* under the same condition.
SendsDrain ==
  ReadLoopForEver \/ \A c \in Conns : (obj[c].out > 0) ~> (obj[c].out = 0)
=============================================================================
