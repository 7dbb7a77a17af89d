----------------------------- MODULE Sam3aState -----------------------------
(***************************************************************************)
(* The state of the asynchronous SAM library (src/libsam3a/libsam3a.c):    *)
(* one session, the connections opened in it, the C call stack that the    *)
(* library and the application's callbacks share, and the socket of each   *)
(* object seen from both ends.                                             *)
(*                                                                         *)
(* The library is single threaded and re-entrant: it calls the application *)
(* in the middle of its own functions, and the application calls the       *)
(* library back before it returns.  The rest of every interrupted function *)
(* is a frame of `stack'; the code between two callbacks is one step.      *)
(***************************************************************************)
EXTENDS SamProtocol, FiniteSets

CONSTANTS
  Ses,      \* the Sam3ASession, a struct the application owns
  Conns,    \* the Sam3AConnections that may be allocated (bound on how many)
  MaxOut,   \* bound on the chunks the application queues in one connection
  MaxIn     \* bound on the chunks the bridge has in flight to one socket

ASSUME ConstantsAssumption ==
  /\ Ses \notin Conns
  /\ "fd0" \notin {Ses} \cup Conns   \* Foreign, below
  /\ MaxOut \in Nat \ {0}
  /\ MaxIn \in Nat \ {0}

VARIABLES
  obj,       \* Sam3ASession and Sam3AConnection structs
  connlist,  \* ses->connlist, newest connection first
  stack,     \* call stack, innermost frame first; empty: the application runs
  told,      \* history: the callbacks each object has had, in order
  rds, wrs,  \* the fd_sets select() returned, while they are being processed
  desc,      \* descriptors of this process
  net        \* the other end of each socket

vars == <<obj, connlist, stack, told, rds, wrs, desc, net>>

Obj == {Ses} \cup Conns

-----------------------------------------------------------------------------
(* Structs.  `aio' stands for the buffer aio.data/dataUsed/dataPos: no     *)
(* buffer, an unsent command, a reply line buffer that is empty, half      *)
(* filled or holds a complete line, or the send buffer of a stream.        *)

Kinds    == {"stream", "raw", "keyGen", "lookup", "connect", "accept"}
Checks   == {"null", "hello", "create", "nameMe", "keyGen", "nameRes",
             "connect", "accept", "acceptA"}
Readers  == {"null", "replyReader", "dataReader"}
Writers  == {"null", "connected", "cmdSender", "dataWriter"}
Buffers  == {"null", "cmd", "fresh", "partial", "full", "stream"}

Struct == [mem       : {"none", "live", "closed"},
           kind      : Kinds,
           fd        : {"none", "own", "zero"},
           cancelled : BOOLEAN,
           procR     : Readers,
           procW     : Writers,
           check     : Checks,
           callDisc  : BOOLEAN,
           aio       : Buffers,
           out       : 0..MaxOut]

\* memset() of a struct: every pointer NULL, every flag 0, and fd 0, which
\* is the descriptor of standard input.
Zeroed == [mem |-> "closed", kind |-> "raw", fd |-> "zero",
           cancelled |-> FALSE, procR |-> "null", procW |-> "null",
           check |-> "null", callDisc |-> FALSE, aio |-> "null", out |-> 0]

Unused == [Zeroed EXCEPT !.mem = "none", !.fd = "none"]

\* A struct whose connect() is in progress.
Connecting(kind) == [Zeroed EXCEPT !.mem = "live", !.kind = kind,
                                   !.fd = "own", !.procW = "connected"]

\* The ways the handlers change a struct.
Idle(s)       == [s EXCEPT !.procR = "null", !.procW = "null"]
Buffer(s, b)  == [s EXCEPT !.aio = b]
Queue(s, n)   == [s EXCEPT !.out = n]
Cancelled(s)  == [s EXCEPT !.cancelled = TRUE]
Created(s)    == [s EXCEPT !.procR = "null", !.procW = "null",
                           !.callDisc = TRUE]
\* a command to send, whose reply goes to the checker `check'
SendingCommand(s, check) ==
  [s EXCEPT !.procR = "null", !.procW = "cmdSender",
            !.check = check, !.aio = "cmd"]
\* an empty line buffer, and the reader that fills it
AwaitingLine(s, check) ==
  [s EXCEPT !.procR = "replyReader", !.procW = "null",
            !.check = check, !.aio = "fresh"]
\* the connection carries the stream from here on
Streaming(s) == [s EXCEPT !.procR = "dataReader", !.procW = "dataWriter",
                          !.callDisc = TRUE, !.aio = "stream"]

\* sam3aIsActiveSession, sam3aIsActiveConnection
IsActive(s) == s.fd # "none" /\ ~s.cancelled

-----------------------------------------------------------------------------
(* The call stack.                                                         *)

\* cbAnswer is the cbCreated of a key generation or a name lookup.
Callbacks == {"cbError", "cbCreated", "cbAnswer", "cbConnected", "cbAccepted",
              "cbRead", "cbSent", "cbDisconnected", "cbDestroy"}
Pcs == Callbacks \cup
  {"sesDisconnect",    \* call of sesDisconnect
   "cascade",          \* its loop over connlist; o is the last one done
   "connDisconnect",   \* call of connDisconnect
   "closeSession",     \* sam3aCloseSession after sam3aCancelSession
   "freeSession",      \* ... after cbDestroy
   "destroyConn",      \* sam3aCloseConnection after sam3aCancelConnection
   "freeConn",         \* ... after cbDestroy
   "readIO",           \* sam3aProcessSessionIO: the read processor of o
   "writeIO",          \* ... the write processor of o
   "walk",             \* ... the connection after o
   "readLoop",         \* aioConnDataReader's loop
   "ready",            \* a checker after cbConnected or cbAccepted
   "crashed"}          \* a null pointer has been read: the program is over

Frame == [pc : Pcs, o : Obj]
F(pc, o) == [pc |-> pc, o |-> o]

At(pc, o) == stack # <<>> /\ Head(stack) = F(pc, o)

\* The application has control: between two library calls or in a callback.
AppRuns == stack # <<>> => Head(stack).pc \in Callbacks

\* Callback frames of o that have not returned yet.
InCallback(o) == \E i \in DOMAIN stack : stack[i].o = o
                                         /\ stack[i].pc \in Callbacks

\* History of the callbacks: cbRead and cbSent are both "traffic", recorded
\* once in a row; the three "it is open now" callbacks are "up".
Event == [cbError |-> "error", cbCreated |-> "up", cbAnswer |-> "answer",
          cbConnected |-> "up", cbAccepted |-> "up", cbRead |-> "traffic", cbSent |-> "traffic",
          cbDisconnected |-> "disconnected", cbDestroy |-> "destroy"]
Events == {"error", "up", "answer", "traffic", "disconnected", "destroy"}

Record(h, e) ==
  IF e = "traffic" /\ h # <<>> /\ h[Len(h)] = "traffic"
    THEN h ELSE Append(h, e)

\* A step pushes at most one callback, and pushes it on top.
Told(frames) ==
  IF frames # <<>> /\ Head(frames).pc \in Callbacks
    THEN [told EXCEPT ![Head(frames).o] =
                        Record(@, Event[Head(frames).pc])]
    ELSE told

\* The step that returns from the top frame and runs `frames' instead, with
\* `s' the new contents of the struct of o.
Run(o, s, frames) == /\ obj' = [obj EXCEPT ![o] = s]
                     /\ stack' = frames \o Tail(stack)
                     /\ told' = Told(frames)

\* The step that calls into the library from the application.
Call(frames) == /\ stack' = frames \o stack
                /\ told' = Told(frames)

\* Mutant: the callback, and no disconnect after it.
ErrorFramesOnlyTells(o) == <<F("cbError", o)>>

\* sesError and connError: cbError, then the disconnect.
ErrorFrames(o) ==
  <<F("cbError", o),
    F(IF o = Ses THEN "sesDisconnect" ELSE "connDisconnect", o)>>

-----------------------------------------------------------------------------
(* The sockets.  The bridge is external: it answers the commands it reads. *)

Socket == [link  : {"none", "connecting", "up", "refused"},
           req   : {"none", "peer", "stream"} \cup Commands,
           half  : BOOLEAN,
           inbox : Seq(Item),
           hang  : {"open", "fin", "rst"}]

NoSocket == [link |-> "none", req |-> "none", half |-> FALSE,
             inbox |-> <<>>, hang |-> "open"]
NewSocket == [NoSocket EXCEPT !.link = "connecting"]

\* Descriptor 0 is not the library's: the process got it from its parent.
Foreign == "fd0"
Descriptors == Obj \cup {Foreign}
DescState == {"none", "open", "shut"}   \* only constructors that fail close one

\* shutdown(s.fd, SHUT_RDWR) for the struct s of o.  What the socket held is
\* of no consequence any more.
Shutdown(o, s) ==
  /\ desc' = [desc EXCEPT ![IF s.fd = "zero" THEN Foreign ELSE o] = "shut"]
  /\ net' = [net EXCEPT ![o] = NoSocket]

Listed(c) == \E i \in DOMAIN connlist : connlist[i] = c

\* The place of o in connlist; the session stands before all of it, and what
\* is not in the list (any more) behind it: its next pointer is cleared.
Pos(o) == IF o = Ses THEN 0
          ELSE IF Listed(o) THEN CHOOSE i \in DOMAIN connlist : connlist[i] = o
          ELSE Len(connlist)

\* c->next, or ses->connlist for the session
HasNext(o)   == Pos(o) < Len(connlist)
Successor(o) == connlist[Pos(o) + 1]

-----------------------------------------------------------------------------
(* Types.                                                                  *)

TypeOK == /\ obj \in [Obj -> Struct]
          /\ connlist \in Seq(Conns)
          /\ stack \in Seq(Frame)
          /\ told \in [Obj -> Seq(Events)]
          /\ rds \subseteq Obj
          /\ wrs \subseteq Obj
          /\ desc \in [Descriptors -> DescState]
          /\ net \in [Obj -> Socket]

Init == /\ obj = [o \in Obj |-> Unused]
        /\ connlist = <<>>
        /\ stack = <<>>
        /\ told = [o \in Obj |-> <<>>]
        /\ rds = {}
        /\ wrs = {}
        /\ desc = [d \in Descriptors |-> IF d = Foreign THEN "open" ELSE "none"]
        /\ net = [o \in Obj |-> NoSocket]
=============================================================================
