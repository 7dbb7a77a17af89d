-------------------------------- MODULE Sam3 --------------------------------
(***************************************************************************)
(* The synchronous SAM library (src/libsam3/libsam3.c): sessions, their    *)
(* stream connections and forwards, key generation, name lookup and        *)
(* datagrams.  Every function blocks; it talks to the bridge in a few      *)
(* steps, and the bridge, the peers and the network act between them.      *)
(* Descriptors are numbers that the kernel hands out, lowest first, and    *)
(* the process has only so many.                                           *)
(***************************************************************************)
EXTENDS SamProtocol, Integers, FiniteSets

CONSTANTS
  Sessions,  \* the Sam3Session structs of the application
  Conns,     \* the Sam3Connections it may hold at a time
  MaxFd,     \* the last descriptor of the process: RLIMIT_NOFILE - 1
  MaxIn,     \* bound on the data the bridge has in flight to one socket
  Ops        \* the functions the application calls

\* "createDgram" stands for the styles DATAGRAM and RAW, which the source
\* does not tell apart
AllOps == {"createDgram", "createStream", "createSilent", "connect", "accept",
           "forward", "keyGen", "lookup", "receive"}

\* "none" is the null pointer.
ASSUME SyncAssumption == /\ MaxFd \in Nat /\ MaxIn \in Nat \ {0}
                         /\ Ops \subseteq AllOps
                         /\ "none" \notin Sessions \cup Conns

VARIABLES
  ses,     \* Sam3Session structs
  conn,    \* Sam3Connection structs
  call,    \* the function the application is in, or the last one's result
  fds,     \* the descriptor table of the process
  sock     \* the other end of each descriptor that is a socket

vars == <<ses, conn, call, fds, sock>>

-----------------------------------------------------------------------------
(* State.                                                                  *)

Fds  == 0..MaxFd
None == -1
Stdin == 0        \* not the library's

Session == [mem      : {"none", "live", "closed"},
            style    : {"dgram", "stream"},
            fd       : Fds \cup {None},
            fwd_fd   : Fds \cup {None},
            silent   : BOOLEAN,
            error    : BOOLEAN,       \* a message, or the empty string
            connlist : Seq(Conns)]

Connection == [mem : {"none", "live"}, ses : Sessions \cup {"none"},
               fd : Fds \cup {None}]
NoConn == [mem |-> "none", ses |-> "none", fd |-> None]

\* memset, then fd = -1: fwd_fd is 0 from here on
Closed == [mem |-> "closed", style |-> "dgram", fd |-> None, fwd_fd |-> Stdin,
           silent |-> FALSE, error |-> FALSE, connlist |-> <<>>]

\* Mutant: ses->fwd_fd = -1 is missing.
FreshForward(style) == [Closed EXCEPT !.mem = "live", !.style = style]

\* the start of sam3CreateSession
Fresh(style) == [Closed EXCEPT !.mem = "live", !.style = style,
                               !.fwd_fd = None]

\* Mutants: the destination of the peer is not read; a forward waits for one.
ScriptNoPeer(op) ==
  IF op = "connect" THEN <<"hello", "connect">>
  ELSE IF op = "accept" THEN <<"hello", "accept">>
  ELSE <<"hello", "create", "nameMe">>
ScriptPeerOfForward(op) ==
  IF op = "connect" THEN <<"hello", "connect">>
  ELSE IF op = "forward" THEN <<"hello", "forward", "acceptA">>
  ELSE <<"hello", "create", "nameMe">>

\* What each function reads from the bridge, in order: the answers to the
\* commands it sends, and the lines that come without one.
Script(op) ==
  IF op = "connect" THEN <<"hello", "connect">>
  ELSE IF op = "accept" THEN <<"hello", "accept", "acceptA">>
  ELSE IF op = "forward" THEN <<"hello", "forward">>
  ELSE IF op = "keyGen" THEN <<"hello", "keyGen">>
  ELSE IF op = "lookup" THEN <<"hello", "nameRes">>
  ELSE IF op = "receive" THEN <<"dgram", "payload">>
  ELSE <<"hello", "create", "nameMe">>

Creating(op) == op \in {"createDgram", "createStream", "createSilent"}
Style(op) == IF op = "createDgram" THEN "dgram" ELSE "stream"

\* at: what the function does next; todo: the rest of its script; c: the
\* struct it has allocated; fd: the socket it talks on; res: what it returned
Phases == {"connect", "send", "await", "idle", "crashed"}
Lines  == Commands \cup {"acceptA", "dgram", "payload"}
CallRec == [op : AllOps \cup {"none", "close", "send"}, s : Sessions \cup {"none"},
            c : Conns \cup {"none"}, fd : Fds \cup {None},
            at : Phases, todo : Seq(Lines), res : {"none", "ok", "failed", "rejected"}]

Idle == call.at = "idle"

Socket == [req   : {"none", "peer", "stream", "dgram"} \cup Commands,
           style : {"none", "dgram", "stream"},
           half  : BOOLEAN,
           inbox : Seq(Item),
           hang  : {"open", "fin", "rst"}]
NewSocket == [req |-> "none", style |-> "none", half |-> FALSE,
              inbox |-> <<>>, hang |-> "open"]

TypeOK == /\ ses \in [Sessions -> Session]
          /\ conn \in [Conns -> Connection]
          /\ call \in CallRec
          /\ fds \in [Fds -> {"free", "app", "lib"}]
          /\ sock \in [Fds -> Socket]

Init == /\ ses = [s \in Sessions |-> [Closed EXCEPT !.mem = "none"]]
        /\ conn = [c \in Conns |-> NoConn]
        /\ call = [op |-> "none", s |-> "none", c |-> "none", fd |-> None,
                   at |-> "idle", todo |-> <<>>, res |-> "none"]
        /\ fds = [d \in Fds |-> IF d = Stdin THEN "app" ELSE "free"]
        /\ sock = [d \in Fds |-> NewSocket]

-----------------------------------------------------------------------------
(* Descriptors.                                                            *)

Free == {d \in Fds : fds[d] = "free"}
LowestFree == CHOOSE d \in Free : \A e \in Free : d <= e

\* sam3tcpDisconnect of every descriptor in D that is not -1; what the call
\* has read from its socket is gone in `left'
Close(D, left) ==
  /\ fds' = [d \in Fds |-> IF d \in D THEN "free" ELSE fds[d]]
  /\ sock' = [d \in Fds |-> IF d \in D THEN NewSocket ELSE left[d]]

ConnsOf(s) == {ses[s].connlist[i] : i \in DOMAIN ses[s].connlist}

\* what sam3CloseSession closes
HeldBy(s) == {ses[s].fd, ses[s].fwd_fd} \cup {conn[c].fd : c \in ConnsOf(s)}

FreeConns(C) == conn' = [c \in Conns |-> IF c \in C THEN NoConn ELSE conn[c]]

Return(res) == call' = [call EXCEPT !.at = "idle", !.todo = <<>>,
                                    !.fd = None, !.res = res]

Error(s, e) == ses' = [ses EXCEPT ![s].error = e]

\* sam3CloseSession
Release(s) == /\ Close(HeldBy(s), sock)
              /\ FreeConns(ConnsOf(s))
              /\ ses' = [ses EXCEPT ![s] = Closed]

-----------------------------------------------------------------------------
(* Failing: each function's way out.                                       *)

InHandshake == Head(call.todo) = "hello"

\* Mutant: a socket whose handshake has failed is forgotten.
FailOpenLeaks(s, c, left) ==
  /\ Close({conn[c].fd}, left)
  /\ FreeConns({c}) /\ Error(s, TRUE) /\ Return("failed")

\* sam3StreamConnect and sam3StreamAccept: close, free, return NULL
FailOpen(s, c, left) ==
  /\ Close({call.fd, conn[c].fd}, left)
  /\ FreeConns({c}) /\ Error(s, TRUE) /\ Return("failed")

\* sam3StreamForward: the socket of a failed handshake is closed, one that
\* fails later stays in fwd_fd
FailForward(s, left) ==
  /\ Close(IF InHandshake THEN {call.fd} ELSE {}, left)
  /\ Error(s, TRUE) /\ Return("failed")
  /\ UNCHANGED conn

\* sam3NameLookup; sam3GenerateKeys in its handshake
FailOnce(s, left) ==
  /\ Close({call.fd}, left)
  /\ Error(s, TRUE) /\ Return("failed")
  /\ UNCHANGED conn

\* sam3GenerateKeys has no way out after the handshake: it copies the fields
\* of the reply, and strcpy() of the NULL that sam3FindField returns is fatal.
\* So is the use of a RESULT or SIZE that is not there.
Crash(left) ==
  /\ call' = [call EXCEPT !.at = "crashed"]
  /\ sock' = left
  /\ UNCHANGED <<ses, conn, fds>>

\* sam3DatagramReceive
FailReceive(s, left) ==
  /\ Error(s, TRUE) /\ Return("failed")
  /\ sock' = left
  /\ UNCHANGED <<conn, fds>>

\* sam3CreateSession: sam3CloseSession on what there is so far
FailCreate(s, left) ==
  /\ Close(HeldBy(s) \cup {call.fd}, left)
  /\ FreeConns(ConnsOf(s))
  /\ ses' = [ses EXCEPT ![s] = Closed]
  /\ Return("failed")

Fail(left) ==
  LET s == call.s
  IN \/ Creating(call.op) /\ FailCreate(s, left)
     \/ call.op \in {"connect", "accept"} /\ FailOpen(s, call.c, left)
     \/ call.op = "forward" /\ FailForward(s, left)
     \/ call.op = "lookup" /\ FailOnce(s, left)
     \/ call.op = "keyGen" /\ InHandshake /\ FailOnce(s, left)
     \/ call.op = "keyGen" /\ ~InHandshake /\ Crash(left)
     \/ call.op = "receive" /\ FailReceive(s, left)

-----------------------------------------------------------------------------
(* Entering a function.                                                    *)

Enter(op, s, c, at, fd) ==
  call' = [op |-> op, s |-> s, c |-> c, fd |-> fd, at |-> at,
           todo |-> Script(op), res |-> "none"]

\* An argument or the state of the session is rejected, or there is no memory.
Refused(op, s) ==
  /\ Error(s, TRUE)
  /\ call' = [op |-> op, s |-> s, c |-> "none", fd |-> None, at |-> "idle",
              todo |-> <<>>, res |-> "failed"]
  /\ UNCHANGED <<conn, fds, sock>>

\* libsam3.h: "you still have to call sam3CloseSession() on failure"
Usable(s) == ses[s].mem = "live" /\ (ses[s].style # "stream" => ~ses[s].error)

MayFail(f) == f \in Faults

\* sam3CreateSession, sam3CreateSilentSession; the struct may be one that was
\* never used, or is closed
sam3CreateSession(op, s) ==
  /\ Idle /\ op \in Ops /\ Creating(op) /\ ses[s].mem # "live"
  /\ \/ /\ ses' = [ses EXCEPT ![s] = Fresh(Style(op))]
        /\ Enter(op, s, "none", "connect", None)
     \/ /\ MayFail("badArg")
        /\ ses' = [ses EXCEPT ![s] = Closed]
        /\ call' = [op |-> op, s |-> s, c |-> "none", fd |-> None,
                    at |-> "idle", todo |-> <<>>, res |-> "failed"]
  /\ UNCHANGED <<conn, fds, sock>>

\* sam3StreamConnect, sam3StreamAccept up to calloc
OpenConnection(op, s, c) ==
  /\ Idle /\ op \in Ops \cap {"connect", "accept"}
  /\ Usable(s) /\ conn[c].mem = "none"
  /\ \/ /\ ses[s].style # "stream" \/ MayFail("badArg") \/ MayFail("memory")
        /\ Refused(op, s)
     \/ /\ ses[s].style = "stream"
        /\ conn' = [conn EXCEPT ![c] = [mem |-> "live", ses |-> s, fd |-> None]]
        /\ Enter(op, s, c, "connect", None)
        /\ UNCHANGED <<ses, fds, sock>>

sam3StreamForward(s) ==
  /\ Idle /\ "forward" \in Ops /\ Usable(s)
  /\ IF ses[s].style # "stream" \/ ses[s].fwd_fd # None
       THEN Refused("forward", s)
       ELSE /\ Enter("forward", s, "none", "connect", None)
            /\ UNCHANGED <<ses, conn, fds, sock>>

\* libsam3.h: on a struct that is not a session
Once(op, s) ==
  /\ Idle /\ op \in Ops \cap {"keyGen", "lookup"} /\ ses[s].mem # "live"
  /\ Enter(op, s, "none", "connect", None)
  /\ UNCHANGED <<ses, conn, fds, sock>>

sam3GenerateKeys(s) == Once("keyGen", s)

\* "rejected": without a name it returns -1 and leaves the struct alone
sam3NameLookup(s) ==
  \/ Once("lookup", s)
  \/ /\ Idle /\ "lookup" \in Ops /\ ses[s].mem # "live" /\ MayFail("badArg")
     /\ call' = [op |-> "lookup", s |-> s, c |-> "none", fd |-> None, at |-> "idle",
                 todo |-> <<>>, res |-> "rejected"]
     /\ UNCHANGED <<ses, conn, fds, sock>>

sam3DatagramReceive(s) ==
  /\ Idle /\ "receive" \in Ops /\ Usable(s)
  /\ IF ses[s].style = "stream"
       THEN Refused("receive", s)
       ELSE /\ Enter("receive", s, "none", "await", ses[s].fd)
            /\ UNCHANGED <<ses, conn, fds, sock>>

\* one UDP packet, through a socket of its own that is closed again
sam3DatagramSend(s) ==
  /\ Idle /\ "receive" \in Ops /\ Usable(s)
  /\ \E sent \in BOOLEAN :
       /\ sent => ses[s].style # "stream" /\ Free # {}
       /\ ~sent => \/ ses[s].style = "stream" \/ Free = {}
                   \/ MayFail("badArg") \/ MayFail("memory")
       /\ Error(s, ~sent)
       /\ call' = [op |-> "send", s |-> s, c |-> "none", fd |-> None,
                   at |-> "idle", todo |-> <<>>,
                   res |-> IF sent THEN "ok" ELSE "failed"]
  /\ UNCHANGED <<conn, fds, sock>>

-----------------------------------------------------------------------------
(* The steps of a call.                                                    *)

\* sam3tcpConnectIP: socket() fails when the table is full
Connect ==
  /\ call.at = "connect"
  /\ \/ (Free = {} \/ MayFail("refuse")) /\ Fail(sock)
     \/ /\ Free # {}
        /\ fds' = [fds EXCEPT ![LowestFree] = "lib"]
        /\ sock' = [sock EXCEPT ![LowestFree] = NewSocket]
        /\ call' = [call EXCEPT !.at = "send", !.fd = LowestFree]
        /\ UNCHANGED <<ses, conn>>

\* sam3tcpPrintf: the whole command goes out, or the socket is dead (a bridge
\* that has left still lets the first send() succeed); long commands need
\* memory.  sam3GenerateKeys notes the failure and goes on to read.
Send ==
  LET d == call.fd
      k == Head(call.todo)
      lost == sock[d].hang # "open"
                \/ (MayFail("memory") /\ k \in {"create", "nameRes", "forward"})
  IN /\ call.at = "send"
     /\ \/ /\ sock[d].hang # "rst"
           /\ call' = [call EXCEPT !.at = "await"]
           /\ sock' = IF sock[d].hang = "open"
                        THEN [sock EXCEPT ![d].req = k,
                                          ![d].style = ses[call.s].style]
                        ELSE sock
           /\ UNCHANGED <<ses, conn, fds>>
        \/ lost /\ k # "keyGen" /\ Fail(sock)
        \/ /\ lost /\ k = "keyGen"
           /\ Error(call.s, TRUE)
           /\ call' = [call EXCEPT !.at = "await"]
           /\ UNCHANGED <<conn, fds, sock>>

\* Where the socket is kept once the bridge has said hello.
Hold ==
  LET s == call.s
      c == call.c
  IN IF Head(call.todo) # "hello" \/ call.op \in {"keyGen", "lookup"}
       THEN UNCHANGED <<ses, conn>>
     ELSE IF call.op \in {"connect", "accept"}
       THEN conn' = [conn EXCEPT ![c].fd = call.fd] /\ UNCHANGED ses
     ELSE IF call.op = "forward"
       THEN ses' = [ses EXCEPT ![s].fwd_fd = call.fd] /\ UNCHANGED conn
     ELSE ses' = [ses EXCEPT ![s].fd = call.fd] /\ UNCHANGED conn

\* Mutants: a forward is linked as if it were a connection; an accept leaves
\* the message of an earlier failure.
SucceedLinks(s, left) ==
  /\ Return("ok") /\ UNCHANGED <<conn, fds>> /\ sock' = left
  /\ ses' = [ses EXCEPT ![s].connlist = IF call.op \in {"connect", "accept", "forward"}
                                          THEN <<call.c>> \o @ ELSE @]
SucceedKeepsError(s, left) ==
  /\ Return("ok") /\ UNCHANGED <<conn, fds>> /\ sock' = left
  /\ ses' = [ses EXCEPT ![s].connlist = IF call.op \in {"connect", "accept"}
                                          THEN <<call.c>> \o @ ELSE @]

\* The end of each function.
Succeed(s, left) ==
  /\ Return("ok")
  /\ UNCHANGED conn
  /\ IF call.op \in {"keyGen", "lookup"}
       THEN Close({call.fd}, left) ELSE sock' = left /\ UNCHANGED fds
  /\ \/ /\ call.op \in {"connect", "accept"}
        /\ ses' = [ses EXCEPT ![s].connlist = <<call.c>> \o @,
                              ![s].error = @ /\ call.op = "connect" /\ ses[s].silent]
     \/ call.op = "createSilent" /\ ses' = [ses EXCEPT ![s].silent = TRUE]
     \/ call.op \in {"forward", "lookup", "receive"} /\ Error(s, FALSE)
     \/ call.op \in {"keyGen", "createDgram", "createStream"} /\ UNCHANGED ses

\* In a silent session any reply that parses will do.
Accepted(r) ==
  \/ Good(r, Head(call.todo))
  \/ /\ call.op \in {"connect", "accept"} /\ ses[call.s].silent
     /\ Head(call.todo) \in {"connect", "accept"} /\ ~Unparsable(r)

\* sam3NameLookup and sam3DatagramReceive look into a field they take for
\* granted.
Fatal(r) == r.is = "bare" /\ r.to = Head(call.todo) /\ r.to \in {"nameRes", "dgram"}

\* The answer is the one that was hoped for: on with the script.
Advance(left) ==
  LET rest == Tail(call.todo)
  IN IF rest = <<>> THEN Succeed(call.s, left)
     ELSE /\ call' = [call EXCEPT !.todo = rest,
                                  !.at = IF Head(rest) \in Commands
                                           THEN "send" ELSE "await"]
          /\ Hold /\ sock' = left /\ UNCHANGED fds

\* sam3tcpReceiveStr: a cut line is taken piece by piece; at EOF inside a line
\* recv() returns 0 for ever, and the loop with it (libsam3.c:319-345).
Await ==
  LET d == call.fd
      in == sock[d].inbox
      left == [sock EXCEPT ![d].inbox = Tail(@)]
  IN /\ call.at = "await"
     /\ \/ /\ in # <<>> /\ Head(in) = Part
           /\ sock' = left /\ UNCHANGED <<ses, conn, call, fds>>
        \/ /\ in # <<>> /\ Head(in) # Part /\ Head(call.todo) # "payload"
           /\ \/ Accepted(Head(in)) /\ Advance(left)
              \/ Fatal(Head(in)) /\ Crash(left)
              \/ /\ ~Fatal(Head(in))
                 /\ ~Accepted(Head(in)) \/ (call.op = "receive" /\ MayFail("badArg"))
                 /\ Fail(left)
        \/ /\ in # <<>> /\ Head(call.todo) = "payload" /\ Advance(left)
        \/ in = <<>> /\ sock[d].hang = "rst" /\ Fail(sock)
        \/ in = <<>> /\ sock[d].hang = "fin" /\ Head(call.todo) = "payload" /\ Fail(sock)
        \/ in = <<>> /\ sock[d].hang = "fin" /\ Head(call.todo) # "payload" /\ UNCHANGED vars

-----------------------------------------------------------------------------
(* Functions without a dialogue, and the application's own reading.        *)

Closing(s) == call' = [op |-> "close", s |-> s, c |-> "none", fd |-> None,
                       at |-> "idle", todo |-> <<>>, res |-> "ok"]

\* not on a struct that is closed already: fwd_fd is 0 in it, and would be
\* closed
sam3CloseSession(s) == /\ Idle /\ ses[s].mem = "live"
                       /\ Release(s) /\ Closing(s)

\* Mutant: the connection is freed, and still in the list.
sam3CloseConnectionLinked(c) ==
  /\ Idle /\ conn[c].mem = "live"
  /\ Close({conn[c].fd}, sock) /\ FreeConns({c}) /\ UNCHANGED ses
  /\ Closing(conn[c].ses)

\* a list without c; where in it c stands makes no difference to the others
Unlink(list, c) ==
  LET i == CHOOSE n \in DOMAIN list : list[n] = c
  IN SubSeq(list, 1, i - 1) \o SubSeq(list, i + 1, Len(list))

sam3CloseConnection(c) ==
  LET s == conn[c].ses
  IN /\ Idle /\ conn[c].mem = "live"
     /\ Close({conn[c].fd}, sock) /\ FreeConns({c})
     /\ ses' = [ses EXCEPT ![s].connlist = Unlink(@, c)]
     /\ Closing(s)

\* sam3tcpReceive on a connection
AppReceive(c) ==
  LET d == conn[c].fd
  IN /\ Idle /\ conn[c].mem = "live" /\ sock[d].inbox # <<>>
     /\ sock' = [sock EXCEPT ![d].inbox = Tail(@)]
     /\ UNCHANGED <<ses, conn, call, fds>>

-----------------------------------------------------------------------------
(* The bridge.                                                             *)

Open(d) == fds[d] = "lib" /\ sock[d].hang = "open"

BridgeChanges(d, k) == /\ sock' = [sock EXCEPT ![d] = k]
                       /\ UNCHANGED <<ses, conn, call, fds>>

\* NextRequest, and a session that is not of style STREAM gets datagrams
AfterReply(k, r) ==
  IF r = [to |-> "nameMe", is |-> "ok"] /\ k.style # "stream"
    THEN "dgram" ELSE NextRequest(k.req, r)

Answer(d) ==
  /\ Open(d) /\ sock[d].req \in Commands
  /\ \E r \in Replies(sock[d].req) :
       BridgeChanges(d, [sock[d] EXCEPT !.req = AfterReply(sock[d], r),
                                        !.half = FALSE,
                                        !.inbox = Append(@, r)])

AnswerPart(d) ==
  /\ MayFail("part")
  /\ Open(d) /\ sock[d].req \in Commands /\ ~sock[d].half
  /\ BridgeChanges(d, [sock[d] EXCEPT !.half = TRUE, !.inbox = Append(@, Part)])

PeerArrives(d) ==
  /\ Open(d) /\ sock[d].req = "peer"
  /\ \E is \in {"ok"} \cup (IF MayFail("garbage") THEN {"bad"} ELSE {}) :
       BridgeChanges(d, [sock[d] EXCEPT
                           !.req = "stream",
                           !.inbox = Append(@, [to |-> "acceptA", is |-> is])])

SendData(d) ==
  /\ Open(d) /\ sock[d].req = "stream" /\ Len(sock[d].inbox) < MaxIn
  /\ BridgeChanges(d, [sock[d] EXCEPT !.inbox = Append(@, Data)])

\* a header line and the payload
SendDatagram(d) ==
  /\ Open(d) /\ Len(sock[d].inbox) < MaxIn
  /\ \/ sock[d].req = "dgram"
     \/ MayFail("early") /\ sock[d].req = "nameMe" /\ sock[d].style # "stream"
  /\ \E is \in {"ok"} \cup (IF MayFail("badReply") THEN {"bad"} ELSE {})
                    \cup (IF MayFail("bare") THEN {"bare"} ELSE {}) :
       BridgeChanges(d, [sock[d] EXCEPT
                           !.inbox = @ \o <<[to |-> "dgram", is |-> is], Data>>])

Hangup(d) ==
  /\ Open(d)
  /\ \E h \in (IF MayFail("hangup") THEN {"fin"} ELSE {})
              \cup (IF MayFail("reset") THEN {"rst"} ELSE {}) :
       BridgeChanges(d, [sock[d] EXCEPT !.hang = h])

-----------------------------------------------------------------------------
Calls == \E s \in Sessions :
           \/ \E op \in AllOps : sam3CreateSession(op, s)
           \/ \E c \in Conns, op \in AllOps : OpenConnection(op, s, c)
           \/ sam3StreamForward(s) \/ sam3GenerateKeys(s) \/ sam3NameLookup(s)
           \/ sam3DatagramReceive(s) \/ sam3DatagramSend(s)
           \/ sam3CloseSession(s)

ConnCalls == \E c \in Conns : sam3CloseConnection(c) \/ AppReceive(c)

CallStep == Connect \/ Send \/ Await

Bridge == \E d \in Fds : \/ Answer(d) \/ AnswerPart(d) \/ PeerArrives(d)
                         \/ SendData(d) \/ SendDatagram(d) \/ Hangup(d)

Crashed == call.at = "crashed" /\ UNCHANGED vars

Next == Calls \/ ConnCalls \/ CallStep \/ Bridge \/ Crashed

Spec == Init /\ [][Next]_vars

\* The library runs on, and the bridge answers.
FairSpec == Spec /\ WF_vars(CallStep) /\ \A d \in Fds : WF_vars(Answer(d))
=============================================================================
