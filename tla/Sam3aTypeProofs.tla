-------------------------- MODULE Sam3aTypeProofs --------------------------
(***************************************************************************)
(* Proofs about the asynchronous library, for any number of connections,   *)
(* any faults, any bounds and any functions called by the application: the *)
(* types, with the modes a struct can be in; and from the modes, that each *)
(* struct is in step with its socket.                                      *)
(***************************************************************************)
EXTENDS Sam3aProperties, SequenceTheorems, TLAPS

-----------------------------------------------------------------------------
(* The invariant.  TypeOK is not inductive: a sender puts its checker into *)
(* the socket as the command it has sent, and that is a command only       *)
(* because the processors, the checker and the buffer of a struct change   *)
(* together.  A struct is in one of five modes.                            *)

IsIdle(s)       == /\ s.procR = "null" /\ s.procW = "null" /\ s.out = 0
IsConnecting(s) == /\ s.procR = "null" /\ s.procW = "connected"
                   /\ s.out = 0 /\ ~s.callDisc
IsSending(s)    == /\ s.procR = "null" /\ s.procW = "cmdSender"
                   /\ s.check \in Commands /\ s.aio = "cmd"
                   /\ s.out = 0 /\ ~s.callDisc
IsAwaiting(s)   == /\ s.procR = "replyReader" /\ s.procW = "null"
                   /\ s.aio \in {"fresh", "partial", "full"}
                   /\ s.out = 0 /\ ~s.callDisc
IsStreaming(s)  == /\ s.procR = "dataReader" /\ s.procW = "dataWriter"
                   /\ s.aio = "stream" /\ s.callDisc

SoundStruct == {s \in Struct : \/ IsIdle(s) \/ IsConnecting(s) \/ IsSending(s)
                               \/ IsAwaiting(s) \/ IsStreaming(s)}

TInv == TypeOK /\ obj \in [Obj -> SoundStruct]

-----------------------------------------------------------------------------
(* Types of the operators the steps are made of.                           *)

\* A frame of a known function is a frame (the call stack of libsam3a.c).
LEMMA FrameType ==
  ASSUME NEW pc \in Pcs, NEW o \in Obj
  PROVE  F(pc, o) \in Frame
BY DEF F, Frame

\* sesError and connError run two known functions.
LEMMA ErrorFramesType ==
  ASSUME NEW o \in Obj
  PROVE  ErrorFrames(o) \in Seq(Frame)
<1>1. F("cbError", o) \in Frame
  BY FrameType DEF Pcs, Callbacks
<1>2. F(IF o = Ses THEN "sesDisconnect" ELSE "connDisconnect", o) \in Frame
  BY FrameType DEF Pcs
<1> QED BY <1>1, <1>2 DEF ErrorFrames

\* The history of an object stays a sequence of events when a callback is
\* pushed.
LEMMA ToldType ==
  ASSUME TypeOK, NEW fs \in Seq(Frame)
  PROVE  Told(fs) \in [Obj -> Seq(Events)]
<1>1. CASE fs # <<>> /\ Head(fs).pc \in Callbacks
  <2>1. Head(fs).o \in Obj /\ Event[Head(fs).pc] \in Events
    <3>1. Head(fs) \in Frame
      BY <1>1
    <3> QED BY <3>1, <1>1 DEF Frame, Event, Events, Callbacks
  <2>2. told[Head(fs).o] \in Seq(Events)
    BY <2>1 DEF TypeOK
  <2>3. Record(told[Head(fs).o], Event[Head(fs).pc]) \in Seq(Events)
    BY <2>1, <2>2 DEF Record
  <2> QED BY <1>1, <2>1, <2>3 DEF Told, TypeOK
<1>2. CASE ~(fs # <<>> /\ Head(fs).pc \in Callbacks)
  BY <1>2 DEF Told, TypeOK
<1> QED BY <1>1, <1>2

\* What Run changes, with its types.
RunTyped == /\ obj' \in [Obj -> SoundStruct]
            /\ stack' \in Seq(Frame)
            /\ told' \in [Obj -> Seq(Events)]

\* The step that every library function is made of keeps the types of what
\* it changes.
LEMMA RunType ==
  ASSUME TInv, stack # <<>>,
         NEW o \in Obj, NEW s \in SoundStruct, NEW fs \in Seq(Frame),
         Run(o, s, fs)
  PROVE  RunTyped
<1>1. obj' \in [Obj -> SoundStruct]
  BY DEF Run, TInv
<1>2. Tail(stack) \in Seq(Frame)
  BY DEF TInv, TypeOK
<1>3. stack' \in Seq(Frame)
  BY <1>2 DEF Run
<1>4. told' \in [Obj -> Seq(Events)]
  BY ToldType DEF Run, TInv
<1> QED BY <1>1, <1>3, <1>4 DEF RunTyped

\* A call from the application keeps them too.
LEMMA CallType ==
  ASSUME TypeOK, NEW fs \in Seq(Frame), Call(fs)
  PROVE  stack' \in Seq(Frame) /\ told' \in [Obj -> Seq(Events)]
<1>1. stack' \in Seq(Frame)
  BY DEF Call, TypeOK
<1>2. told' \in [Obj -> Seq(Events)]
  BY ToldType DEF Call
<1> QED BY <1>1, <1>2

\* sesError and connError as the end of a handler.
LEMMA FailType ==
  ASSUME TInv, stack # <<>>, NEW o \in Obj, NEW s \in SoundStruct, Fail(o, s)
  PROVE  RunTyped
BY ErrorFramesType, RunType DEF Fail

-----------------------------------------------------------------------------
(* What the named changes of a struct do.  The SMT backend knows EXCEPT on *)
(* functions only: each proof first writes the field names as strings.     *)

\* A struct that memset has cleared, one never used, and one that connects.
LEMMA NewStructs ==
  /\ Zeroed \in SoundStruct /\ Unused \in SoundStruct
  /\ \A k \in Kinds : Connecting(k) \in SoundStruct
<1> USE ConstantsAssumption DEF Struct, Kinds, Readers, Writers, Checks, Buffers
<1>1. Zeroed \in Struct /\ IsIdle(Zeroed)
  BY DEF Zeroed, IsIdle
<1>2. Unused = [Zeroed EXCEPT !["mem"] = "none", !["fd"] = "none"]
  BY Zenon DEF Unused
<1>3. Unused \in Struct /\ IsIdle(Unused)
  BY <1>1, <1>2 DEF IsIdle
<1>4. ASSUME NEW k \in Kinds
      PROVE  Connecting(k) \in Struct /\ IsConnecting(Connecting(k))
  <2>1. Connecting(k) = [Zeroed EXCEPT !["mem"] = "live", !["kind"] = k,
                                       !["fd"] = "own", !["procW"] = "connected"]
    BY Zenon DEF Connecting
  <2> QED BY <1>1, <2>1, ZenonT(60) DEF Zeroed, IsConnecting
<1> QED BY <1>1, <1>3, <1>4 DEF SoundStruct

\* The changes of the handlers keep a struct a struct, and each puts it into
\* its mode.
LEMMA ChangedStructs ==
  ASSUME NEW s \in SoundStruct
  PROVE  /\ s.procR = "replyReader" =>
              /\ Idle(s) \in SoundStruct /\ IsIdle(Idle(s)) /\ ~Idle(s).callDisc
              /\ \A b \in {"fresh", "partial", "full"} :
                   /\ Buffer(s, b) \in SoundStruct
                   /\ IsAwaiting(Buffer(s, b))
                   /\ Buffer(s, b).check = s.check
              /\ Created(s) \in SoundStruct
              /\ Streaming(s) \in SoundStruct
         /\ \A n \in 0..MaxOut : s.procW = "dataWriter" => Queue(s, n) \in SoundStruct
         /\ Quiet(s) \in SoundStruct
         /\ Cancelled(Quiet(s)) \in SoundStruct
         /\ ~s.callDisc /\ s.out = 0 =>
              /\ \A k \in Commands \cap Checks : SendingCommand(s, k) \in SoundStruct
              /\ \A k \in Checks : AwaitingLine(s, k) \in SoundStruct
<1> USE ConstantsAssumption DEF Struct, Kinds, Readers, Writers, Checks, Buffers
<1>0. s \in Struct
  BY DEF SoundStruct
<1>1. ASSUME s.procR = "replyReader"
      PROVE  IsAwaiting(s)
  BY <1>1 DEF SoundStruct, IsIdle, IsConnecting, IsSending, IsAwaiting, IsStreaming
<1>2. ASSUME s.procR = "replyReader"
      PROVE  Idle(s) \in Struct /\ IsIdle(Idle(s)) /\ ~Idle(s).callDisc
  <2>1. Idle(s) = [s EXCEPT !["procR"] = "null", !["procW"] = "null"]
    BY Zenon DEF Idle
  <2> QED BY <2>1, <1>0, <1>1, <1>2 DEF IsIdle, IsAwaiting
<1>3. ASSUME s.procR = "replyReader", NEW b \in {"fresh", "partial", "full"}
      PROVE  Buffer(s, b) \in Struct /\ IsAwaiting(Buffer(s, b)) /\ Buffer(s, b).check = s.check
  <2>1. Buffer(s, b) = [s EXCEPT !["aio"] = b]
    BY Zenon DEF Buffer
  <2> QED BY <2>1, <1>0, <1>1, <1>3 DEF IsAwaiting
<1>4. ASSUME s.procR = "replyReader"
      PROVE  Created(s) \in Struct /\ IsIdle(Created(s))
  <2>1. Created(s) = [s EXCEPT !["procR"] = "null", !["procW"] = "null",
                               !["callDisc"] = TRUE]
    BY Zenon DEF Created
  <2> QED BY <2>1, <1>0, <1>1, <1>4 DEF IsIdle, IsAwaiting
<1>5. Streaming(s) \in Struct /\ IsStreaming(Streaming(s))
  <2> DEFINE t == [s EXCEPT !["procR"] = "dataReader",
                            !["procW"] = "dataWriter",
                            !["callDisc"] = TRUE]
  <2>1. t \in Struct /\ t.procR = "dataReader" /\ t.procW = "dataWriter" /\ t.callDisc
    BY <1>0
  <2>2. \A u \in Struct : u.procR = "dataReader" /\ u.procW = "dataWriter" /\ u.callDisc =>
          [u EXCEPT !["aio"] = "stream"] \in Struct /\ IsStreaming([u EXCEPT !["aio"] = "stream"])
    BY DEF IsStreaming
  <2>3. Streaming(s) = [t EXCEPT !["aio"] = "stream"]
    BY Zenon DEF Streaming
  <2> HIDE DEF t, Struct
  <2> QED BY <2>1, <2>2, <2>3
<1>6. ASSUME NEW n \in 0..MaxOut, s.procW = "dataWriter"
      PROVE  Queue(s, n) \in Struct /\ IsStreaming(Queue(s, n))
  <2>1. Queue(s, n) = [s EXCEPT !["out"] = n]
    BY Zenon DEF Queue
  <2>2. IsStreaming(s)
    BY <1>6 DEF SoundStruct, IsIdle, IsConnecting, IsSending, IsAwaiting, IsStreaming
  <2> QED BY <2>1, <2>2, <1>0 DEF IsStreaming
<1>7. Quiet(s) \in Struct /\ IsIdle(Quiet(s))
  <2>1. Quiet(s) = [s EXCEPT !["procR"] = "null", !["procW"] = "null",
                             !["aio"] = "null", !["check"] = "null",
                             !["out"] = 0]
    BY Zenon DEF Quiet
  <2> QED BY <2>1, <1>0 DEF IsIdle
<1>8. Cancelled(Quiet(s)) \in Struct /\ IsIdle(Cancelled(Quiet(s)))
  <2>1. \A u : Cancelled(u) = [u EXCEPT !["cancelled"] = TRUE]
    BY Zenon DEF Cancelled
  <2> QED BY <2>1, <1>7 DEF IsIdle
<1>9. ASSUME ~s.callDisc, s.out = 0, NEW k \in Commands \cap Checks
      PROVE  SendingCommand(s, k) \in Struct /\ IsSending(SendingCommand(s, k))
  <2>1. SendingCommand(s, k) = [s EXCEPT !["procR"] = "null",
                                         !["procW"] = "cmdSender",
                                         !["check"] = k, !["aio"] = "cmd"]
    BY Zenon DEF SendingCommand
  <2> QED BY <2>1, <1>0, <1>9 DEF IsSending
<1>10. ASSUME ~s.callDisc, s.out = 0, NEW k \in Checks
       PROVE  AwaitingLine(s, k) \in Struct /\ IsAwaiting(AwaitingLine(s, k))
  <2>1. AwaitingLine(s, k) = [s EXCEPT !["procR"] = "replyReader",
                                       !["procW"] = "null",
                                       !["check"] = k, !["aio"] = "fresh"]
    BY Zenon DEF AwaitingLine
  <2> QED BY <2>1, <1>0, <1>10 DEF IsAwaiting
<1> USE DEF SoundStruct
<1> QED BY <1>2, <1>3, <1>4, <1>5, <1>6, <1>7, <1>8, <1>9, <1>10

\* aio*SendCmdWaitReply installs the sender or fails.
LEMMA SendType ==
  ASSUME TInv, stack # <<>>, NEW o \in Obj, NEW s \in SoundStruct,
         ~s.callDisc, s.out = 0,
         NEW check \in Commands \cap Checks, SendCmdWaitReply(o, s, check)
  PROVE  RunTyped
<1>1. CASE Run(o, SendingCommand(s, check), <<>>)
  <2>1. SendingCommand(s, check) \in SoundStruct
    BY ChangedStructs
  <2>2. <<>> \in Seq(Frame)
    OBVIOUS
  <2> QED BY <1>1, <2>1, <2>2, RunType
<1>2. CASE Fail(o, s)
  BY <1>2, FailType
<1> QED BY <1>1, <1>2 DEF SendCmdWaitReply

\* One, two and three frames make a piece of a call stack.
LEMMA FramesType ==
  ASSUME NEW o \in Obj
  PROVE  /\ <<>> \in Seq(Frame)
         /\ \A p \in Pcs : <<F(p, o)>> \in Seq(Frame)
         /\ \A p, q \in Pcs : <<F(p, o), F(q, o)>> \in Seq(Frame)
         /\ \A p, q, r \in Pcs : <<F(p, o), F(q, o), F(r, o)>> \in Seq(Frame)
BY FrameType

-----------------------------------------------------------------------------
(* connlist and the sockets.                                               *)

\* A place in connlist is a number, and what stands there is a connection.
LEMMA PosType ==
  ASSUME TypeOK, NEW o \in Obj
  PROVE  /\ Pos(o) \in 0..Len(connlist)
         /\ HasNext(o) => Successor(o) \in Conns
         /\ o # Ses /\ Listed(o) => Pos(o) \in 1..Len(connlist)
                                    /\ connlist[Pos(o)] = o
<1>1. Len(connlist) \in Nat /\ DOMAIN connlist = 1..Len(connlist)
  BY DEF TypeOK
<1>2. o # Ses /\ Listed(o) => Pos(o) \in DOMAIN connlist /\ connlist[Pos(o)] = o
  <2> SUFFICES ASSUME o # Ses, Listed(o)
               PROVE  Pos(o) \in DOMAIN connlist /\ connlist[Pos(o)] = o
    OBVIOUS
  <2>1. \E i \in DOMAIN connlist : connlist[i] = o
    BY DEF Listed
  <2>2. Pos(o) = CHOOSE i \in DOMAIN connlist : connlist[i] = o
    BY DEF Pos
  <2> QED BY <2>1, <2>2
<1>3. Pos(o) \in 0..Len(connlist)
  <2>1. CASE o = Ses
    BY <2>1, <1>1 DEF Pos
  <2>2. CASE o # Ses /\ Listed(o)
    BY <2>2, <1>1, <1>2
  <2>3. CASE o # Ses /\ ~Listed(o)
    BY <2>3, <1>1 DEF Pos
  <2> QED BY <2>1, <2>2, <2>3
<1>4. HasNext(o) => Successor(o) \in Conns
  BY <1>1, <1>3 DEF HasNext, Successor, TypeOK
<1> QED BY <1>1, <1>2, <1>3, <1>4

\* Unlinking leaves a list of connections.
LEMMA UnlinkType ==
  ASSUME TypeOK, NEW c \in Conns
  PROVE  Unlink(c) \in Seq(Conns)
<1>1. Pos(c) \in 0..Len(connlist) /\ Len(connlist) \in Nat
  BY PosType DEF TypeOK, Obj
<1>2. c # Ses
  BY ConstantsAssumption
<1>3. ASSUME Listed(c)
      PROVE  Unlink(c) \in Seq(Conns)
  <2>1. Pos(c) \in 1..Len(connlist)
    BY <1>2, <1>3, PosType DEF Obj
  <2>2. SubSeq(connlist, 1, Pos(c) - 1) \in Seq(Conns)
    BY <2>1, <1>1, SubSeqProperties DEF TypeOK
  <2>3. SubSeq(connlist, Pos(c) + 1, Len(connlist)) \in Seq(Conns)
    BY <2>1, <1>1, SubSeqProperties DEF TypeOK
  <2> QED BY <1>3, <2>2, <2>3 DEF Unlink
<1>4. ASSUME ~Listed(c)
      PROVE  Unlink(c) \in Seq(Conns)
  BY <1>4 DEF Unlink, TypeOK
<1> QED BY <1>3, <1>4

\* The changes of a socket keep it a socket.
LEMMA ChangedSockets ==
  ASSUME NEW n \in Socket
  PROVE  /\ NoSocket \in Socket /\ NewSocket \in Socket
         /\ \A l \in {"connecting", "up", "refused"} :
              [n EXCEPT !.link = l] \in Socket
         /\ \A q \in {"none", "peer", "stream"} \cup Commands, in \in Seq(Item) :
              [n EXCEPT !.req = q, !.half = FALSE, !.inbox = in] \in Socket
         /\ \A in \in Seq(Item) :
              [n EXCEPT !.half = TRUE, !.inbox = in] \in Socket
         /\ \A in \in Seq(Item) : [n EXCEPT !.inbox = in] \in Socket
         /\ \A q \in Commands : [n EXCEPT !.req = q] \in Socket
         /\ \A h \in {"fin", "rst"} : [n EXCEPT !.hang = h] \in Socket
<1> USE DEF Socket
<1>1. NoSocket \in Socket
  BY DEF NoSocket
<1>2. NewSocket \in Socket
  <2>1. NewSocket = [NoSocket EXCEPT !["link"] = "connecting"]
    BY Zenon DEF NewSocket
  <2> QED BY <1>1, <2>1
<1>3. ASSUME NEW l \in {"connecting", "up", "refused"}
      PROVE  [n EXCEPT !.link = l] \in Socket
  <2>1. [n EXCEPT !.link = l] = [n EXCEPT !["link"] = l]
    BY Zenon
  <2>2. [n EXCEPT !["link"] = l] \in Socket
    OBVIOUS
  <2> QED BY <2>1, <2>2, Zenon
<1>4. ASSUME NEW q \in {"none", "peer", "stream"} \cup Commands, NEW in \in Seq(Item)
      PROVE  [n EXCEPT !.req = q, !.half = FALSE, !.inbox = in] \in Socket
  <2>1. [n EXCEPT !.req = q, !.half = FALSE, !.inbox = in]
          = [n EXCEPT !["req"] = q, !["half"] = FALSE, !["inbox"] = in]
    BY Zenon
  <2>2. [n EXCEPT !["req"] = q, !["half"] = FALSE, !["inbox"] = in] \in Socket
    OBVIOUS
  <2> QED BY <2>1, <2>2, Zenon
<1>5. ASSUME NEW in \in Seq(Item)
      PROVE  [n EXCEPT !.half = TRUE, !.inbox = in] \in Socket
  <2>1. [n EXCEPT !.half = TRUE, !.inbox = in]
          = [n EXCEPT !["half"] = TRUE, !["inbox"] = in]
    BY Zenon
  <2>2. [n EXCEPT !["half"] = TRUE, !["inbox"] = in] \in Socket
    OBVIOUS
  <2> QED BY <2>1, <2>2, Zenon
<1>6. ASSUME NEW in \in Seq(Item)
      PROVE  [n EXCEPT !.inbox = in] \in Socket
  <2>1. [n EXCEPT !.inbox = in] = [n EXCEPT !["inbox"] = in]
    BY Zenon
  <2>2. [n EXCEPT !["inbox"] = in] \in Socket
    OBVIOUS
  <2> QED BY <2>1, <2>2, Zenon
<1>7. ASSUME NEW q \in Commands
      PROVE  [n EXCEPT !.req = q] \in Socket
  <2>1. [n EXCEPT !.req = q] = [n EXCEPT !["req"] = q]
    BY Zenon
  <2>2. [n EXCEPT !["req"] = q] \in Socket
    OBVIOUS
  <2> QED BY <2>1, <2>2, Zenon
<1>8. ASSUME NEW h \in {"fin", "rst"}
      PROVE  [n EXCEPT !.hang = h] \in Socket
  <2>1. [n EXCEPT !.hang = h] = [n EXCEPT !["hang"] = h]
    BY Zenon
  <2>2. [n EXCEPT !["hang"] = h] \in Socket
    OBVIOUS
  <2> QED BY <2>1, <2>2, Zenon
<1> QED BY <1>1, <1>2, <1>3, <1>4, <1>5, <1>6, <1>7, <1>8, Zenon

\* A socket in place of another.
LEMMA SocketSet ==
  ASSUME TInv, NEW o \in Obj
  PROVE  /\ \A n \in Socket : [net EXCEPT ![o] = n] \in [Obj -> Socket]
         /\ \A in \in Seq(Item) : [net EXCEPT ![o].inbox = in] \in [Obj -> Socket]
         /\ \A q \in Commands : [net EXCEPT ![o].req = q] \in [Obj -> Socket]
<1>1. \A n \in Socket : [net EXCEPT ![o] = n] \in [Obj -> Socket]
  BY DEF TInv, TypeOK
<1>2. net[o] \in Socket
  BY DEF TInv, TypeOK
<1>3. ASSUME NEW in \in Seq(Item)
      PROVE  [net EXCEPT ![o].inbox = in] \in [Obj -> Socket]
  <2>1. [net EXCEPT ![o].inbox = in] = [net EXCEPT ![o] = [net[o] EXCEPT !.inbox = in]]
    BY Zenon
  <2>2. [net[o] EXCEPT !.inbox = in] \in Socket
    BY <1>2, ChangedSockets, Zenon
  <2> QED BY <2>1, <2>2, <1>1, Zenon
<1>4. ASSUME NEW q \in Commands
      PROVE  [net EXCEPT ![o].req = q] \in [Obj -> Socket]
  <2>1. [net EXCEPT ![o].req = q] = [net EXCEPT ![o] = [net[o] EXCEPT !.req = q]]
    BY Zenon
  <2>2. [net[o] EXCEPT !.req = q] \in Socket
    BY <1>2, ChangedSockets, Zenon
  <2> QED BY <2>1, <2>2, <1>1, Zenon
<1> QED BY <1>1, <1>3, <1>4

\* What aioLineReader leaves in the socket is what came last.
LEMMA UnreadType ==
  ASSUME TInv, NEW o \in Obj
  PROVE  Unread(o) \in Seq(Item)
<1> DEFINE in == net[o].inbox
<1>1. in \in Seq(Item)
  BY DEF TInv, TypeOK, Socket
<1>2. ASSUME in # <<>>
      PROVE  Tail(Whole(in)) \in Seq(Item)
  <2>1. CASE Len(in) > 1 /\ Head(in) = Part
    <3>1. Whole(in) = Tail(in)
      BY <2>1 DEF Whole
    <3> HIDE DEF in
    <3>2. Tail(in) \in Seq(Item) /\ Len(Tail(in)) = Len(in) - 1
      BY <1>1, <1>2, HeadTailProperties
    <3>3. Len(in) > 1 /\ Len(in) \in Nat
      BY <1>1, <2>1, LenProperties
    <3>4. Len(Tail(in)) # 0
      BY <3>2, <3>3
    <3>5. Tail(in) # <<>>
      BY <3>4, <3>2, EmptySeq
    <3> QED BY <3>1, <3>2, <3>5
  <2>2. CASE ~(Len(in) > 1 /\ Head(in) = Part)
    <3>1. Whole(in) = in
      BY <2>2 DEF Whole
    <3> QED BY <3>1, <1>1, <1>2
  <2> QED BY <2>1, <2>2
<1> QED BY <1>1, <1>2 DEF Unread

-----------------------------------------------------------------------------
(* The steps.                                                              *)

\* The structs begin idle.
LEMMA InitType == Init => TInv
<1> SUFFICES ASSUME Init PROVE TInv
  OBVIOUS
<1>1. obj \in [Obj -> SoundStruct]
  BY NewStructs DEF Init
<1>2. obj \in [Obj -> Struct]
  BY <1>1 DEF SoundStruct
<1>3. desc \in [Descriptors -> DescState]
  BY DEF Init, DescState
<1>4. net \in [Obj -> Socket]
  <2>1. NoSocket \in Socket
    BY DEF NoSocket, Socket
  <2> QED BY <2>1 DEF Init
<1> QED BY <1>1, <1>2, <1>3, <1>4 DEF Init, TInv, TypeOK

\* A step of a handler: sockets and structs change, the rest does not.
LEMMA RestType ==
  ASSUME TInv, Rest, RunTyped, net' \in [Obj -> Socket]
  PROVE  TInv'
<1>1. obj' \in [Obj -> Struct]
  BY DEF RunTyped, SoundStruct
<1> QED BY <1>1 DEF TInv, TypeOK, RunTyped, Rest

\* shutdown() of a descriptor the library knows.
LEMMA ShutdownType ==
  ASSUME TInv, NEW o \in Obj, Shutdown(o, obj[o])
  PROVE  desc' \in [Descriptors -> DescState] /\ net' \in [Obj -> Socket]
<1>1. NoSocket \in Socket
  BY DEF NoSocket, Socket
<1>2. net' \in [Obj -> Socket]
  BY <1>1, SocketSet DEF Shutdown
<1>3. (IF obj[o].fd = "zero" THEN Foreign ELSE o) \in Descriptors /\ "shut" \in DescState
  BY DEF Descriptors, DescState
<1>4. desc' \in [Descriptors -> DescState]
  BY <1>3 DEF Shutdown, TInv, TypeOK
<1> QED BY <1>2, <1>4

\* connDisconnect and sesDisconnect, active or not.
LEMMA DisconnectType ==
  ASSUME TInv, stack # <<>>, NEW o \in Obj, NEW fs \in Seq(Frame),
         \/ Shutdown(o, obj[o]) /\ Run(o, Cancelled(Quiet(obj[o])), fs)
         \/ UNCHANGED <<desc, net>> /\ Run(o, Quiet(obj[o]), fs),
         UNCHANGED <<connlist, rds, wrs>>
  PROVE  TInv'
<1>0. obj[o] \in SoundStruct
  BY DEF TInv
<1>1. Quiet(obj[o]) \in SoundStruct /\ Cancelled(Quiet(obj[o])) \in SoundStruct
  BY <1>0, ChangedStructs
<1>2. RunTyped
  BY <1>1, RunType
<1>3. desc' \in [Descriptors -> DescState] /\ net' \in [Obj -> Socket]
  BY ShutdownType DEF TInv, TypeOK
<1>4. obj' \in [Obj -> Struct]
  BY <1>2 DEF RunTyped, SoundStruct
<1> QED BY <1>2, <1>3, <1>4 DEF TInv, TypeOK, RunTyped

\* A step that runs other functions and changes neither structs nor sockets.
LEMMA RunOnType ==
  ASSUME TInv, stack # <<>>, NEW o \in Obj, NEW fs \in Seq(Frame),
         Run(o, obj[o], fs), UNCHANGED <<connlist, desc, net>>,
         rds' \subseteq Obj, wrs' \subseteq Obj
  PROVE  TInv'
<1>1. RunTyped
  BY RunType DEF TInv
<1>2. obj' \in [Obj -> Struct]
  BY <1>1 DEF RunTyped, SoundStruct
<1> QED BY <1>1, <1>2 DEF TInv, TypeOK, RunTyped

\* A call of the application that only enters a function.
LEMMA ApiCallType ==
  ASSUME TInv, NEW fs \in Seq(Frame), ApiCall(fs)
  PROVE  TInv'
<1>1. stack' \in Seq(Frame) /\ told' \in [Obj -> Seq(Events)]
  BY CallType DEF ApiCall, TInv
<1> QED BY <1>1 DEF ApiCall, TInv, TypeOK

\* A step of the bridge.
LEMMA BridgeChangesType ==
  ASSUME TInv, NEW o \in Obj, NEW s \in Socket, BridgeChanges(o, s)
  PROVE  TInv'
<1>1. net' \in [Obj -> Socket]
  BY SocketSet DEF BridgeChanges
<1> QED BY <1>1 DEF BridgeChanges, TInv, TypeOK

-----------------------------------------------------------------------------
(* Teardown.                                                               *)

\* Disconnecting, freeing and reporting an error leave sound structs.
LEMMA TeardownType == TInv /\ Teardown => TInv'
<1> SUFFICES ASSUME TInv, Teardown PROVE TInv'
  OBVIOUS
<1> USE DEF At
<1>0. Ses \in Obj /\ Conns \subseteq Obj
  BY DEF Obj
<1>1. CASE sesDisconnect
  <2>1. <<F("cascade", Ses)>> \in Seq(Frame) /\ <<>> \in Seq(Frame)
    BY <1>0, FramesType DEF Pcs
  <2> QED BY <1>0, <1>1, <2>1, DisconnectType DEF sesDisconnect
<1>2. CASE closeSession
  <2>1. <<F("freeSession", Ses)>> \in Seq(Frame)
        /\ <<F("closeSession", Ses)>> \in Seq(Frame)
        /\ <<F("cbDestroy", Ses), F("freeSession", Ses)>> \in Seq(Frame)
    BY <1>0, FramesType DEF Pcs, Callbacks
  <2>2. connlist # <<>> => Head(connlist) \in Conns
    BY DEF TInv, TypeOK
  <2>3. connlist # <<>> =>
          CloseConnFrames(Head(connlist)) \o <<F("closeSession", Ses)>> \in Seq(Frame)
    <3>1. connlist # <<>> => CloseConnFrames(Head(connlist)) \in Seq(Frame)
      BY <1>0, <2>2, FramesType DEF CloseConnFrames, Pcs
    <3> QED BY <3>1, <2>1
  <2> QED BY <1>0, <1>2, <2>1, <2>3, RunOnType DEF closeSession, TInv, TypeOK
<1>3. CASE freeSession
  <2>1. RunTyped
    BY <1>0, <1>3, NewStructs, FramesType, RunType DEF freeSession
  <2>2. obj' \in [Obj -> Struct]
    BY <2>1 DEF RunTyped, SoundStruct
  <2> QED BY <1>3, <2>1, <2>2 DEF freeSession, RunTyped, TInv, TypeOK
<1>4. ASSUME NEW o \in Obj, sesDisconnectLoop(o)
      PROVE  TInv'
  <2>1. \A c \in Conns : <<F("connDisconnect", c), F("cascade", c)>> \in Seq(Frame)
    BY <1>0, FramesType DEF Pcs
  <2>2. <<F("cbDisconnected", Ses)>> \in Seq(Frame) /\ <<>> \in Seq(Frame)
    BY <1>0, FramesType DEF Pcs, Callbacks
  <2>3. HasNext(o) => Successor(o) \in Conns
    BY PosType DEF TInv
  <2> QED BY <1>0, <1>4, <2>1, <2>2, <2>3, RunOnType
          DEF sesDisconnectLoop, TInv, TypeOK
<1>5. ASSUME NEW c \in Conns, connDisconnect(c)
      PROVE  TInv'
  <2>1. <<F("cbDisconnected", c)>> \in Seq(Frame) /\ <<>> \in Seq(Frame)
    BY <1>0, FramesType DEF Pcs, Callbacks
  <2> QED BY <1>0, <1>5, <2>1, DisconnectType DEF connDisconnect
<1>6. ASSUME NEW c \in Conns, destroyConn(c)
      PROVE  TInv'
  <2>1. <<F("cbDestroy", c), F("freeConn", c)>> \in Seq(Frame)
    BY <1>0, FramesType DEF Pcs, Callbacks
  <2> QED BY <1>0, <1>6, <2>1, RunOnType DEF destroyConn, TInv, TypeOK
<1>7. ASSUME NEW c \in Conns, freeConn(c)
      PROVE  TInv'
  <2>1. RunTyped
    BY <1>0, <1>7, NewStructs, FramesType, RunType DEF freeConn
  <2>2. obj' \in [Obj -> Struct]
    BY <2>1 DEF RunTyped, SoundStruct
  <2>3. connlist' \in Seq(Conns)
    BY <1>7, UnlinkType DEF freeConn, TInv
  <2> QED BY <1>7, <2>1, <2>2, <2>3 DEF freeConn, RunTyped, TInv, TypeOK
<1> QED BY <1>1, <1>2, <1>3, <1>4, <1>5, <1>6, <1>7 DEF Teardown

-----------------------------------------------------------------------------
(* The bridge.                                                             *)

\* The bridge changes sockets only, and sends lines and data.
LEMMA BridgeType == TInv /\ Bridge => TInv'
<1> SUFFICES ASSUME TInv, NEW o \in Obj,
                    \/ TcpConnect(o) \/ Answer(o) \/ AnswerPart(o)
                    \/ PeerArrives(o) \/ SendData(o) \/ Hangup(o)
             PROVE  TInv'
  BY DEF Bridge
<1>0. net[o] \in Socket /\ net[o].inbox \in Seq(Item)
  BY DEF TInv, TypeOK, Socket
<1>1. CASE TcpConnect(o)
  <2>1. PICK l \in {"up", "refused"} : BridgeChanges(o, [net[o] EXCEPT !.link = l])
    BY <1>1 DEF TcpConnect
  <2>2. [net[o] EXCEPT !.link = l] \in Socket
    BY <1>0, ChangedSockets, Zenon
  <2> QED BY <2>1, <2>2, BridgeChangesType
<1>2. CASE Answer(o)
  <2>1. PICK r \in Replies(net[o].req) :
          BridgeChanges(o, [net[o] EXCEPT !.req = NextRequest(net[o].req, r),
                                          !.half = FALSE,
                                          !.inbox = Append(net[o].inbox, r)])
    BY <1>2, Zenon DEF Answer
  <2>2. r \in Item
    <3>1. net[o].req \in Commands
      BY <1>2 DEF Answer
    <3>2. \A q \in Commands : Replies(q) \subseteq Reply
      BY DEF Replies, Reply
    <3> QED BY <3>1, <3>2, <2>1 DEF Item
  <2>3. Append(net[o].inbox, r) \in Seq(Item)
    BY <1>0, <2>2
  <2>4. NextRequest(net[o].req, r) \in {"none", "peer", "stream"} \cup Commands
    BY DEF NextRequest
  <2>5. [net[o] EXCEPT !.req = NextRequest(net[o].req, r), !.half = FALSE,
                       !.inbox = Append(net[o].inbox, r)] \in Socket
    BY <1>0, <2>3, <2>4, ChangedSockets, Zenon
  <2> QED BY <2>1, <2>5, BridgeChangesType
<1>3. CASE AnswerPart(o)
  <2>1. BridgeChanges(o, [net[o] EXCEPT !.half = TRUE,
                                        !.inbox = Append(net[o].inbox, Part)])
    BY <1>3, Zenon DEF AnswerPart
  <2>2. Append(net[o].inbox, Part) \in Seq(Item)
    BY <1>0 DEF Item
  <2>3. [net[o] EXCEPT !.half = TRUE, !.inbox = Append(net[o].inbox, Part)] \in Socket
    BY <1>0, <2>2, ChangedSockets, Zenon
  <2> QED BY <2>1, <2>3, BridgeChangesType
<1>4. CASE PeerArrives(o)
  <2>1. PICK is \in {"ok", "bad"} :
          BridgeChanges(o, [net[o] EXCEPT
                              !.req = "stream", !.half = FALSE,
                              !.inbox = Append(net[o].inbox,
                                               [to |-> "acceptA", is |-> is])])
    BY <1>4, Zenon DEF PeerArrives
  <2>2. [to |-> "acceptA", is |-> is] \in Item
    BY <2>1 DEF Item, Reply
  <2>3. Append(net[o].inbox, [to |-> "acceptA", is |-> is]) \in Seq(Item)
    BY <1>0, <2>2
  <2>4. [net[o] EXCEPT !.req = "stream", !.half = FALSE,
                       !.inbox = Append(net[o].inbox, [to |-> "acceptA", is |-> is])]
          \in Socket
    BY <1>0, <2>3, ChangedSockets, Zenon
  <2> QED BY <2>1, <2>4, BridgeChangesType
<1>5. CASE SendData(o)
  <2>1. BridgeChanges(o, [net[o] EXCEPT !.inbox = Append(net[o].inbox, Data)])
    BY <1>5, Zenon DEF SendData
  <2>2. Append(net[o].inbox, Data) \in Seq(Item)
    BY <1>0 DEF Item
  <2>3. [net[o] EXCEPT !.inbox = Append(net[o].inbox, Data)] \in Socket
    BY <1>0, <2>2, ChangedSockets, Zenon
  <2> QED BY <2>1, <2>3, BridgeChangesType
<1>6. CASE Hangup(o)
  <2>1. PICK h \in {"fin", "rst"} : BridgeChanges(o, [net[o] EXCEPT !.hang = h])
    BY <1>6 DEF Hangup
  <2>2. [net[o] EXCEPT !.hang = h] \in Socket
    BY <1>0, ChangedSockets, Zenon
  <2> QED BY <2>1, <2>2, BridgeChangesType
<1> QED BY <1>1, <1>2, <1>3, <1>4, <1>5, <1>6

-----------------------------------------------------------------------------
(* The handlers.                                                           *)

HandlerTyped == RunTyped /\ net' \in [Obj -> Socket]

\* Connected, CmdSender: the write processors of the handshake.
LEMMA ConnectedType ==
  ASSUME TInv, stack # <<>>, NEW o \in Obj, obj[o].procW = "connected",
         Connected(o)
  PROVE  HandlerTyped
<1>1. obj[o] \in SoundStruct /\ ~obj[o].callDisc /\ obj[o].out = 0
  BY DEF TInv, SoundStruct, IsIdle, IsConnecting, IsSending, IsAwaiting, IsStreaming
<1>2. "hello" \in Commands \cap Checks
  BY DEF Commands, Checks
<1>3. RunTyped
  BY <1>1, <1>2, SendType, FailType DEF Connected
<1> QED BY <1>3 DEF Connected, HandlerTyped, TInv, TypeOK

\* aioCmdSender goes on to await a line.
LEMMA CmdSenderType ==
  ASSUME TInv, stack # <<>>, NEW o \in Obj, obj[o].procW = "cmdSender",
         CmdSender(o)
  PROVE  HandlerTyped
<1>1. /\ obj[o] \in SoundStruct /\ ~obj[o].callDisc /\ obj[o].out = 0
      /\ obj[o].check \in Commands
  BY DEF TInv, SoundStruct, IsIdle, IsConnecting, IsSending, IsAwaiting, IsStreaming
<1>2. AwaitingLine(obj[o], obj[o].check) \in SoundStruct
  <2>1. obj[o].check \in Checks
    BY <1>1 DEF SoundStruct, Struct
  <2> QED BY <1>1, <2>1, ChangedStructs
<1>3. RunTyped
  BY <1>1, <1>2, FramesType, RunType, FailType DEF CmdSender
<1>4. Sent(o) \/ UNCHANGED net
  BY DEF CmdSender
<1>5. net' \in [Obj -> Socket]
  BY <1>1, <1>4, SocketSet DEF Sent, TInv, TypeOK
<1> QED BY <1>3, <1>5 DEF HandlerTyped

\* What the line reader leaves.
LEMMA NoLineType ==
  ASSUME TInv, stack # <<>>, NEW o \in Obj, obj[o].procR = "replyReader",
         NoLine(o)
  PROVE  HandlerTyped
<1>1. obj[o] \in SoundStruct
  BY DEF TInv
<1>2. Buffer(obj[o], "partial") \in SoundStruct
  BY <1>1, ChangedStructs
<1>3. RunTyped
  BY <1>1, <1>2, FramesType, RunType, FailType DEF NoLine
<1>4. net' \in [Obj -> Socket]
  BY UnreadType, SocketSet DEF NoLine
<1> QED BY <1>3, <1>4 DEF HandlerTyped

\* The reply checkers of a session.
LEMMA SesReaderType ==
  ASSUME TInv, stack # <<>>, obj[Ses].procR = "replyReader",
         aioSesCmdReplyReader
  PROVE  HandlerTyped
<1>0. Ses \in Obj /\ obj[Ses] \in SoundStruct
  BY DEF TInv, Obj
<1> DEFINE s == Buffer(obj[Ses], "full")
           r == Line(Ses)
<1>1. s \in SoundStruct /\ IsAwaiting(s)
  BY <1>0, ChangedStructs
<1>2. ~s.callDisc /\ s.out = 0 /\ s.procR = "replyReader"
  BY <1>1 DEF IsAwaiting
<1>3. Idle(s) \in SoundStruct /\ ~Idle(s).callDisc /\ Idle(s).out = 0
  BY <1>1, <1>2, ChangedStructs DEF IsIdle
<1>4. Created(s) \in SoundStruct
  BY <1>1, <1>2, ChangedStructs
<1>5. /\ <<>> \in Seq(Frame)
      /\ <<F("cbCreated", Ses)>> \in Seq(Frame)
      /\ <<F("cbAnswer", Ses), F("sesDisconnect", Ses)>> \in Seq(Frame)
      /\ <<F("crashed", Ses)>> \in Seq(Frame)
  BY <1>0, FramesType DEF Pcs, Callbacks
<1>6. {"create", "nameMe", "keyGen", "nameRes"} \subseteq Commands \cap Checks
  BY DEF Commands, Checks
<1>7. CASE NoLine(Ses)
  BY <1>0, <1>7, NoLineType
<1>8. CASE ~NoLine(Ses)
  <2>1. net' \in [Obj -> Socket]
    BY <1>0, <1>8, UnreadType, SocketSet DEF aioSesCmdReplyReader, HasLine
  <2>2. \/ aioSesHelloChecker(s, r) \/ aioSesCreateChecker(s, r)
        \/ aioSesNameMeChecker(s, r) \/ aioSesKeyGenChecker(s, r)
        \/ aioSesNameResChecker(s, r)
    BY <1>8 DEF aioSesCmdReplyReader
  <2> HIDE DEF s, r
  <2>3. CASE aioSesHelloChecker(s, r)
    <3>1. \/ \E k \in {"create", "keyGen", "nameRes"} : SendCmdWaitReply(Ses, Idle(s), k)
          \/ Fail(Ses, s)
      BY <2>3 DEF aioSesHelloChecker, aioSesHandshacked, aioSesKeyGenHandshacked,
                  aioSesNameResHandshacked, aioSesSendCmdWaitReply
    <3> QED BY <1>0, <1>1, <1>3, <1>6, <2>1, <3>1, SendType, FailType DEF HandlerTyped
  <2>4. CASE aioSesCreateChecker(s, r)
    BY <1>0, <1>1, <1>2, <1>6, <2>1, <2>4, SendType, FailType
       DEF HandlerTyped, aioSesCreateChecker, aioSesSendCmdWaitReply
  <2>5. CASE aioSesNameMeChecker(s, r)
    BY <1>0, <1>1, <1>4, <1>5, <2>1, <2>5, RunType, FailType
       DEF HandlerTyped, aioSesNameMeChecker
  <2>6. CASE aioSesKeyGenChecker(s, r)
    BY <1>0, <1>1, <1>5, <2>1, <2>6, RunType, FailType
       DEF HandlerTyped, aioSesKeyGenChecker
  <2>7. CASE aioSesNameResChecker(s, r)
    <3>1. \/ Fail(Ses, s)
          \/ \E f \in {<<>>, <<F("cbAnswer", Ses), F("sesDisconnect", Ses)>>,
                      <<F("crashed", Ses)>>} : Run(Ses, s, f)
      BY <2>7 DEF aioSesNameResChecker
    <3> QED BY <1>0, <1>1, <1>5, <2>1, <3>1, RunType, FailType DEF HandlerTyped
  <2> QED BY <2>2, <2>3, <2>4, <2>5, <2>6, <2>7
<1> QED BY <1>7, <1>8

\* The reply checkers of a connection.
LEMMA ConnReaderType ==
  ASSUME TInv, stack # <<>>, NEW c \in Conns, obj[c].procR = "replyReader",
         aioConnCmdReplyReader(c)
  PROVE  HandlerTyped
<1>0. c \in Obj /\ obj[c] \in SoundStruct
  BY DEF TInv, Obj
<1> DEFINE s == Buffer(obj[c], "full")
           r == Line(c)
<1>1. s \in SoundStruct /\ IsAwaiting(s)
  BY <1>0, ChangedStructs
<1>2. ~s.callDisc /\ s.out = 0 /\ s.procR = "replyReader"
  BY <1>1 DEF IsAwaiting
<1>3. Idle(s) \in SoundStruct /\ ~Idle(s).callDisc /\ Idle(s).out = 0
  BY <1>1, <1>2, ChangedStructs DEF IsIdle
<1>4. Streaming(s) \in SoundStruct /\ AwaitingLine(s, "acceptA") \in SoundStruct
  BY <1>1, <1>2, ChangedStructs DEF Checks
<1>5. /\ <<>> \in Seq(Frame)
      /\ <<F("cbConnected", c), F("ready", c)>> \in Seq(Frame)
      /\ <<F("cbAccepted", c), F("ready", c)>> \in Seq(Frame)
  BY <1>0, FramesType DEF Pcs, Callbacks
<1>6. {"connect", "accept"} \subseteq Commands \cap Checks
  BY DEF Commands, Checks
<1>7. CASE NoLine(c)
  BY <1>0, <1>7, NoLineType
<1>8. CASE ~NoLine(c)
  <2>1. net' \in [Obj -> Socket]
    BY <1>0, <1>8, UnreadType, SocketSet DEF aioConnCmdReplyReader, HasLine
  <2>2. \/ aioConnHelloChecker(c, s, r) \/ aioConnConnectChecker(c, s, r)
        \/ aioConnAcceptChecker(c, s, r) \/ aioConnAcceptCheckerA(c, s, r)
    BY <1>8 DEF aioConnCmdReplyReader
  <2> HIDE DEF s, r
  <2>3. CASE aioConnHelloChecker(c, s, r)
    <3>1. \/ \E k \in {"connect", "accept"} : SendCmdWaitReply(c, Idle(s), k)
          \/ Fail(c, s)
      BY <2>3 DEF aioConnHelloChecker, aioConConnectHandshacked,
                  aioConAcceptHandshacked, aioConnSendCmdWaitReply
    <3> QED BY <1>0, <1>1, <1>3, <1>6, <2>1, <3>1, SendType, FailType DEF HandlerTyped
  <2>4. CASE aioConnConnectChecker(c, s, r)
    BY <1>0, <1>1, <1>4, <1>5, <2>1, <2>4, RunType, FailType
       DEF HandlerTyped, aioConnConnectChecker
  <2>5. CASE aioConnAcceptChecker(c, s, r)
    BY <1>0, <1>1, <1>4, <1>5, <2>1, <2>5, RunType, FailType
       DEF HandlerTyped, aioConnAcceptChecker
  <2>6. CASE aioConnAcceptCheckerA(c, s, r)
    BY <1>0, <1>1, <1>4, <1>5, <2>1, <2>6, RunType, FailType
       DEF HandlerTyped, aioConnAcceptCheckerA
  <2> QED BY <2>2, <2>3, <2>4, <2>5, <2>6
<1> QED BY <1>7, <1>8

\* Stream I/O.
LEMMA DataReaderType ==
  ASSUME TInv, NEW c \in Conns, aioConnDataReader(c)
  PROVE  TInv'
<1>0. c \in Obj /\ obj[c] \in SoundStruct /\ stack # <<>> /\ Rest
  BY DEF TInv, Obj, aioConnDataReader, At
<1>1. <<>> \in Seq(Frame) /\ <<F("connDisconnect", c)>> \in Seq(Frame)
      /\ <<F("cbRead", c), F("readLoop", c)>> \in Seq(Frame)
  BY <1>0, FramesType DEF Pcs, Callbacks
<1>2. RunTyped
  BY <1>0, <1>1, RunType, FailType DEF aioConnDataReader
<1>3. UNCHANGED net \/ net' = [net EXCEPT ![c].inbox = <<>>]
  BY DEF aioConnDataReader
<1>4. <<>> \in Seq(Item)
  OBVIOUS
<1>5. net' \in [Obj -> Socket]
  <2>1. [net EXCEPT ![c].inbox = <<>>] \in [Obj -> Socket]
    BY <1>0, <1>4, SocketSet, Zenon
  <2>2. net \in [Obj -> Socket]
    BY DEF TInv, TypeOK
  <2> QED BY <1>3, <2>1, <2>2, Zenon
<1> QED BY <1>0, <1>2, <1>5, RestType

\* aioConnDataWriter leaves a queue within its bounds, and calls cbSent.
LEMMA DataWriterType ==
  ASSUME TInv, stack # <<>>, NEW c \in Conns, obj[c].procW = "dataWriter",
         aioConnDataWriter(c)
  PROVE  HandlerTyped
<1>0. c \in Obj /\ obj[c] \in SoundStruct
  BY DEF TInv, Obj
<1>1. <<>> \in Seq(Frame) /\ <<F("cbSent", c)>> \in Seq(Frame)
  BY <1>0, FramesType DEF Pcs, Callbacks
<1>2. obj[c].out \in 0..MaxOut /\ MaxOut \in Nat
  BY <1>0, ConstantsAssumption DEF SoundStruct, Struct
<1>3. \A n \in 0..obj[c].out : Queue(obj[c], n) \in SoundStruct
  <2> SUFFICES ASSUME NEW n \in 0..obj[c].out PROVE Queue(obj[c], n) \in SoundStruct
    OBVIOUS
  <2>1. n \in 0..MaxOut
    BY <1>2
  <2> QED BY <1>0, <2>1, ChangedStructs
<1>4. RunTyped
  <2>1. CASE Run(c, obj[c], <<>>)
    BY <1>0, <1>1, <2>1, RunType
  <2>2. CASE Run(c, Queue(obj[c], 0), <<F("cbSent", c)>>)
    <3>1. 0 \in 0..obj[c].out
      BY <1>2
    <3> QED BY <1>0, <1>1, <1>3, <2>2, <3>1, RunType
  <2>3. CASE \E n \in 1..obj[c].out : Run(c, Queue(obj[c], n), <<>>)
    <3>1. PICK n \in 1..obj[c].out : Run(c, Queue(obj[c], n), <<>>)
      BY <2>3
    <3>2. n \in 0..obj[c].out
      BY <1>2, <3>1
    <3> QED BY <1>0, <1>1, <1>3, <3>1, <3>2, RunType
  <2>4. CASE Fail(c, obj[c])
    BY <1>0, <2>4, FailType
  <2> QED BY <2>1, <2>2, <2>3, <2>4 DEF aioConnDataWriter
<1> QED BY <1>4 DEF aioConnDataWriter, HandlerTyped, TInv, TypeOK

-----------------------------------------------------------------------------
(* The loop over the ready descriptors, and the application.               *)

\* The loop over the ready descriptors serves each by a processor of its struct.
LEMMA LoopType ==
  ASSUME TInv, ReadSession \/ WriteSession \/ (\E o \in Obj : Walk(o))
               \/ (\E c \in Conns : ReadConn(c) \/ WriteConn(c) \/ ready(c))
  PROVE  TInv'
<1>0. Ses \in Obj /\ Conns \subseteq Obj
  BY DEF Obj
<1>1. ASSUME NEW o \in Obj, stack # <<>>, Skip(o)
      PROVE  HandlerTyped
  BY <1>1, FramesType, RunType DEF Skip, HandlerTyped, TInv, TypeOK
<1>2. CASE ReadSession
  <2>1. stack # <<>> /\ Rest
    BY <1>2 DEF ReadSession, At
  <2>2. HandlerTyped
    BY <1>0, <1>1, <1>2, <2>1, SesReaderType DEF ReadSession
  <2> QED BY <2>1, <2>2, RestType DEF HandlerTyped
<1>3. CASE WriteSession
  <2>1. stack # <<>> /\ Rest
    BY <1>3 DEF WriteSession, At
  <2>2. HandlerTyped
    BY <1>0, <1>1, <1>3, <2>1, ConnectedType, CmdSenderType
       DEF WriteSession, aioSesConnected, aioSesCmdSender
  <2> QED BY <2>1, <2>2, RestType DEF HandlerTyped
<1>4. ASSUME NEW c \in Conns, ReadConn(c)
      PROVE  TInv'
  <2>1. stack # <<>> /\ Rest
    BY <1>4 DEF ReadConn, At
  <2>2. CASE Run(c, obj[c], <<F("readLoop", c)>>) /\ UNCHANGED net
    <3>1. <<F("readLoop", c)>> \in Seq(Frame)
      BY <1>0, FramesType DEF Pcs
    <3> QED BY <1>0, <2>1, <2>2, <3>1, RunOnType DEF Rest, TInv, TypeOK
  <2>3. CASE ~(Run(c, obj[c], <<F("readLoop", c)>>) /\ UNCHANGED net)
    <3>1. HandlerTyped
      BY <1>0, <1>1, <1>4, <2>1, <2>3, ConnReaderType DEF ReadConn
    <3> QED BY <2>1, <3>1, RestType DEF HandlerTyped
  <2> QED BY <2>2, <2>3
<1>5. ASSUME NEW c \in Conns, WriteConn(c)
      PROVE  TInv'
  <2>1. stack # <<>> /\ Rest
    BY <1>5 DEF WriteConn, At
  <2>2. HandlerTyped
    BY <1>0, <1>1, <1>5, <2>1, ConnectedType, CmdSenderType, DataWriterType
       DEF WriteConn, aioConnConnected, aioConnCmdSender
  <2> QED BY <2>1, <2>2, RestType DEF HandlerTyped
<1>6. ASSUME NEW c \in Conns, ready(c)
      PROVE  TInv'
  <2>1. <<F("cbSent", c)>> \in Seq(Frame) /\ <<>> \in Seq(Frame)
    BY <1>0, FramesType DEF Pcs, Callbacks
  <2> QED BY <1>0, <1>6, <2>1, RunOnType DEF ready, At, Rest, TInv, TypeOK
<1>7. ASSUME NEW o \in Obj, Walk(o)
      PROVE  TInv'
  <2>1. <<>> \in Seq(Frame)
    OBVIOUS
  <2>2. ASSUME NEW c \in Conns
        PROVE  Visit(c) \in Seq(Frame)
    <3>1. <<F("readIO", c)>> \in Seq(Frame)
          /\ <<F("writeIO", c), F("walk", c)>> \in Seq(Frame)
      BY <1>0, FramesType DEF Pcs
    <3> QED BY <2>1, <3>1 DEF Visit
  <2>3. \A i \in DOMAIN connlist : connlist[i] \in Conns
    BY DEF TInv, TypeOK
  <2>4. \E fs \in Seq(Frame) : Run(o, obj[o], fs)
    BY <1>7, <2>1, <2>2, <2>3 DEF Walk
  <2>5. rds' \subseteq Obj /\ wrs' \subseteq Obj
    BY <1>7 DEF Walk, TInv, TypeOK
  <2> QED BY <1>7, <2>4, <2>5, RunOnType DEF Walk, At
<1> QED BY <1>2, <1>3, <1>4, <1>5, <1>6, <1>7

\* Creating a session or a connection.
LEMMA OpenType ==
  ASSUME TInv, \/ OpenSession({"stream", "raw", "keyGen", "lookup"})
               \/ \E c \in Conns, kind \in {"connect", "accept"} : OpenConnection(c, kind)
  PROVE  TInv'
<1>0. NewSocket \in Socket /\ "open" \in DescState
  <2>1. NoSocket \in Socket
    BY DEF NoSocket, Socket
  <2> QED BY <2>1, ChangedSockets DEF DescState
<1>1. ASSUME NEW o \in Obj, NEW k \in Kinds,
             obj' = [obj EXCEPT ![o] = Connecting(k)],
             desc' = [desc EXCEPT ![o] = "open"],
             net' = [net EXCEPT ![o] = NewSocket],
             connlist' \in Seq(Conns),
             UNCHANGED <<stack, told, rds, wrs>>
      PROVE  TInv'
  <2>1. obj' \in [Obj -> SoundStruct]
    BY <1>1, NewStructs DEF TInv
  <2>2. obj' \in [Obj -> Struct]
    BY <2>1 DEF SoundStruct
  <2>3. desc' \in [Descriptors -> DescState]
    BY <1>0, <1>1 DEF TInv, TypeOK, Descriptors
  <2>4. net' \in [Obj -> Socket]
    BY <1>0, <1>1, SocketSet
  <2> QED BY <1>1, <2>1, <2>2, <2>3, <2>4 DEF TInv, TypeOK
<1>2. CASE OpenSession({"stream", "raw", "keyGen", "lookup"})
  <2>1. PICK k \in {"stream", "raw", "keyGen", "lookup"} :
          obj' = [obj EXCEPT ![Ses] = Connecting(k)]
    BY <1>2 DEF OpenSession
  <2>2. k \in Kinds /\ Ses \in Obj
    BY DEF Kinds, Obj
  <2> QED BY <1>1, <1>2, <2>1, <2>2 DEF OpenSession, TInv, TypeOK
<1>3. ASSUME NEW c \in Conns, NEW kind \in {"connect", "accept"}, OpenConnection(c, kind)
      PROVE  TInv'
  <2>1. c \in Obj /\ kind \in Kinds
    BY DEF Kinds, Obj
  <2>2. connlist' \in Seq(Conns)
    BY <1>3 DEF OpenConnection, TInv, TypeOK
  <2> QED BY <1>1, <1>3, <2>1, <2>2 DEF OpenConnection
<1> QED BY <1>2, <1>3

\* What the application calls leaves sound structs.
LEMMA AppType ==
  ASSUME TInv, App PROVE TInv'
<1>0. Ses \in Obj /\ Conns \subseteq Obj
  BY DEF Obj
<1>1. CASE sam3aCreateSessionEx \/ sam3aGenerateKeysEx \/ sam3aNameLookupEx
  <2>1. OpenSession({"stream", "raw", "keyGen", "lookup"})
    BY <1>1 DEF sam3aCreateSessionEx, sam3aGenerateKeysEx, sam3aNameLookupEx, OpenSession
  <2> QED BY <2>1, OpenType
<1>2. ASSUME NEW c \in Conns, sam3aStreamConnectEx(c) \/ sam3aStreamAcceptEx(c)
      PROVE  TInv'
  BY <1>2, OpenType DEF sam3aStreamConnectEx, sam3aStreamAcceptEx
<1>3. CASE sam3aCancelSession \/ sam3aCloseSession
  <2>1. <<F("sesDisconnect", Ses)>> \in Seq(Frame)
        /\ <<F("sesDisconnect", Ses), F("closeSession", Ses)>> \in Seq(Frame)
    BY <1>0, FramesType DEF Pcs
  <2> QED BY <1>3, <2>1, ApiCallType DEF sam3aCancelSession, sam3aCloseSession
<1>4. ASSUME NEW c \in Conns, sam3aCancelConnection(c) \/ sam3aCloseConnection(c)
      PROVE  TInv'
  <2>1. <<F("connDisconnect", c)>> \in Seq(Frame)
        /\ <<F("connDisconnect", c), F("destroyConn", c)>> \in Seq(Frame)
    BY <1>0, FramesType DEF Pcs
  <2> QED BY <1>4, <2>1, ApiCallType
          DEF sam3aCancelConnection, sam3aCloseConnection, CloseConnFrames
<1>5. ASSUME NEW c \in Conns, sam3aSend(c)
      PROVE  TInv'
  <2>1. obj[c] \in SoundStruct /\ obj[c].out \in 0..MaxOut /\ MaxOut \in Nat
    BY <1>0, ConstantsAssumption DEF TInv, SoundStruct, Struct
  <2>2. obj[c].procW = "dataWriter" /\ obj[c].out + 1 \in 0..MaxOut
    BY <1>5, <2>1 DEF sam3aSend, SoundStruct, IsIdle, IsConnecting, IsSending,
                      IsAwaiting, IsStreaming
  <2>3. Queue(obj[c], obj[c].out + 1) \in SoundStruct
    BY <2>1, <2>2, ChangedStructs
  <2>4. obj' \in [Obj -> SoundStruct]
    BY <1>5, <2>3 DEF sam3aSend, TInv
  <2>5. obj' \in [Obj -> Struct]
    BY <2>4 DEF SoundStruct
  <2> QED BY <1>5, <2>4, <2>5 DEF sam3aSend, TInv, TypeOK
<1> QED BY <1>1, <1>2, <1>3, <1>4, <1>5 DEF App

\* The whole system keeps its types and modes.
LEMMA NextType == TInv /\ [Next]_vars => TInv'
<1> SUFFICES ASSUME TInv, [Next]_vars PROVE TInv'
  OBVIOUS
<1>0. Ses \in Obj /\ Conns \subseteq Obj
  BY DEF Obj
<1>1. CASE App
  BY <1>1, AppType
<1>2. CASE Return
  BY <1>2 DEF Return, TInv, TypeOK
<1>3. CASE Select
  <2>1. <<F("readIO", Ses), F("writeIO", Ses), F("walk", Ses)>> \in Seq(Frame)
    BY <1>0, FramesType DEF Pcs
  <2>2. stack' \in Seq(Frame) /\ told' \in [Obj -> Seq(Events)]
    BY <1>3, <2>1, CallType DEF Select, TInv
  <2>3. rds' \subseteq Obj /\ wrs' \subseteq Obj
    BY <1>3 DEF Select, sam3aAddSessionToFDS
  <2> QED BY <1>3, <2>2, <2>3 DEF Select, TInv, TypeOK
<1>4. CASE Library
  BY <1>4, TeardownType, LoopType, DataReaderType DEF Library
<1>5. CASE Bridge
  BY <1>5, BridgeType
<1>6. CASE UNCHANGED vars
  BY <1>6 DEF vars, TInv, TypeOK
<1>7. CASE Done
  BY <1>6, <1>7 DEF Done
<1> QED BY <1>1, <1>2, <1>3, <1>4, <1>5, <1>6, <1>7 DEF Next

-----------------------------------------------------------------------------
(* What the objects are told.                                              *)

\* The step tells o the event e.
Tells(o, e, fs) == /\ fs # <<>> /\ Head(fs).o = o /\ Head(fs).pc \in Callbacks
                   /\ e = Event[Head(fs).pc]

\* Each callback is one event of the life cycle.
LEMMA Events6 ==
  ASSUME NEW pc \in Callbacks
  PROVE  /\ Event[pc] \in Events
         /\ Event[pc] = "error" <=> pc = "cbError"
         /\ Event[pc] = "answer" <=> pc = "cbAnswer"
         /\ Event[pc] = "up" <=> pc \in {"cbCreated", "cbConnected", "cbAccepted"}
         /\ Event[pc] = "traffic" <=> pc \in {"cbRead", "cbSent"}
         /\ Event[pc] = "disconnected" <=> pc = "cbDisconnected"
         /\ Event[pc] = "destroy" <=> pc = "cbDestroy"
BY DEF Callbacks, Event, Events

\* v is in the history h.
In(h, v) == \E i \in DOMAIN h : h[i] = v

\* What is recorded is what was there and the new event.
LEMMA RecordedAll ==
  ASSUME NEW h \in Seq(Events), NEW e \in Events, NEW v
  PROVE  In(Record(h, e), v) <=> v = e \/ In(h, v)
<1>1. Len(h) \in Nat /\ DOMAIN h = 1..Len(h)
  BY LenProperties
<1>2. CASE e = "traffic" /\ h # <<>> /\ h[Len(h)] = "traffic"
  <2>1. Record(h, e) = h
    BY <1>2 DEF Record
  <2>2. Len(h) \in DOMAIN h
    BY <1>1, <1>2, EmptySeq
  <2>3. e = "traffic" /\ In(h, e)
    BY <1>2, <2>2 DEF In
  <2> QED BY <2>1, <2>3
<1>3. CASE ~(e = "traffic" /\ h # <<>> /\ h[Len(h)] = "traffic")
  <2>1. Record(h, e) = Append(h, e)
    BY <1>3 DEF Record
  <2> DEFINE g == Append(h, e)
  <2>2. /\ Len(g) = Len(h) + 1 /\ g[Len(h) + 1] = e /\ g \in Seq(Events)
        /\ \A i \in 1..Len(h) : g[i] = h[i]
    BY AppendProperties
  <2>3. DOMAIN g = 1..Len(g)
    BY <2>2, LenProperties
  <2> HIDE DEF g
  <2>4. Len(h) + 1 \in DOMAIN g /\ \A i \in DOMAIN h : i \in DOMAIN g
    BY <1>1, <2>2, <2>3
  <2>5. \A i \in DOMAIN g : i \in DOMAIN h \/ i = Len(h) + 1
    BY <1>1, <2>2, <2>3
  <2>6. In(g, v) => v = e \/ In(h, v)
    BY <2>2, <2>5 DEF In
  <2>7. v = e \/ In(h, v) => In(g, v)
    BY <1>1, <2>2, <2>4 DEF In
  <2> QED BY <2>1, <2>6, <2>7 DEF g
<1> QED BY <1>2, <1>3

\* The histories of a step that pushes fs.
LEMMA Logs ==
  ASSUME TypeOK, NEW fs \in Seq(Frame), told' = Told(fs), NEW x \in Obj, NEW e
  PROVE  InLog(x, e)' <=> InLog(x, e) \/ Tells(x, e, fs)
<1>1. told[x] \in Seq(Events) /\ told \in [Obj -> Seq(Events)]
  BY DEF TypeOK
<1>2. CASE fs # <<>> /\ Head(fs).o = x /\ Head(fs).pc \in Callbacks
  <2>1. told'[x] = Record(told[x], Event[Head(fs).pc])
    BY <1>1, <1>2 DEF Told
  <2>2. Event[Head(fs).pc] \in Events
    BY <1>2, Events6
  <2>3. In(told'[x], e) <=> e = Event[Head(fs).pc] \/ In(told[x], e)
    BY <1>1, <2>1, <2>2, RecordedAll
  <2> QED BY <1>2, <2>3 DEF Tells, InLog, In
<1>3. CASE ~(fs # <<>> /\ Head(fs).o = x /\ Head(fs).pc \in Callbacks)
  <2>1. told'[x] = told[x]
    BY <1>1, <1>3 DEF Told
  <2> QED BY <1>3, <2>1 DEF InLog, Tells
<1> QED BY <1>2, <1>3

-----------------------------------------------------------------------------
(* The results.                                                            *)

\* The structs, the connection list, the call stack, the descriptors and the
\* sockets keep the types Sam3aState gives them, for any number of
\* connections, every fault and every function the application calls.
THEOREM TypeCorrect == Spec => []TypeOK
<1>1. TInv => TypeOK
  BY DEF TInv
<1> QED BY <1>1, InitType, NextType, PTL DEF Spec

\* No I/O processor of libsam3a.c ever runs on a buffer that is not the one it
\* was installed with: the modes of a struct exclude it.
THEOREM BuffersCorrect == Spec => []ProcessorsHaveBuffers
<1>1. TInv => ProcessorsHaveBuffers
  BY DEF TInv, TypeOK, ProcessorsHaveBuffers, SoundStruct, Struct, IsIdle, IsConnecting,
         IsSending, IsAwaiting, IsStreaming
<1> QED BY <1>1, InitType, NextType, PTL DEF Spec

-----------------------------------------------------------------------------
(* Commands and replies in step, for any faults of the bridge and whatever *)
(* functions the application calls inside the callbacks.                   *)
(*                                                                         *)
(* Lockstep speaks of the readers only.  The invariant, KInv, says for     *)
(* every struct that is still served what its socket may hold and what the *)
(* bridge may owe it: Agree, which depends on the mode of the struct.  A   *)
(* struct that was told of an error has its processors taken off in the    *)
(* same call, or is closed by it; and a read loop runs for streams only,   *)
(* so it never reads a reply.                                              *)

\* Nothing has been asked, and nothing is on its way.
Silent(n) == n.req = "none" /\ n.inbox = <<>> /\ ~n.half

\* q is what is left of the socket n when its reader waits for the peer of an
\* accept: nothing, a part of the line, or that line first.  After a STREAM
\* STATUS without RESULT the bridge may know of no accept.  taken: the part
\* has been read already.
PeerAwaited(q, n, taken) ==
  \/ q = <<>> /\ (n.hang # "open" \/ (n.req = "peer" /\ (n.half <=> taken))
                                 \/ (n.req = "none" /\ "bare" \in Faults))
  \/ q = <<Part>> /\ ~taken /\ n.half /\ n.req = "peer"
  \/ q # <<>> /\ Head(Whole(q)).to = "acceptA"

\* r answers the command k, and q comes after it.
Answered(k, r, q, n) ==
  /\ r # Part /\ r.to \in {k, "other"}
  /\ k = "accept" /\ Good(r, k) => PeerAwaited(q, n, FALSE)
  /\ k \notin {"connect", "accept"} => q = <<>> /\ n.req = "none" /\ ~n.half

\* The same for the reader of the reply to a command k.
ReplyAwaited(k, q, n, taken) ==
  \/ q = <<>> /\ (n.hang = "open" => n.req = k /\ (n.half <=> taken))
  \/ q = <<Part>> /\ ~taken /\ n.half /\ n.req = k
  \/ q # <<>> /\ Answered(k, Head(Whole(q)), Tail(Whole(q)), n)

Agree(s, n) ==
  /\ s.procW \in {"connected", "cmdSender"} => Silent(n)
  /\ s.procR = "replyReader" =>
       \/ s.aio = "full" /\ n.inbox = <<>> /\ n.req = "none"
       \/ /\ s.aio # "full" /\ s.check = "acceptA"
          /\ PeerAwaited(n.inbox, n, s.aio = "partial")
       \/ /\ s.aio # "full" /\ s.check \in Commands
          /\ ReplyAwaited(s.check, n.inbox, n, s.aio = "partial")

\* Who was told of an error is served no more.
InService(o) == obj[o].mem = "live" /\ IsActive(obj[o]) /\ ~InLog(o, "error")

\* The struct has been open for data, or is gone.
OpenOrGone(s) == s.mem = "closed" \/ (s.mem = "live" /\ s.callDisc)

\* The loop of aioConnDataReader runs for an open stream only.
LoopsOpen(f, ob) == f.pc = "readLoop" => OpenOrGone(ob[f.o])

KInv == /\ \A o \in Obj : InService(o) => Agree(obj[o], net[o])
        /\ \A o \in Obj : obj[o].mem = "none" => obj[o].fd = "none"
        /\ \A i \in 1..Len(stack) : LoopsOpen(stack[i], obj)

-----------------------------------------------------------------------------
(* Steps.                                                                  *)

\* What stands on the stack after fs have been pushed on it, or have taken the
\* place of its top.
LEMMA StackAfter ==
  ASSUME TypeOK, NEW fs \in Seq(Frame),
         \/ stack' = fs \o stack
         \/ stack # <<>> /\ stack' = fs \o Tail(stack)
  PROVE  \A i \in 1..Len(stack') :
           \/ \E j \in 1..Len(fs) : stack'[i] = fs[j]
           \/ \E j \in 1..Len(stack) : stack'[i] = stack[j]
<1>1. stack \in Seq(Frame)
  BY DEF TypeOK
<1>2. PICK r \in Seq(Frame) : /\ stack' = fs \o r
                              /\ \A i \in 1..Len(r) : \E j \in 1..Len(stack) : r[i] = stack[j]
  <2>1. CASE stack' = fs \o stack
    <3>1. \A i \in 1..Len(stack) : \E j \in 1..Len(stack) : stack[i] = stack[j]
      OBVIOUS
    <3> QED BY <1>1, <2>1, <3>1
  <2>2. CASE stack # <<>> /\ stack' = fs \o Tail(stack)
    <3>1. /\ Tail(stack) \in Seq(Frame) /\ Len(Tail(stack)) = Len(stack) - 1
          /\ \A i \in 1..Len(Tail(stack)) : Tail(stack)[i] = stack[i + 1]
      BY <1>1, <2>2, HeadTailProperties
    <3>2. Len(stack) \in Nat
      BY <1>1, LenProperties
    <3>3. \A i \in 1..Len(Tail(stack)) : i + 1 \in 1..Len(stack)
      BY <3>1, <3>2
    <3> QED BY <2>2, <3>1, <3>3
  <2> QED BY <2>1, <2>2
<1>3. /\ Len(fs \o r) = Len(fs) + Len(r)
      /\ \A i \in 1..Len(fs \o r) : (fs \o r)[i] = IF i <= Len(fs) THEN fs[i] ELSE r[i - Len(fs)]
  BY ConcatProperties
<1>4. Len(fs) \in Nat /\ Len(r) \in Nat
  BY LenProperties
<1> SUFFICES ASSUME NEW i \in 1..Len(stack')
             PROVE  \/ \E j \in 1..Len(fs) : stack'[i] = fs[j]
                    \/ \E j \in 1..Len(stack) : stack'[i] = stack[j]
  OBVIOUS
<1>5. CASE i <= Len(fs)
  <2>1. i \in 1..Len(fs) /\ stack'[i] = fs[i]
    BY <1>2, <1>3, <1>4, <1>5
  <2> QED BY <2>1
<1>6. CASE ~(i <= Len(fs))
  <2>1. i - Len(fs) \in 1..Len(r) /\ stack'[i] = r[i - Len(fs)]
    BY <1>2, <1>3, <1>4, <1>6
  <2> QED BY <1>2, <2>1
<1> QED BY <1>5, <1>6

\* A struct that has been open for data has been so for ever, and none becomes
\* one that has never been used.
Lives(s, t) == /\ OpenOrGone(s) => OpenOrGone(t)
               /\ t.mem = "none" => s.mem = "none" /\ t.fd = s.fd

\* A step that works on one object keeps the invariant if it leaves that object
\* in agreement with its socket, or not to be served any more.
LEMMA StepKeeps ==
  ASSUME TypeOK, KInv, NEW o \in Obj, NEW fs \in Seq(Frame),
         \/ stack' = fs \o stack
         \/ stack # <<>> /\ stack' = fs \o Tail(stack),
         told' = Told(fs),
         \A x \in Obj \ {o} : obj'[x] = obj[x] /\ net'[x] = net[x],
         Lives(obj[o], obj'[o]),
         InService(o)' => Agree(obj'[o], net'[o]),
         \A j \in 1..Len(fs) : LoopsOpen(fs[j], obj')
  PROVE  KInv'
<1>1. ASSUME NEW x \in Obj, InService(x)'
      PROVE  Agree(obj'[x], net'[x])
  <2>1. CASE x = o
    BY <1>1, <2>1
  <2>2. CASE x # o
    <3>1. obj'[x] = obj[x] /\ net'[x] = net[x]
      BY <2>2
    <3>2. InLog(x, "error") => InLog(x, "error")'
      BY Logs
    <3>3. InService(x)
      BY <1>1, <3>1, <3>2 DEF InService
    <3> QED BY <3>1, <3>3 DEF KInv
  <2> QED BY <2>1, <2>2
<1>2. ASSUME NEW i \in 1..Len(stack')
      PROVE  LoopsOpen(stack'[i], obj')
  <2>1. CASE \E j \in 1..Len(fs) : stack'[i] = fs[j]
    BY <2>1
  <2>2. ASSUME NEW j \in 1..Len(stack), stack'[i] = stack[j]
        PROVE  LoopsOpen(stack'[i], obj')
    <3>1. LoopsOpen(stack[j], obj) /\ stack[j].o \in Obj
      <4>1. stack \in Seq(Frame)
        BY DEF TypeOK
      <4>2. stack[j] \in Frame
        BY <4>1
      <4> QED BY <4>2 DEF KInv, Frame
    <3>2. Lives(obj[stack[j].o], obj'[stack[j].o])
      BY <3>1 DEF Lives
    <3> QED BY <2>2, <3>1, <3>2 DEF LoopsOpen, Lives
  <2> QED BY <2>1, <2>2, StackAfter
<1>3. ASSUME NEW x \in Obj, obj'[x].mem = "none"
      PROVE  obj'[x].fd = "none"
  <2>1. CASE x = o
    BY <1>3, <2>1 DEF KInv, Lives
  <2>2. CASE x # o
    BY <1>3, <2>2 DEF KInv
  <2> QED BY <2>1, <2>2
<1> QED BY <1>1, <1>2, <1>3 DEF KInv

\* The step of a library function that runs no loop.
LEMMA RunKeeps ==
  ASSUME TInv, KInv, stack # <<>>, NEW o \in Obj, NEW s, NEW fs \in Seq(Frame),
         Run(o, s, fs), Lives(obj[o], s),
         \A x \in Obj \ {o} : net'[x] = net[x],
         InService(o)' => Agree(s, net'[o]),
         \A j \in 1..Len(fs) : fs[j].pc # "readLoop"
  PROVE  KInv'
<1>1. obj'[o] = s /\ \A x \in Obj \ {o} : obj'[x] = obj[x]
  BY DEF Run, TInv
<1>2. \A j \in 1..Len(fs) : LoopsOpen(fs[j], obj')
  BY DEF LoopsOpen
<1>3. TypeOK
  BY DEF TInv
<1> QED BY <1>1, <1>2, <1>3, StepKeeps DEF Run

\* sesError and connError.
LEMMA FailKeeps ==
  ASSUME TInv, KInv, stack # <<>>, NEW o \in Obj, NEW s, Fail(o, s), Lives(obj[o], s),
         \A x \in Obj \ {o} : net'[x] = net[x]
  PROVE  KInv'
<1> DEFINE fs == ErrorFrames(o)
<1>1. fs \in Seq(Frame) /\ TypeOK /\ Run(o, s, fs)
  BY ErrorFramesType DEF TInv, Fail
<1>2. /\ fs # <<>> /\ Head(fs).o = o /\ Head(fs).pc = "cbError"
      /\ \A j \in 1..Len(fs) : fs[j].pc # "readLoop"
  BY DEF ErrorFrames, F
<1>3. told' = Told(fs)
  BY <1>1 DEF Run
<1> HIDE DEF fs
<1>4. Tells(o, "error", fs)
  BY <1>2 DEF Tells, Callbacks, Event
<1>5. InLog(o, "error")'
  BY <1>1, <1>3, <1>4, Logs
<1>6. ~InService(o)'
  BY <1>5 DEF InService
<1> QED BY <1>1, <1>2, <1>6, RunKeeps

\* What the handlers change leaves a closed struct closed and an open stream open.
LEMMA HandlersKeepLives ==
  ASSUME NEW s \in Struct
  PROVE  /\ Lives(s, s) /\ Lives(s, Idle(s)) /\ Lives(s, Created(s)) /\ Lives(s, Streaming(s))
         /\ \A x : /\ Lives(s, Buffer(s, x)) /\ Lives(s, Queue(s, x))
                   /\ Lives(s, SendingCommand(s, x)) /\ Lives(s, AwaitingLine(s, x))
<1> USE DEF Struct, Lives, OpenOrGone
<1>1. Lives(s, Idle(s))
  <2>1. Idle(s) = [s EXCEPT !["procR"] = "null", !["procW"] = "null"]
    BY Zenon DEF Idle
  <2> QED BY <2>1
<1>2. ASSUME NEW x PROVE Lives(s, Buffer(s, x))
  <2>1. Buffer(s, x) = [s EXCEPT !["aio"] = x]
    BY Zenon DEF Buffer
  <2> QED BY <2>1
<1>3. ASSUME NEW x PROVE Lives(s, Queue(s, x))
  <2>1. Queue(s, x) = [s EXCEPT !["out"] = x]
    BY Zenon DEF Queue
  <2> QED BY <2>1
<1>4. ASSUME NEW x PROVE Lives(s, SendingCommand(s, x))
  <2>1. SendingCommand(s, x) = [s EXCEPT !["procR"] = "null", !["procW"] = "cmdSender",
                                         !["check"] = x, !["aio"] = "cmd"]
    BY Zenon DEF SendingCommand
  <2> QED BY <2>1
<1>5. ASSUME NEW x PROVE Lives(s, AwaitingLine(s, x))
  <2>1. AwaitingLine(s, x) = [s EXCEPT !["procR"] = "replyReader", !["procW"] = "null",
                                       !["check"] = x, !["aio"] = "fresh"]
    BY Zenon DEF AwaitingLine
  <2> QED BY <2>1
<1>6. Lives(s, Created(s))
  <2>1. Created(s) = [s EXCEPT !["procR"] = "null", !["procW"] = "null", !["callDisc"] = TRUE]
    BY Zenon DEF Created
  <2> QED BY <2>1
<1>7. Lives(s, Streaming(s))
  <2>1. Streaming(s) = [s EXCEPT !["procR"] = "dataReader", !["procW"] = "dataWriter",
                                 !["callDisc"] = TRUE, !["aio"] = "stream"]
    BY Zenon DEF Streaming
  <2> QED BY <2>1
<1> QED BY <1>1, <1>2, <1>3, <1>4, <1>5, <1>6, <1>7

\* So does a disconnect, and what it leaves has no processor.
LEMMA DisconnectKeepsLives ==
  ASSUME NEW s \in Struct
  PROVE  /\ Lives(s, Quiet(s)) /\ Lives(s, Cancelled(Quiet(s))) /\ Lives(s, Zeroed)
         /\ Quiet(s).procR = "null" /\ Quiet(s).procW = "null"
         /\ Cancelled(Quiet(s)).cancelled
<1> USE DEF Struct, Lives, OpenOrGone
<1> DEFINE q == [s EXCEPT !["procR"] = "null", !["procW"] = "null", !["aio"] = "null",
                          !["check"] = "null", !["out"] = 0]
<1>1. Quiet(s) = q
  BY Zenon DEF Quiet
<1>2. Lives(s, q) /\ q.procR = "null" /\ q.procW = "null" /\ q.mem = s.mem
      /\ DOMAIN q = DOMAIN s /\ q.callDisc = s.callDisc /\ q.fd = s.fd
  OBVIOUS
<1>3. Cancelled(q) = [q EXCEPT !["cancelled"] = TRUE]
  BY Zenon DEF Cancelled
<1>4. Lives(s, Cancelled(q)) /\ Cancelled(q).cancelled
  BY <1>3
<1>5. Lives(s, Zeroed)
  BY DEF Zeroed
<1> QED BY <1>1, <1>2, <1>4, <1>5

\* The parts of a struct that agree with its socket.
LEMMA HandlersLeave ==
  ASSUME NEW s \in Struct
  PROVE  /\ Created(s).procR = "null" /\ Created(s).procW = "null" /\ Created(s).mem = s.mem
         /\ Streaming(s).procR = "dataReader" /\ Streaming(s).procW = "dataWriter"
         /\ Streaming(s).mem = s.mem /\ Idle(s).mem = s.mem
         /\ \A b : /\ Buffer(s, b).procR = s.procR /\ Buffer(s, b).procW = s.procW
                   /\ Buffer(s, b).check = s.check /\ Buffer(s, b).aio = b
                   /\ Buffer(s, b).mem = s.mem
         /\ \A n : Queue(s, n).procR = s.procR /\ Queue(s, n).procW = s.procW
                   /\ Queue(s, n).check = s.check /\ Queue(s, n).aio = s.aio
                   /\ Queue(s, n).mem = s.mem
         /\ \A k : /\ SendingCommand(s, k).procR = "null" /\ SendingCommand(s, k).mem = s.mem
                   /\ AwaitingLine(s, k).procR = "replyReader" /\ AwaitingLine(s, k).procW = "null"
                   /\ AwaitingLine(s, k).check = k /\ AwaitingLine(s, k).aio = "fresh"
                   /\ AwaitingLine(s, k).mem = s.mem
<1> USE DEF Struct
<1>2. ASSUME NEW b
      PROVE  /\ Buffer(s, b).procR = s.procR /\ Buffer(s, b).procW = s.procW
             /\ Buffer(s, b).check = s.check /\ Buffer(s, b).aio = b
             /\ Buffer(s, b).mem = s.mem
  <2>1. Buffer(s, b) = [s EXCEPT !["aio"] = b]
    BY Zenon DEF Buffer
  <2> QED BY <2>1
<1>3. ASSUME NEW n
      PROVE  /\ Queue(s, n).procR = s.procR /\ Queue(s, n).procW = s.procW
             /\ Queue(s, n).check = s.check /\ Queue(s, n).aio = s.aio
             /\ Queue(s, n).mem = s.mem
  <2>1. Queue(s, n) = [s EXCEPT !["out"] = n]
    BY Zenon DEF Queue
  <2> QED BY <2>1
<1>4. ASSUME NEW k
      PROVE  SendingCommand(s, k).procR = "null" /\ SendingCommand(s, k).mem = s.mem
  <2>1. SendingCommand(s, k) = [s EXCEPT !["procR"] = "null", !["procW"] = "cmdSender",
                                         !["check"] = k, !["aio"] = "cmd"]
    BY Zenon DEF SendingCommand
  <2> QED BY <2>1
<1>5. ASSUME NEW k
      PROVE  /\ AwaitingLine(s, k).procR = "replyReader" /\ AwaitingLine(s, k).procW = "null"
             /\ AwaitingLine(s, k).check = k /\ AwaitingLine(s, k).aio = "fresh"
                   /\ AwaitingLine(s, k).mem = s.mem
  <2>1. AwaitingLine(s, k) = [s EXCEPT !["procR"] = "replyReader", !["procW"] = "null",
                                       !["check"] = k, !["aio"] = "fresh"]
    BY Zenon DEF AwaitingLine
  <2> QED BY <2>1
<1>6. Created(s).procR = "null" /\ Created(s).procW = "null" /\ Created(s).mem = s.mem
  <2>1. Created(s) = [s EXCEPT !["procR"] = "null", !["procW"] = "null", !["callDisc"] = TRUE]
    BY Zenon DEF Created
  <2> QED BY <2>1
<1>7. /\ Streaming(s).procR = "dataReader" /\ Streaming(s).procW = "dataWriter"
      /\ Streaming(s).mem = s.mem
  <2>1. Streaming(s) = [s EXCEPT !["procR"] = "dataReader", !["procW"] = "dataWriter",
                                 !["callDisc"] = TRUE, !["aio"] = "stream"]
    BY Zenon DEF Streaming
  <2> QED BY <2>1
<1>8. Idle(s).mem = s.mem
  <2>1. Idle(s) = [s EXCEPT !["procR"] = "null", !["procW"] = "null"]
    BY Zenon DEF Idle
  <2> QED BY <2>1
<1> QED BY <1>2, <1>3, <1>4, <1>5, <1>6, <1>7, <1>8

-----------------------------------------------------------------------------
(* Teardown.                                                               *)

\* connDisconnect and sesDisconnect, active or not.
LEMMA DisconnectKeeps ==
  ASSUME TInv, KInv, stack # <<>>, NEW o \in Obj, NEW fs \in Seq(Frame),
         \/ Shutdown(o, obj[o]) /\ Run(o, Cancelled(Quiet(obj[o])), fs)
         \/ UNCHANGED <<desc, net>> /\ Run(o, Quiet(obj[o]), fs),
         \A j \in 1..Len(fs) : fs[j].pc # "readLoop"
  PROVE  KInv'
<1>1. obj[o] \in Struct /\ \A s : Run(o, s, fs) => obj'[o] = s
  BY DEF TInv, TypeOK, Run
<1>2. CASE Shutdown(o, obj[o]) /\ Run(o, Cancelled(Quiet(obj[o])), fs)
  <2>1. \A x \in Obj \ {o} : net'[x] = net[x]
    BY <1>2 DEF Shutdown, TInv, TypeOK
  <2>2. ~InService(o)'
    BY <1>1, <1>2, DisconnectKeepsLives DEF InService, IsActive
  <2> QED BY <1>1, <1>2, <2>1, <2>2, DisconnectKeepsLives, RunKeeps
<1>3. CASE UNCHANGED <<desc, net>> /\ Run(o, Quiet(obj[o]), fs)
  <2>1. Agree(Quiet(obj[o]), net'[o])
    BY <1>1, DisconnectKeepsLives DEF Agree
  <2> QED BY <1>1, <1>3, <2>1, DisconnectKeepsLives, RunKeeps
<1> QED BY <1>2, <1>3

\* A step that runs other functions and changes neither structs nor sockets.
LEMMA RunOnKeeps ==
  ASSUME TInv, KInv, stack # <<>>, NEW o \in Obj, NEW fs \in Seq(Frame),
         Run(o, obj[o], fs), net' = net,
         \A j \in 1..Len(fs) : fs[j].pc # "readLoop"
  PROVE  KInv'
<1>1. Lives(obj[o], obj[o])
  BY DEF Lives
<1>2. obj' = obj
  BY DEF Run, TInv
<1>3. InService(o)' => InService(o)
  <2>1. InLog(o, "error") => InLog(o, "error")'
    BY Logs DEF Run, TInv
  <2> QED BY <1>2, <2>1 DEF InService
<1>4. InService(o)' => Agree(obj[o], net'[o])
  BY <1>3 DEF KInv
<1> QED BY <1>1, <1>4, RunKeeps

\* What teardown runs next is no read loop.
NoLoop(fs) == fs \in Seq(Frame) /\ \A j \in 1..Len(fs) : fs[j].pc # "readLoop"

\* The frames of a call that ends something hold no read loop.
LEMMA NoLoops ==
  ASSUME NEW o \in Obj
  PROVE  /\ NoLoop(<<>>)
         /\ \A p \in Pcs \ {"readLoop"} :
              /\ NoLoop(<<F(p, o)>>)
              /\ \A q \in Pcs \ {"readLoop"}, x \in Obj :
                   /\ NoLoop(<<F(p, o), F(q, x)>>)
                   /\ \A r \in Pcs \ {"readLoop"}, y \in Obj : NoLoop(<<F(p, o), F(q, x), F(r, y)>>)
<1>1. \A p \in Pcs, x \in Obj : F(p, x) \in Frame /\ F(p, x).pc = p
  BY DEF F, Frame
<1>2. NoLoop(<<>>)
  BY DEF NoLoop
<1> SUFFICES ASSUME NEW p \in Pcs \ {"readLoop"}, NEW q \in Pcs \ {"readLoop"}, NEW x \in Obj,
                    NEW r \in Pcs \ {"readLoop"}, NEW y \in Obj
             PROVE  /\ NoLoop(<<F(p, o)>>) /\ NoLoop(<<F(p, o), F(q, x)>>)
                    /\ NoLoop(<<F(p, o), F(q, x), F(r, y)>>)
  BY <1>2
<1> DEFINE f == F(p, o)
           g == F(q, x)
           h == F(r, y)
<1>3. f \in Frame /\ g \in Frame /\ h \in Frame
      /\ f.pc # "readLoop" /\ g.pc # "readLoop" /\ h.pc # "readLoop"
  BY <1>1
<1> HIDE DEF f, g, h
<1>4. NoLoop(<<f>>) /\ NoLoop(<<f, g>>) /\ NoLoop(<<f, g, h>>)
  BY <1>3 DEF NoLoop
<1> QED BY <1>4 DEF f, g, h

\* Two pieces of a stack without the loop make one.
LEMMA NoLoopJoin ==
  ASSUME NEW fs, NEW gs, NoLoop(fs), NoLoop(gs)
  PROVE  NoLoop(fs \o gs)
<1>1. fs \in Seq(Frame) /\ gs \in Seq(Frame)
  BY DEF NoLoop
<1>2. /\ fs \o gs \in Seq(Frame) /\ Len(fs \o gs) = Len(fs) + Len(gs)
      /\ \A i \in 1..Len(fs \o gs) :
           (fs \o gs)[i] = IF i <= Len(fs) THEN fs[i] ELSE gs[i - Len(fs)]
  BY <1>1, ConcatProperties
<1>3. Len(fs) \in Nat /\ Len(gs) \in Nat
  BY <1>1, LenProperties
<1>4. \A i \in 1..Len(fs \o gs) : i \in 1..Len(fs) \/ i - Len(fs) \in 1..Len(gs)
  BY <1>2, <1>3
<1> QED BY <1>2, <1>3, <1>4 DEF NoLoop

\* The rest of a disconnect, of an error or of a close, which cancels, closes and
\* frees structs.
LEMMA TeardownKeeps ==
  ASSUME TInv, KInv, Teardown
  PROVE  KInv'
<1> USE DEF At
<1>0. Ses \in Obj /\ Conns \subseteq Obj
  BY DEF Obj
<1>1. \A o \in Obj : obj[o] \in Struct
  BY DEF TInv, TypeOK
<1>p. {"cascade", "cbDisconnected", "cbDestroy", "freeSession", "closeSession", "freeConn",
       "connDisconnect", "destroyConn"} \subseteq Pcs \ {"readLoop"}
  BY DEF Pcs, Callbacks
<1>2. CASE sesDisconnect
  <2>1. NoLoop(<<F("cascade", Ses)>>) /\ NoLoop(<<>>)
    BY <1>0, <1>p, NoLoops
  <2> QED BY <1>0, <1>2, <2>1, DisconnectKeeps DEF sesDisconnect, NoLoop
<1>3. CASE closeSession
  <2>1. NoLoop(<<F("freeSession", Ses)>>) /\ NoLoop(<<F("cbDestroy", Ses), F("freeSession", Ses)>>)
    BY <1>0, <1>p, NoLoops
  <2>2. connlist # <<>> =>
          NoLoop(CloseConnFrames(Head(connlist)) \o <<F("closeSession", Ses)>>)
    <3>1. connlist # <<>> => Head(connlist) \in Conns
      BY DEF TInv, TypeOK
    <3>2. NoLoop(<<F("closeSession", Ses)>>) /\ \A c \in Obj : NoLoop(CloseConnFrames(c))
      BY <1>0, <1>p, NoLoops DEF CloseConnFrames
    <3>3. \A c \in Obj : NoLoop(CloseConnFrames(c) \o <<F("closeSession", Ses)>>)
      BY <3>2, NoLoopJoin
    <3> DEFINE c == Head(connlist)
    <3>4. connlist # <<>> => c \in Obj
      BY <1>0, <3>1
    <3> HIDE DEF c
    <3> QED BY <3>3, <3>4 DEF c
  <2>3. \E fs : NoLoop(fs) /\ Run(Ses, obj[Ses], fs)
    BY <1>3, <2>1, <2>2 DEF closeSession
  <2> QED BY <1>0, <1>3, <2>3, RunOnKeeps DEF closeSession, NoLoop
<1>4. ASSUME NEW o \in Obj, stack # <<>>, Run(o, Zeroed, <<>>), net' = net
      PROVE  KInv'
  <2>1. NoLoop(<<>>)
    BY NoLoops, <1>0
  <2>2. ~InService(o)'
    BY <1>4 DEF Run, TInv, InService, Zeroed
  <2> QED BY <1>1, <1>4, <2>1, <2>2, RunKeeps, DisconnectKeepsLives DEF NoLoop
<1>5. CASE freeSession
  BY <1>0, <1>4, <1>5 DEF freeSession
<1>6. ASSUME NEW o \in Obj, sesDisconnectLoop(o)
      PROVE  KInv'
  <2>1. HasNext(o) => Successor(o) \in Conns
    BY PosType DEF TInv
  <2>2. HasNext(o) => NoLoop(<<F("connDisconnect", Successor(o)), F("cascade", Successor(o))>>)
    BY <1>0, <1>p, <2>1, NoLoops
  <2>3. NoLoop(<<F("cbDisconnected", Ses)>>) /\ NoLoop(<<>>)
    BY <1>0, <1>p, NoLoops
  <2>4. \E fs : NoLoop(fs) /\ Run(Ses, obj[Ses], fs)
    BY <1>6, <2>2, <2>3 DEF sesDisconnectLoop
  <2> QED BY <1>0, <1>6, <2>4, RunOnKeeps DEF sesDisconnectLoop, NoLoop
<1>7. ASSUME NEW c \in Conns, connDisconnect(c)
      PROVE  KInv'
  <2>1. NoLoop(<<F("cbDisconnected", c)>>) /\ NoLoop(<<>>)
    BY <1>0, <1>p, NoLoops
  <2> QED BY <1>0, <1>7, <2>1, DisconnectKeeps DEF connDisconnect, NoLoop
<1>8. ASSUME NEW c \in Conns, destroyConn(c)
      PROVE  KInv'
  <2>1. NoLoop(<<F("cbDestroy", c), F("freeConn", c)>>)
    BY <1>0, <1>p, NoLoops
  <2> QED BY <1>0, <1>8, <2>1, RunOnKeeps DEF destroyConn, NoLoop
<1>9. ASSUME NEW c \in Conns, freeConn(c)
      PROVE  KInv'
  BY <1>0, <1>4, <1>9 DEF freeConn
<1> QED BY <1>2, <1>3, <1>5, <1>6, <1>7, <1>8, <1>9 DEF Teardown

-----------------------------------------------------------------------------
(* The application.                                                        *)

\* A step that only runs library functions from the application.
LEMMA CallInStep ==
  ASSUME TInv, KInv, NEW fs, NoLoop(fs), Call(fs), obj' = obj, net' = net
  PROVE  KInv'
<1>1. Ses \in Obj /\ TypeOK
  BY DEF Obj, TInv
<1>2. InService(Ses)' => Agree(obj'[Ses], net'[Ses])
  <2>1. InLog(Ses, "error") => InLog(Ses, "error")'
    BY <1>1, Logs DEF Call, NoLoop
  <2> QED BY <1>1, <2>1 DEF KInv, InService
<1>3. \A j \in 1..Len(fs) : LoopsOpen(fs[j], obj')
  BY DEF NoLoop, LoopsOpen
<1>4. Lives(obj[Ses], obj'[Ses])
  BY DEF Lives
<1> QED BY <1>1, <1>2, <1>3, <1>4, StepKeeps DEF NoLoop, Call

\* A new struct and its socket.
LEMMA NewAgrees ==
  /\ Silent(NewSocket)
  /\ \A k \in Kinds : Connecting(k).procR = "null" /\ Connecting(k).mem = "live"
<1>1. Silent(NewSocket)
  <2>1. NewSocket = [NoSocket EXCEPT !["link"] = "connecting"]
    BY Zenon DEF NewSocket
  <2> QED BY <2>1 DEF NoSocket, Silent
<1>2. ASSUME NEW k \in Kinds
      PROVE  Connecting(k).procR = "null" /\ Connecting(k).mem = "live"
  <2>1. Connecting(k) = [Zeroed EXCEPT !["mem"] = "live", !["kind"] = k,
                                       !["fd"] = "own", !["procW"] = "connected"]
    BY Zenon DEF Connecting
  <2> QED BY <2>1 DEF Zeroed
<1> QED BY <1>1, <1>2

\* What the application calls from its main loop: it finds no struct, makes one
\* that is silent, or leaves the one it names in step.
LEMMA AppKeeps ==
  ASSUME TInv, KInv, App
  PROVE  KInv'
<1>0. Ses \in Obj /\ Conns \subseteq Obj
  BY DEF Obj
<1>1. /\ \A o \in Obj : obj[o] \in SoundStruct /\ obj[o] \in Struct
      /\ obj \in [Obj -> Struct] /\ net \in [Obj -> Socket] /\ TypeOK
  BY DEF TInv, TypeOK, SoundStruct
<1>2. ASSUME NEW o \in Obj, NEW k \in Kinds, obj[o].mem = "none",
             obj' = [obj EXCEPT ![o] = Connecting(k)],
             net' = [net EXCEPT ![o] = NewSocket],
             UNCHANGED <<stack, told>>
      PROVE  KInv'
  <2> DEFINE s == Connecting(k)
  <2>0. obj'[o] = s /\ net'[o] = NewSocket
        /\ \A x \in Obj \ {o} : obj'[x] = obj[x] /\ net'[x] = net[x]
    BY <1>1, <1>2
  <2>1. s.procR = "null" /\ s.mem = "live" /\ Silent(NewSocket)
    BY NewAgrees
  <2> HIDE DEF s
  <2>2. Agree(s, NewSocket)
    BY <2>1 DEF Agree
  <2>3. ASSUME NEW x \in Obj, InService(x)'
        PROVE  Agree(obj'[x], net'[x])
    <3>1. CASE x = o
      BY <2>0, <2>2, <3>1
    <3>2. CASE x # o
      BY <1>2, <2>0, <2>3, <3>2 DEF KInv, InService, InLog
    <3> QED BY <3>1, <3>2
  <2>4. ASSUME NEW i \in 1..Len(stack)
        PROVE  LoopsOpen(stack[i], obj')
    <3>1. LoopsOpen(stack[i], obj) /\ stack[i].o \in Obj
      <4>1. stack \in Seq(Frame)
        BY <1>1 DEF TypeOK
      <4>2. stack[i] \in Frame
        BY <4>1
      <4> QED BY <4>2 DEF KInv, Frame
    <3>2. CASE stack[i].o = o
      BY <1>2, <3>1, <3>2 DEF LoopsOpen, OpenOrGone
    <3>3. CASE stack[i].o # o
      BY <2>0, <3>1, <3>3 DEF LoopsOpen
    <3> QED BY <3>2, <3>3
  <2>5. ASSUME NEW x \in Obj, obj'[x].mem = "none"
        PROVE  obj'[x].fd = "none"
    BY <2>0, <2>1, <2>5 DEF KInv
  <2> QED BY <1>2, <2>3, <2>4, <2>5 DEF KInv
<1>3. ASSUME NEW kinds, OpenSession(kinds)
      PROVE  KInv'
  BY <1>0, <1>2, <1>3, ApplicationAssumption DEF OpenSession, Kinds
<1>4. ASSUME NEW c \in Conns, NEW kind, OpenConnection(c, kind)
      PROVE  KInv'
  BY <1>0, <1>2, <1>4, ApplicationAssumption DEF OpenConnection, Kinds
<1>5. ASSUME NEW fs, NoLoop(fs), ApiCall(fs)
      PROVE  KInv'
  BY <1>5, CallInStep DEF ApiCall
<1>p. {"sesDisconnect", "connDisconnect", "destroyConn", "closeSession"} \subseteq Pcs \ {"readLoop"}
  BY DEF Pcs
<1>6. /\ NoLoop(<<F("sesDisconnect", Ses)>>)
      /\ NoLoop(<<F("sesDisconnect", Ses), F("closeSession", Ses)>>)
      /\ \A c \in Conns : NoLoop(<<F("connDisconnect", c)>>) /\ NoLoop(CloseConnFrames(c))
  BY <1>0, <1>p, NoLoops DEF CloseConnFrames
<1>7. CASE sam3aCancelSession \/ sam3aCloseSession
  BY <1>5, <1>6, <1>7 DEF sam3aCancelSession, sam3aCloseSession
<1>8. ASSUME NEW c \in Conns, sam3aCancelConnection(c) \/ sam3aCloseConnection(c)
      PROVE  KInv'
  BY <1>5, <1>6, <1>8 DEF sam3aCancelConnection, sam3aCloseConnection
<1>9. ASSUME NEW c \in Conns, sam3aSend(c)
      PROVE  KInv'
  <2> DEFINE n == obj[c].out + 1
  <2>1. c \in Obj /\ obj[c].callDisc /\ obj[c] \in Struct /\ IsActive(obj[c])
    BY <1>0, <1>1, <1>9 DEF sam3aSend
  <2>2. obj' = [obj EXCEPT ![c] = Queue(obj[c], n)] /\ net' = net /\ stack' = stack /\ told' = told
    BY <1>9 DEF sam3aSend
  <2>3. obj'[c] = Queue(obj[c], n) /\ \A x \in Obj \ {c} : obj'[x] = obj[x]
    BY <1>1, <2>1, <2>2
  <2> HIDE DEF n
  <2>4. ~(obj[c].procR = "replyReader") /\ obj[c].procW \notin {"connected", "cmdSender"}
    <3>1. obj[c] \in SoundStruct
      BY <1>1, <2>1
    <3> QED BY <2>1, <3>1 DEF SoundStruct, IsIdle, IsConnecting, IsSending, IsAwaiting, IsStreaming
  <2>5. Agree(obj'[c], net'[c])
    BY <2>1, <2>3, <2>4, HandlersLeave DEF Agree
  <2>6. Lives(obj[c], obj'[c])
    BY <2>1, <2>3, HandlersKeepLives
  <2>7. NoLoop(<<>>) /\ Told(<<>>) = told /\ <<>> \o stack = stack
    <3>1. stack \in Seq(Frame)
      BY <1>1 DEF TypeOK
    <3> QED BY <3>1, <1>0, NoLoops DEF Told
  <2> DEFINE fs == <<>>
  <2>8. /\ fs \in Seq(Frame) /\ stack' = fs \o stack /\ told' = Told(fs)
        /\ \A j \in 1..Len(fs) : LoopsOpen(fs[j], obj')
    BY <2>2, <2>7 DEF NoLoop, LoopsOpen
  <2> HIDE DEF fs
  <2> QED BY <1>1, <2>1, <2>2, <2>3, <2>5, <2>6, <2>8, StepKeeps
<1> QED BY <1>3, <1>4, <1>7, <1>8, <1>9
        DEF App, sam3aCreateSessionEx, sam3aGenerateKeysEx, sam3aNameLookupEx,
            sam3aStreamConnectEx, sam3aStreamAcceptEx

-----------------------------------------------------------------------------
(* The handlers.                                                           *)

\* The end of a handler that leaves its struct in agreement with the socket.
LEMMA HandlerKeeps ==
  ASSUME TInv, KInv, stack # <<>>, NEW o \in Obj, IsActive(obj[o]),
         NEW s, s.mem = obj[o].mem, Lives(obj[o], s), NEW fs, NoLoop(fs), Run(o, s, fs),
         \A x \in Obj \ {o} : net'[x] = net[x],
         Agree(obj[o], net[o]) => Agree(s, net'[o])
  PROVE  KInv'
<1>1. InService(o)' => Agree(s, net'[o])
  <2>1. InLog(o, "error") => InLog(o, "error")'
    BY Logs DEF Run, TInv, NoLoop
  <2>2. obj'[o] = s
    BY DEF Run, TInv
  <2>3. InService(o)' => InService(o)
    BY <2>1, <2>2 DEF InService
  <2> QED BY <2>3 DEF KInv
<1> QED BY <1>1, RunKeeps DEF NoLoop

\* aioSesSendCmdWaitReply, aioConnSendCmdWaitReply: nothing is on its way when
\* a command is queued.
LEMMA SendKeeps ==
  ASSUME TInv, KInv, stack # <<>>, NEW o \in Obj, IsActive(obj[o]),
         NEW s \in Struct, s.mem = obj[o].mem, Lives(obj[o], s),
         NEW k, SendCmdWaitReply(o, s, k),
         \A x \in Obj \ {o} : net'[x] = net[x],
         Agree(obj[o], net[o]) => Silent(net'[o])
  PROVE  KInv'
<1>1. CASE Fail(o, s)
  BY <1>1, FailKeeps
<1>2. CASE Run(o, SendingCommand(s, k), <<>>)
  <2> DEFINE t == SendingCommand(s, k)
  <2>1. t.mem = obj[o].mem /\ t.procR = "null" /\ Lives(obj[o], t)
    <3>1. Lives(s, t)
      BY HandlersKeepLives
    <3> QED BY <3>1, HandlersLeave DEF Lives
  <2>2. NoLoop(<<>>)
    BY NoLoops
  <2>3. Run(o, t, <<>>)
    BY <1>2
  <2> HIDE DEF t
  <2>4. Silent(net'[o]) => Agree(t, net'[o])
    BY <2>1 DEF Agree
  <2> QED BY <2>1, <2>2, <2>3, <2>4, HandlerKeeps
<1> QED BY <1>1, <1>2 DEF SendCmdWaitReply

\* aioSesConnected, aioConnConnected.
LEMMA ConnectedKeeps ==
  ASSUME TInv, KInv, stack # <<>>, NEW o \in Obj, IsActive(obj[o]),
         obj[o].procW = "connected", Connected(o)
  PROVE  KInv'
<1>1. obj[o] \in Struct /\ Lives(obj[o], obj[o]) /\ net' = net
  BY DEF TInv, TypeOK, Lives, Connected
<1>2. Agree(obj[o], net[o]) => Silent(net'[o])
  BY <1>1 DEF Agree
<1>3. CASE SendCmdWaitReply(o, obj[o], "hello")
  BY <1>1, <1>2, <1>3, SendKeeps
<1>4. CASE Fail(o, obj[o])
  BY <1>1, <1>4, FailKeeps
<1> QED BY <1>3, <1>4 DEF Connected

\* What the sender of a command changes in the socket.
LEMMA SentSocket ==
  ASSUME TInv, NEW o \in Obj, Sent(o), obj[o].check \in Commands
  PROVE  /\ \A x \in Obj \ {o} : net'[x] = net[x]
         /\ net'[o].inbox = net[o].inbox /\ net'[o].half = net[o].half
         /\ net'[o].hang = net[o].hang
         /\ net[o].hang = "open" => net'[o].req = obj[o].check
<1>1. net \in [Obj -> Socket] /\ net[o] \in Socket
  BY DEF TInv, TypeOK
<1>2. CASE net[o].hang = "open"
  <2>1. net' = [net EXCEPT ![o] = [net[o] EXCEPT !["req"] = obj[o].check]]
    <3>1. net' = [net EXCEPT ![o].req = obj[o].check]
      BY <1>2 DEF Sent
    <3> QED BY <3>1, Zenon
  <2> QED BY <1>1, <2>1 DEF Socket
<1>3. CASE net[o].hang # "open"
  BY <1>3 DEF Sent
<1> QED BY <1>2, <1>3

\* aioSesCmdSender, aioConnCmdSender: one command at a time is on its way.
LEMMA CmdSenderKeeps ==
  ASSUME TInv, KInv, stack # <<>>, NEW o \in Obj, IsActive(obj[o]),
         obj[o].procW = "cmdSender", CmdSender(o)
  PROVE  KInv'
<1>1. obj[o] \in Struct /\ Lives(obj[o], obj[o])
  BY DEF TInv, TypeOK, Lives
<1>2. obj[o].check \in Commands
  BY DEF TInv, SoundStruct, IsIdle, IsConnecting, IsSending, IsAwaiting, IsStreaming
<1>3. NoLoop(<<>>)
  BY NoLoops
<1>4. CASE Run(o, AwaitingLine(obj[o], obj[o].check), <<>>) /\ Sent(o)
  <2> DEFINE t == AwaitingLine(obj[o], obj[o].check)
  <2>1. /\ t.mem = obj[o].mem /\ t.procR = "replyReader" /\ t.procW = "null"
        /\ t.check = obj[o].check /\ t.aio = "fresh" /\ Lives(obj[o], t)
    BY <1>1, HandlersLeave, HandlersKeepLives
  <2>2. Run(o, t, <<>>)
    BY <1>4
  <2> HIDE DEF t
  <2>3. Agree(obj[o], net[o]) => Silent(net[o])
    BY DEF Agree
  <2>4. Silent(net[o]) => ReplyAwaited(t.check, net'[o].inbox, net'[o], FALSE)
    BY <1>2, <1>4, <2>1, SentSocket DEF Silent, ReplyAwaited
  <2>5. Agree(obj[o], net[o]) => Agree(t, net'[o])
    BY <1>2, <2>1, <2>3, <2>4 DEF Agree
  <2> QED BY <1>2, <1>3, <1>4, <2>1, <2>2, <2>5, SentSocket, HandlerKeeps
<1>5. CASE Fail(o, obj[o]) /\ (Sent(o) \/ UNCHANGED net)
  BY <1>1, <1>2, <1>5, SentSocket, FailKeeps
<1>6. CASE Run(o, obj[o], <<>>) /\ UNCHANGED net
  BY <1>3, <1>6, RunOnKeeps DEF NoLoop
<1> QED BY <1>4, <1>5, <1>6 DEF CmdSender

-----------------------------------------------------------------------------
(* The line reader.                                                        *)

\* What the reader changes in the socket.
LEMMA ReadSocket ==
  ASSUME TInv, NEW o \in Obj, net' = [net EXCEPT ![o].inbox = Unread(o)]
  PROVE  /\ \A x \in Obj \ {o} : net'[x] = net[x]
         /\ net'[o].inbox = Unread(o) /\ net'[o].half = net[o].half
         /\ net'[o].hang = net[o].hang /\ net'[o].req = net[o].req
<1>1. net \in [Obj -> Socket] /\ net[o] \in Socket
  BY DEF TInv, TypeOK
<1>2. net' = [net EXCEPT ![o] = [net[o] EXCEPT !["inbox"] = Unread(o)]]
  BY Zenon
<1> QED BY <1>1, <1>2 DEF Socket

\* Only these parts of a socket matter to those who wait.
LEMMA SameSocket ==
  ASSUME NEW n, NEW m, n.half = m.half, n.hang = m.hang, n.req = m.req
  PROVE  /\ \A q, t : PeerAwaited(q, n, t) <=> PeerAwaited(q, m, t)
         /\ \A k, r, q : Answered(k, r, q, n) <=> Answered(k, r, q, m)
         /\ \A k, q, t : ReplyAwaited(k, q, n, t) <=> ReplyAwaited(k, q, m, t)
<1>1. \A q, t : PeerAwaited(q, n, t) <=> PeerAwaited(q, m, t)
  BY DEF PeerAwaited
<1>2. \A k, r, q : Answered(k, r, q, n) <=> Answered(k, r, q, m)
  BY <1>1 DEF Answered
<1>3. \A k, q, t : ReplyAwaited(k, q, n, t) <=> ReplyAwaited(k, q, m, t)
  BY <1>2 DEF ReplyAwaited
<1> QED BY <1>1, <1>2, <1>3

\* A part of a line alone is nobody's line.
LEMMA PartAlone ==
  /\ Whole(<<Part>>) = <<Part>> /\ Head(<<Part>>) = Part /\ Tail(<<Part>>) = <<>>
  /\ <<Part>> # <<>> /\ Part.to = "part"
<1>1. Whole(<<Part>>) = <<Part>>
  BY DEF Whole
<1> QED BY <1>1 DEF Part

\* No line, or a part of one, or one that does not fit.
LEMMA NoLineKeeps ==
  ASSUME TInv, KInv, stack # <<>>, NEW o \in Obj, IsActive(obj[o]),
         obj[o].procR = "replyReader", NoLine(o)
  PROVE  KInv'
<1>1. obj[o] \in Struct /\ Lives(obj[o], obj[o])
  BY DEF TInv, TypeOK, Lives
<1>2. NoLoop(<<>>)
  BY NoLoops
<1>3. net' = [net EXCEPT ![o].inbox = Unread(o)]
  BY DEF NoLine
<1>4. CASE Fail(o, obj[o])
  BY <1>1, <1>3, <1>4, ReadSocket, FailKeeps
<1>5. CASE net[o].inbox = <<>> /\ Run(o, obj[o], <<>>)
  <2>1. net'[o].inbox = net[o].inbox
    BY <1>3, <1>5, ReadSocket DEF Unread
  <2>2. Agree(obj[o], net[o]) => Agree(obj[o], net'[o])
    BY <1>3, <2>1, ReadSocket, SameSocket DEF Agree, Silent
  <2> QED BY <1>1, <1>2, <1>3, <1>5, <2>2, ReadSocket, HandlerKeeps
<1>6. CASE /\ obj[o].aio # "full" /\ net[o].inbox = <<Part>>
           /\ Run(o, Buffer(obj[o], "partial"), <<>>)
  <2> DEFINE t == Buffer(obj[o], "partial")
  <2>1. /\ t.mem = obj[o].mem /\ t.procR = "replyReader" /\ t.procW = obj[o].procW
        /\ t.check = obj[o].check /\ t.aio = "partial" /\ Lives(obj[o], t)
    BY <1>1, HandlersLeave, HandlersKeepLives
  <2>2. Run(o, t, <<>>)
    BY <1>6
  <2> HIDE DEF t
  <2>3. net'[o].inbox = <<>>
    BY <1>3, <1>6, ReadSocket, PartAlone DEF Unread
  <2>4. obj[o].procW = "null"
    BY DEF TInv, SoundStruct, IsIdle, IsConnecting, IsSending, IsAwaiting, IsStreaming
  <2>5. \A d : PeerAwaited(<<Part>>, net[o], d) => PeerAwaited(<<>>, net'[o], TRUE)
    BY <1>3, ReadSocket, PartAlone DEF PeerAwaited
  <2>6. \A k, d : ReplyAwaited(k, <<Part>>, net[o], d) => ReplyAwaited(k, <<>>, net'[o], TRUE)
    BY <1>3, ReadSocket, PartAlone DEF ReplyAwaited, Answered
  <2>7. Agree(obj[o], net[o]) => Agree(t, net'[o])
    BY <1>6, <2>1, <2>3, <2>4, <2>5, <2>6 DEF Agree
  <2> QED BY <1>2, <1>3, <2>1, <2>2, <2>7, ReadSocket, HandlerKeeps
<1> QED BY <1>4, <1>5, <1>6 DEF NoLine, LineAbsent, LineFails

\* The line that a checker is given is the one it waits for.
LEMMA HasLineAgrees ==
  ASSUME TInv, NEW o \in Obj, obj[o].procR = "replyReader", HasLine(o),
         Agree(obj[o], net[o])
  PROVE  /\ obj[o].check \in Commands =>
              Answered(obj[o].check, Line(o), net'[o].inbox, net'[o])
         /\ obj[o].check = "acceptA" => Line(o).to = "acceptA"
<1>1. /\ obj[o].aio = "fresh" /\ net[o].inbox # <<>> /\ net[o].inbox # <<Part>>
  BY DEF HasLine, LineAbsent, LineFails, TInv, SoundStruct, IsIdle, IsConnecting, IsSending,
         IsAwaiting, IsStreaming
<1>2. net' = [net EXCEPT ![o].inbox = Unread(o)]
  BY DEF HasLine
<1>3. net'[o].inbox = Tail(Whole(net[o].inbox)) /\ Line(o) = Head(Whole(net[o].inbox))
  BY <1>1, <1>2, ReadSocket DEF Unread, Line
<1>4. "acceptA" \notin Commands
  BY DEF Commands
<1>5. obj[o].check = "acceptA" => Line(o).to = "acceptA"
  BY <1>1, <1>3, <1>4 DEF Agree, PeerAwaited
<1>6. ASSUME obj[o].check \in Commands
      PROVE  Answered(obj[o].check, Line(o), net'[o].inbox, net'[o])
  <2>1. Answered(obj[o].check, Line(o), net'[o].inbox, net[o])
    BY <1>1, <1>3, <1>4, <1>6 DEF Agree, ReplyAwaited
  <2> QED BY <1>2, <2>1, ReadSocket, SameSocket
<1> QED BY <1>5, <1>6

\* What the struct of a reader is when the line is in its buffer.
LEMMA HasLineStruct ==
  ASSUME TInv, NEW o \in Obj, obj[o].procR = "replyReader"
  PROVE  LET s == Buffer(obj[o], "full")
         IN /\ s \in Struct /\ s.mem = obj[o].mem /\ Lives(obj[o], s)
            /\ s.check = obj[o].check /\ s.aio = "full" /\ s.procW = "null"
            /\ Idle(s) \in Struct /\ Idle(s).mem = obj[o].mem /\ Lives(obj[o], Idle(s))
            /\ \A t : Lives(s, t) => Lives(obj[o], t)
<1> DEFINE s == Buffer(obj[o], "full")
<1>1. obj[o] \in SoundStruct /\ obj[o] \in Struct
  BY DEF TInv, TypeOK
<1>2. s \in SoundStruct /\ IsAwaiting(s)
  BY <1>1, ChangedStructs
<1>3. s \in Struct /\ Idle(s) \in Struct
  <2>1. Idle(s) \in SoundStruct
    BY <1>2, ChangedStructs DEF IsAwaiting
  <2> QED BY <1>2, <2>1 DEF SoundStruct
<1>4. s.mem = obj[o].mem /\ Lives(obj[o], s) /\ s.check = obj[o].check /\ s.aio = "full"
  BY <1>1, HandlersLeave, HandlersKeepLives
<1>5. s.procW = "null"
  BY <1>2 DEF IsAwaiting
<1>6. \A t : Lives(s, t) => Lives(obj[o], t)
  BY <1>4 DEF Lives
<1>7. Idle(s).mem = obj[o].mem /\ Lives(obj[o], Idle(s))
  BY <1>3, <1>4, <1>6, HandlersLeave, HandlersKeepLives
<1> QED BY <1>3, <1>4, <1>5, <1>6, <1>7

\* The reply checkers of a session.
LEMMA SesReaderKeeps ==
  ASSUME TInv, KInv, stack # <<>>, IsActive(obj[Ses]), obj[Ses].procR = "replyReader",
         aioSesCmdReplyReader
  PROVE  KInv'
<1>0. Ses \in Obj
  BY DEF Obj
<1> DEFINE s == Buffer(obj[Ses], "full")
           r == Line(Ses)
<1>1. /\ s \in Struct /\ s.mem = obj[Ses].mem /\ Lives(obj[Ses], s)
      /\ s.check = obj[Ses].check /\ s.aio = "full" /\ s.procW = "null"
      /\ Idle(s) \in Struct /\ Idle(s).mem = obj[Ses].mem /\ Lives(obj[Ses], Idle(s))
      /\ \A t : Lives(s, t) => Lives(obj[Ses], t)
  BY <1>0, HasLineStruct
<1>2. CASE NoLine(Ses)
  BY <1>0, <1>2, NoLineKeeps
<1>3. CASE ~NoLine(Ses)
  <2>1. HasLine(Ses)
    BY <1>3 DEF aioSesCmdReplyReader
  <2>2. \A x \in Obj \ {Ses} : net'[x] = net[x]
    BY <1>0, <2>1, ReadSocket DEF HasLine
  <2>3. \/ s.check = "hello" /\ aioSesHelloChecker(s, r)
        \/ s.check = "create" /\ aioSesCreateChecker(s, r)
        \/ s.check = "nameMe" /\ aioSesNameMeChecker(s, r)
        \/ s.check = "keyGen" /\ aioSesKeyGenChecker(s, r)
        \/ s.check = "nameRes" /\ aioSesNameResChecker(s, r)
    BY <1>3 DEF aioSesCmdReplyReader
  <2> HIDE DEF s, r
  <2>4. /\ s.check \in Commands /\ s.check \notin {"connect", "accept"}
    BY <2>3 DEF Commands
  <2>5. Agree(obj[Ses], net[Ses]) => Silent(net'[Ses])
    BY <1>0, <1>1, <2>1, <2>4, HasLineAgrees DEF Answered, Silent
  <2>6. ASSUME NEW k, SendCmdWaitReply(Ses, Idle(s), k) \/ SendCmdWaitReply(Ses, s, k)
        PROVE  KInv'
    BY <1>0, <1>1, <2>2, <2>5, <2>6, SendKeeps
  <2>7. CASE Fail(Ses, s)
    BY <1>0, <1>1, <2>2, <2>7, FailKeeps
  <2>8. ASSUME NEW fs, NoLoop(fs), Run(Ses, s, fs)
        PROVE  KInv'
    <3>1. Silent(net'[Ses]) => Agree(s, net'[Ses])
      BY <1>1 DEF Agree, Silent
    <3> QED BY <1>0, <1>1, <2>2, <2>5, <2>8, <3>1, HandlerKeeps
  <2>p. {"cbCreated", "cbAnswer", "sesDisconnect", "crashed"} \subseteq Pcs \ {"readLoop"}
    BY DEF Pcs, Callbacks
  <2>9. /\ NoLoop(<<>>) /\ NoLoop(<<F("cbCreated", Ses)>>) /\ NoLoop(<<F("crashed", Ses)>>)
        /\ NoLoop(<<F("cbAnswer", Ses), F("sesDisconnect", Ses)>>)
    BY <1>0, <2>p, NoLoops
  <2>10. CASE aioSesHelloChecker(s, r)
    BY <2>6, <2>7, <2>10
       DEF aioSesHelloChecker, aioSesHandshacked, aioSesKeyGenHandshacked,
           aioSesNameResHandshacked, aioSesSendCmdWaitReply
  <2>11. CASE aioSesCreateChecker(s, r)
    BY <2>6, <2>7, <2>11 DEF aioSesCreateChecker, aioSesSendCmdWaitReply
  <2>12. CASE aioSesNameMeChecker(s, r)
    <3>1. CASE Run(Ses, Created(s), <<F("cbCreated", Ses)>>)
      <4> DEFINE t == Created(s)
      <4>1. t.mem = obj[Ses].mem /\ t.procR = "null" /\ t.procW = "null" /\ Lives(obj[Ses], t)
        BY <1>1, HandlersLeave, HandlersKeepLives
      <4>2. Run(Ses, t, <<F("cbCreated", Ses)>>)
        BY <3>1
      <4> HIDE DEF t
      <4>3. Agree(t, net'[Ses])
        BY <4>1 DEF Agree
      <4> QED BY <1>0, <2>2, <2>9, <4>1, <4>2, <4>3, HandlerKeeps
    <3> QED BY <2>7, <2>12, <3>1 DEF aioSesNameMeChecker
  <2>13. CASE aioSesKeyGenChecker(s, r)
    BY <2>7, <2>8, <2>9, <2>13 DEF aioSesKeyGenChecker
  <2>14. CASE aioSesNameResChecker(s, r)
    BY <2>7, <2>8, <2>9, <2>14 DEF aioSesNameResChecker
  <2> QED BY <2>3, <2>10, <2>11, <2>12, <2>13, <2>14
<1> QED BY <1>2, <1>3

\* The reply checkers of a connection.
LEMMA ConnReaderKeeps ==
  ASSUME TInv, KInv, stack # <<>>, NEW c \in Conns, IsActive(obj[c]),
         obj[c].procR = "replyReader", aioConnCmdReplyReader(c)
  PROVE  KInv'
<1>0. c \in Obj
  BY DEF Obj
<1> DEFINE s == Buffer(obj[c], "full")
           r == Line(c)
<1>1. /\ s \in Struct /\ s.mem = obj[c].mem /\ Lives(obj[c], s)
      /\ s.check = obj[c].check /\ s.aio = "full" /\ s.procW = "null"
      /\ Idle(s) \in Struct /\ Idle(s).mem = obj[c].mem /\ Lives(obj[c], Idle(s))
      /\ \A t : Lives(s, t) => Lives(obj[c], t)
  BY <1>0, HasLineStruct
<1>2. CASE NoLine(c)
  BY <1>0, <1>2, NoLineKeeps
<1>3. CASE ~NoLine(c)
  <2>1. HasLine(c)
    BY <1>3 DEF aioConnCmdReplyReader
  <2>2. \A x \in Obj \ {c} : net'[x] = net[x]
    BY <1>0, <2>1, ReadSocket DEF HasLine
  <2>3. \/ s.check = "hello" /\ aioConnHelloChecker(c, s, r)
        \/ s.check = "connect" /\ aioConnConnectChecker(c, s, r)
        \/ s.check = "accept" /\ aioConnAcceptChecker(c, s, r)
        \/ s.check = "acceptA" /\ aioConnAcceptCheckerA(c, s, r)
    BY <1>3 DEF aioConnCmdReplyReader
  <2>r. Agree(obj[c], net[c]) /\ s.check \in Commands =>
          Answered(s.check, r, net'[c].inbox, net'[c])
    BY <1>0, <1>1, <2>1, HasLineAgrees
  <2> HIDE DEF s, r
  <2>7. CASE Fail(c, s)
    BY <1>0, <1>1, <2>2, <2>7, FailKeeps
  <2>p. {"cbConnected", "cbAccepted", "ready"} \subseteq Pcs \ {"readLoop"}
    BY DEF Pcs, Callbacks
  <2>9. /\ NoLoop(<<>>) /\ NoLoop(<<F("cbConnected", c), F("ready", c)>>)
        /\ NoLoop(<<F("cbAccepted", c), F("ready", c)>>)
    BY <1>0, <2>p, NoLoops
  <2>10. CASE s.check = "hello" /\ aioConnHelloChecker(c, s, r)
    <3>1. Agree(obj[c], net[c]) => Silent(net'[c])
      BY <2>r, <2>10 DEF Answered, Silent, Commands
    <3>2. ASSUME NEW k, SendCmdWaitReply(c, Idle(s), k)
          PROVE  KInv'
      BY <1>0, <1>1, <2>2, <3>1, <3>2, SendKeeps
    <3> QED BY <2>7, <2>10, <3>2
            DEF aioConnHelloChecker, aioConConnectHandshacked, aioConAcceptHandshacked,
                aioConnSendCmdWaitReply
  <2>11. ASSUME NEW fs, NoLoop(fs), Run(c, Streaming(s), fs)
         PROVE  KInv'
    <3> DEFINE t == Streaming(s)
    <3>1. /\ t.mem = obj[c].mem /\ t.procR = "dataReader" /\ t.procW = "dataWriter"
          /\ Lives(obj[c], t)
      BY <1>1, HandlersLeave, HandlersKeepLives
    <3>2. Run(c, t, fs)
      BY <2>11
    <3> HIDE DEF t
    <3>3. Agree(t, net'[c])
      BY <3>1 DEF Agree
    <3> QED BY <1>0, <2>2, <2>11, <3>1, <3>2, <3>3, HandlerKeeps
  <2>12. CASE aioConnConnectChecker(c, s, r)
    BY <2>7, <2>9, <2>11, <2>12 DEF aioConnConnectChecker
  <2>13. CASE s.check = "accept" /\ aioConnAcceptChecker(c, s, r)
    <3>1. CASE Good(r, "accept") /\ Run(c, AwaitingLine(s, "acceptA"), <<>>)
      <4> DEFINE t == AwaitingLine(s, "acceptA")
      <4>1. /\ t.mem = obj[c].mem /\ t.procR = "replyReader" /\ t.procW = "null"
            /\ t.check = "acceptA" /\ t.aio = "fresh" /\ Lives(obj[c], t)
        BY <1>1, HandlersLeave, HandlersKeepLives
      <4>2. Run(c, t, <<>>)
        BY <3>1
      <4> HIDE DEF t
      <4>3. Agree(obj[c], net[c]) => PeerAwaited(net'[c].inbox, net'[c], FALSE)
        BY <2>r, <2>13, <3>1 DEF Answered, Commands
      <4>4. Agree(obj[c], net[c]) => Agree(t, net'[c])
        BY <4>1, <4>3 DEF Agree
      <4> QED BY <1>0, <2>2, <2>9, <4>1, <4>2, <4>4, HandlerKeeps
    <3> QED BY <2>7, <2>13, <3>1 DEF aioConnAcceptChecker
  <2>14. CASE aioConnAcceptCheckerA(c, s, r)
    BY <2>7, <2>9, <2>11, <2>14 DEF aioConnAcceptCheckerA
  <2> QED BY <2>3, <2>10, <2>12, <2>13, <2>14
<1> QED BY <1>2, <1>3

-----------------------------------------------------------------------------
(* Stream I/O and the loop over the ready descriptors.                     *)

\* An open stream waits for no reply.
LEMMA StreamAgrees ==
  ASSUME TInv, NEW o \in Obj, obj[o].callDisc \/ obj[o].procW = "dataWriter"
  PROVE  /\ obj[o].procR # "replyReader" /\ obj[o].procW \notin {"connected", "cmdSender"}
         /\ \A n : Agree(obj[o], n)
<1>1. obj[o].procR # "replyReader" /\ obj[o].procW \notin {"connected", "cmdSender"}
  BY DEF TInv, SoundStruct, IsIdle, IsConnecting, IsSending, IsAwaiting, IsStreaming
<1> QED BY <1>1 DEF Agree

\* A step of the read loop, or the one that enters it.
LEMMA LoopRuns ==
  ASSUME TInv, KInv, stack # <<>>, NEW c \in Conns, OpenOrGone(obj[c]), NEW fs \in Seq(Frame),
         Run(c, obj[c], fs), \A x \in Obj \ {c} : net'[x] = net[x],
         \A j \in 1..Len(fs) : fs[j].o = c
  PROVE  KInv'
<1>1. c \in Obj /\ TypeOK /\ Lives(obj[c], obj[c])
  BY DEF Obj, TInv, Lives
<1>2. obj' = obj /\ stack' = fs \o Tail(stack) /\ told' = Told(fs)
  BY DEF Run, TInv
<1>3. \A j \in 1..Len(fs) : LoopsOpen(fs[j], obj')
  BY <1>2 DEF LoopsOpen
<1>4. InService(c)' => Agree(obj'[c], net'[c])
  <2>1. InService(c)' => obj[c].callDisc
    BY <1>2 DEF InService, OpenOrGone
  <2> QED BY <1>1, <1>2, <2>1, StreamAgrees
<1> QED BY <1>1, <1>2, <1>3, <1>4, StepKeeps

\* aioConnDataReader.
LEMMA DataReaderKeeps ==
  ASSUME TInv, KInv, NEW c \in Conns, aioConnDataReader(c)
  PROVE  KInv'
<1>1. stack # <<>> /\ Head(stack) = F("readLoop", c) /\ c \in Obj
  BY DEF aioConnDataReader, At, Obj
<1>2. OpenOrGone(obj[c])
  <2>1. stack \in Seq(Frame)
    BY DEF TInv, TypeOK
  <2>2. 1 \in 1..Len(stack) /\ stack[1] = Head(stack)
    BY <1>1, <2>1, EmptySeq, LenProperties
  <2>3. LoopsOpen(Head(stack), obj)
    BY <2>2 DEF KInv
  <2> QED BY <1>1, <2>3 DEF LoopsOpen, F
<1>3. net' = net \/ net' = [net EXCEPT ![c].inbox = <<>>]
  BY DEF aioConnDataReader
<1>4. \A x \in Obj \ {c} : net'[x] = net[x]
  <2>1. net \in [Obj -> Socket]
    BY DEF TInv, TypeOK
  <2>2. CASE net' = [net EXCEPT ![c].inbox = <<>>]
    <3>1. net' = [net EXCEPT ![c] = [net[c] EXCEPT !.inbox = <<>>]]
      BY <2>2, Zenon
    <3> QED BY <2>1, <3>1
  <2> QED BY <1>3, <2>2
<1>5. CASE Fail(c, obj[c])
  <2>1. Lives(obj[c], obj[c])
    BY DEF Lives
  <2> QED BY <1>1, <1>4, <1>5, <2>1, FailKeeps
<1>6. ASSUME NEW fs \in {<<>>, <<F("connDisconnect", c)>>, <<F("cbRead", c), F("readLoop", c)>>},
             Run(c, obj[c], fs)
      PROVE  KInv'
  <2>1. {"connDisconnect", "cbRead", "readLoop"} \subseteq Pcs
    BY DEF Pcs, Callbacks
  <2>2. fs \in Seq(Frame)
    BY <1>1, <1>6, <2>1, FramesType
  <2>3. \A j \in 1..Len(fs) : fs[j].o = c
    BY <1>6 DEF F
  <2> QED BY <1>1, <1>2, <1>4, <1>6, <2>2, <2>3, LoopRuns
<1> QED BY <1>5, <1>6 DEF aioConnDataReader

\* aioConnDataWriter.
LEMMA DataWriterKeeps ==
  ASSUME TInv, KInv, stack # <<>>, NEW c \in Conns, IsActive(obj[c]),
         obj[c].procW = "dataWriter", aioConnDataWriter(c)
  PROVE  KInv'
<1>1. c \in Obj /\ obj[c] \in Struct /\ Lives(obj[c], obj[c]) /\ net' = net
  BY DEF Obj, TInv, TypeOK, Lives, aioConnDataWriter
<1>2. NoLoop(<<>>) /\ NoLoop(<<F("cbSent", c)>>)
  <2>1. "cbSent" \in Pcs \ {"readLoop"}
    BY DEF Pcs, Callbacks
  <2> QED BY <1>1, <2>1, NoLoops
<1>3. CASE Run(c, obj[c], <<>>)
  BY <1>1, <1>2, <1>3, RunOnKeeps DEF NoLoop
<1>4. CASE Fail(c, obj[c])
  BY <1>1, <1>4, FailKeeps
<1>5. ASSUME NEW n, NEW fs, NoLoop(fs), Run(c, Queue(obj[c], n), fs)
      PROVE  KInv'
  <2> DEFINE t == Queue(obj[c], n)
  <2>1. /\ t.mem = obj[c].mem /\ t.procR = obj[c].procR /\ t.procW = obj[c].procW
        /\ Lives(obj[c], t)
    BY <1>1, HandlersLeave, HandlersKeepLives
  <2>2. Run(c, t, fs)
    BY <1>5
  <2> HIDE DEF t
  <2>3. Agree(t, net'[c])
    BY <1>1, <2>1, StreamAgrees DEF Agree
  <2> QED BY <1>1, <1>5, <2>1, <2>2, <2>3, HandlerKeeps
<1> QED BY <1>2, <1>3, <1>4, <1>5 DEF aioConnDataWriter

\* The rounds of sam3aProcessSessionIO: each handler keeps the invariant.
LEMMA LoopKeeps ==
  ASSUME TInv, KInv, ReadSession \/ WriteSession \/ (\E o \in Obj : Walk(o))
               \/ (\E c \in Conns : ReadConn(c) \/ WriteConn(c) \/ ready(c))
  PROVE  KInv'
<1>0. Ses \in Obj /\ Conns \subseteq Obj
  BY DEF Obj
<1>1. ASSUME NEW o \in Obj, stack # <<>>, Skip(o)
      PROVE  KInv'
  BY <1>1, NoLoops, RunOnKeeps DEF Skip, NoLoop
<1>2. CASE ReadSession
  BY <1>0, <1>1, <1>2, SesReaderKeeps DEF ReadSession, CallR, At
<1>3. CASE WriteSession
  BY <1>0, <1>1, <1>3, ConnectedKeeps, CmdSenderKeeps
     DEF WriteSession, CallW, At, aioSesConnected, aioSesCmdSender
<1>4. ASSUME NEW c \in Conns, ReadConn(c)
      PROVE  KInv'
  <2>1. stack # <<>> /\ c \in Obj
    BY <1>0, <1>4 DEF ReadConn, At
  <2>2. CASE CallR(c) /\ obj[c].procR = "dataReader"
             /\ Run(c, obj[c], <<F("readLoop", c)>>) /\ UNCHANGED net
    <3>1. OpenOrGone(obj[c])
      <4>1. obj[c].callDisc
        BY <2>1, <2>2 DEF TInv, SoundStruct, IsIdle, IsConnecting, IsSending, IsAwaiting, IsStreaming
      <4>2. obj[c].mem # "none"
        BY <2>1, <2>2 DEF CallR, IsActive, KInv
      <4>3. obj[c].mem \in {"none", "live", "closed"}
        BY <2>1 DEF TInv, TypeOK, Struct
      <4> QED BY <4>1, <4>2, <4>3 DEF OpenOrGone
    <3>2. <<F("readLoop", c)>> \in Seq(Frame)
      BY <2>1, FramesType DEF Pcs
    <3>3. \A j \in 1..Len(<<F("readLoop", c)>>) : <<F("readLoop", c)>>[j].o = c
      BY DEF F
    <3> DEFINE fs == <<F("readLoop", c)>>
    <3>4. fs \in Seq(Frame) /\ Run(c, obj[c], fs) /\ \A j \in 1..Len(fs) : fs[j].o = c
      BY <2>2, <3>2, <3>3
    <3> HIDE DEF fs
    <3> QED BY <2>1, <2>2, <3>1, <3>4, LoopRuns
  <2> QED BY <1>1, <1>4, <2>1, <2>2, ConnReaderKeeps DEF ReadConn, CallR
<1>5. ASSUME NEW c \in Conns, WriteConn(c)
      PROVE  KInv'
  BY <1>0, <1>1, <1>5, ConnectedKeeps, CmdSenderKeeps, DataWriterKeeps
     DEF WriteConn, CallW, At, aioConnConnected, aioConnCmdSender
<1>6. ASSUME NEW c \in Conns, ready(c)
      PROVE  KInv'
  <2>1. NoLoop(<<>>) /\ NoLoop(<<F("cbSent", c)>>)
    <3>1. "cbSent" \in Pcs \ {"readLoop"}
      BY DEF Pcs, Callbacks
    <3> QED BY <1>0, <3>1, NoLoops
  <2> QED BY <1>0, <1>6, <2>1, RunOnKeeps DEF ready, At, NoLoop
<1>7. ASSUME NEW o \in Obj, Walk(o)
      PROVE  KInv'
  <2>1. ASSUME NEW c \in Conns
        PROVE  NoLoop(Visit(c))
    <3>1. {"readIO", "writeIO", "walk"} \subseteq Pcs \ {"readLoop"}
      BY DEF Pcs
    <3>2. NoLoop(<<>>) /\ NoLoop(<<F("readIO", c)>>) /\ NoLoop(<<F("writeIO", c), F("walk", c)>>)
      BY <1>0, <3>1, NoLoops
    <3> QED BY <3>2, NoLoopJoin DEF Visit
  <2>2. \A i \in DOMAIN connlist : connlist[i] \in Conns
    BY DEF TInv, TypeOK
  <2>3. \E fs : NoLoop(fs) /\ Run(o, obj[o], fs)
    BY <1>0, <1>7, <2>1, <2>2, NoLoops DEF Walk
  <2> QED BY <1>7, <2>3, RunOnKeeps DEF Walk, At, NoLoop
<1> QED BY <1>2, <1>3, <1>4, <1>5, <1>6, <1>7

-----------------------------------------------------------------------------
(* The bridge.                                                             *)

\* What arrives does not change the line at the head, unless it ends it.
LEMMA AppendWhole ==
  ASSUME NEW q \in Seq(Item), NEW x \in Item
  PROVE  /\ Append(q, x) # <<>>
         /\ q = <<>> => Append(q, x) = <<x>> /\ Whole(<<x>>) = <<x>>
                        /\ Head(<<x>>) = x /\ Tail(<<x>>) = <<>>
         /\ q = <<Part>> => Whole(Append(q, x)) = <<x>> /\ Head(<<x>>) = x /\ Tail(<<x>>) = <<>>
         /\ q # <<>> /\ q # <<Part>> =>
              /\ Whole(q) \in Seq(Item) /\ Whole(q) # <<>> /\ Tail(Whole(q)) \in Seq(Item)
              /\ Head(Whole(Append(q, x))) = Head(Whole(q))
              /\ Tail(Whole(Append(q, x))) = Append(Tail(Whole(q)), x)
<1> HIDE DEF Item
<1>0. Part \in Item
  BY DEF Item
<1>1. Append(q, x) # <<>> /\ Append(q, x) \in Seq(Item) /\ Len(Append(q, x)) = Len(q) + 1
  BY AppendProperties, EmptySeq
<1>n. /\ \A n \in Nat : n # 0 /\ n # 1 => n > 1 /\ n - 1 # 0
      /\ \A n \in Nat : n # 0 => n + 1 > 1
      /\ \A n \in Nat : \A i \in 1..n : i # n => i \in 1..(n - 1) /\ i + 1 \in 1..n
  OBVIOUS
<1>2. q = <<>> => Append(q, x) = <<x>> /\ Whole(<<x>>) = <<x>>
                  /\ Head(<<x>>) = x /\ Tail(<<x>>) = <<>>
  BY DEF Whole
<1>5. \A u \in Seq(Item) : u # <<>> =>
        /\ Head(Append(u, x)) = Head(u) /\ Tail(Append(u, x)) = Append(Tail(u), x)
        /\ Tail(u) \in Seq(Item)
  <2> SUFFICES ASSUME NEW u \in Seq(Item), u # <<>>
               PROVE  /\ Head(Append(u, x)) = Head(u) /\ Tail(Append(u, x)) = Append(Tail(u), x)
                      /\ Tail(u) \in Seq(Item)
    OBVIOUS
  <2>1. Len(u) \in Nat /\ Len(u) # 0 /\ Tail(u) \in Seq(Item) /\ Len(Tail(u)) = Len(u) - 1
        /\ \A i \in 1..Len(Tail(u)) : Tail(u)[i] = u[i + 1]
    BY HeadTailProperties, LenProperties, EmptySeq
  <2>2. /\ Append(u, x) \in Seq(Item) /\ Append(u, x) # <<>> /\ Len(Append(u, x)) = Len(u) + 1
        /\ \A i \in 1..Len(u) : Append(u, x)[i] = u[i]
        /\ Append(u, x)[Len(u) + 1] = x
    BY AppendProperties, EmptySeq
  <2>3. Head(Append(u, x)) = Head(u)
    BY <2>1, <2>2
  <2> DEFINE a == Tail(Append(u, x))
             b == Append(Tail(u), x)
  <2>4. /\ a \in Seq(Item) /\ Len(a) = Len(u)
        /\ \A i \in 1..Len(a) : a[i] = Append(u, x)[i + 1]
    BY <2>1, <2>2, HeadTailProperties
  <2>5. /\ b \in Seq(Item) /\ Len(b) = Len(u)
        /\ \A i \in 1..Len(Tail(u)) : b[i] = Tail(u)[i]
        /\ b[Len(u)] = x
    BY <2>1, AppendProperties
  <2> HIDE DEF a, b
  <2>6. \A i \in 1..Len(u) : a[i] = b[i]
    <3> SUFFICES ASSUME NEW i \in 1..Len(u) PROVE a[i] = b[i]
      OBVIOUS
    <3>1. CASE i = Len(u)
      BY <2>1, <2>2, <2>4, <2>5, <3>1
    <3>2. CASE i # Len(u)
      <4>1. i \in 1..Len(Tail(u)) /\ i + 1 \in 1..Len(u)
        BY <1>n, <2>1, <3>2, Zenon
      <4>2. a[i] = Append(u, x)[i + 1] /\ Append(u, x)[i + 1] = u[i + 1]
        BY <2>2, <2>4, <4>1
      <4>3. b[i] = Tail(u)[i] /\ Tail(u)[i] = u[i + 1]
        BY <2>1, <2>5, <4>1
      <4> QED BY <4>2, <4>3
    <3> QED BY <3>1, <3>2
  <2>7. a = b
    BY <2>4, <2>5, <2>6, SeqEqual
  <2> QED BY <2>1, <2>3, <2>7 DEF a, b
<1>3. q = <<Part>> => Whole(Append(q, x)) = <<x>> /\ Head(<<x>>) = x /\ Tail(<<x>>) = <<>>
  <2> DEFINE p == Part
  <2>1. p \in Item
    BY <1>0
  <2> HIDE DEF p
  <2>2. /\ <<p>> \in Seq(Item) /\ <<p>> # <<>> /\ Head(<<p>>) = p /\ Tail(<<p>>) = <<>>
        /\ Len(<<p>>) = 1 /\ Append(<<>>, x) = <<x>>
    BY <2>1
  <2>3. q = <<p>> => Head(Append(q, x)) = p /\ Tail(Append(q, x)) = <<x>>
    BY <1>5, <2>2
  <2>4. q = <<Part>> => Whole(Append(q, x)) = <<x>>
    BY <1>1, <2>2, <2>3 DEF Whole, p
  <2> QED BY <2>4
<1>4. ASSUME q # <<>>, q # <<Part>>
      PROVE  /\ Whole(q) \in Seq(Item) /\ Whole(q) # <<>> /\ Tail(Whole(q)) \in Seq(Item)
             /\ Head(Whole(Append(q, x))) = Head(Whole(q))
             /\ Tail(Whole(Append(q, x))) = Append(Tail(Whole(q)), x)
  <2>2. Len(q) \in Nat /\ Len(q) # 0
    BY <1>4, LenProperties, EmptySeq
  <2>3. Head(Append(q, x)) = Head(q) /\ Tail(Append(q, x)) = Append(Tail(q), x)
        /\ Tail(q) \in Seq(Item)
    BY <1>4, <1>5
  <2>4. CASE Head(q) = Part
    <3>1. Len(q) > 1 /\ Tail(q) # <<>>
      <4>1. Len(q) # 1
        <5> DEFINE p == Part
        <5>1. p \in Item /\ q[1] = p
          BY <1>0, <1>4, <2>4
        <5> HIDE DEF p
        <5>2. <<p>> \in Seq(Item) /\ Len(<<p>>) = 1 /\ <<p>>[1] = p
          BY <5>1
        <5>3. Len(q) = 1 => q = <<p>>
          <6> SUFFICES ASSUME Len(q) = 1 PROVE q = <<p>>
            OBVIOUS
          <6>1. \A i \in 1..Len(q) : q[i] = <<p>>[i]
            BY <5>1, <5>2
          <6> QED BY <5>2, <6>1, SeqEqual
        <5> QED BY <1>4, <5>3 DEF p
      <4>2. Len(q) > 1 /\ Len(q) - 1 # 0
        BY <1>n, <2>2, <4>1, Zenon
      <4>3. Len(Tail(q)) = Len(q) - 1
        BY <1>4, HeadTailProperties
      <4> QED BY <2>3, <4>2, <4>3, EmptySeq, Zenon
    <3>2. Whole(q) = Tail(q)
      BY <2>4, <3>1 DEF Whole
    <3>3. Whole(Append(q, x)) = Append(Tail(q), x)
      <4>1. Len(Append(q, x)) > 1
        BY <1>1, <1>n, <2>2, Zenon
      <4> QED BY <2>3, <2>4, <4>1 DEF Whole
    <3> QED BY <1>5, <2>3, <3>1, <3>2, <3>3
  <2>5. CASE Head(q) # Part
    <3>1. Whole(q) = q /\ Whole(Append(q, x)) = Append(q, x)
      BY <2>3, <2>5 DEF Whole
    <3> QED BY <1>4, <2>3, <3>1
  <2> QED BY <2>4, <2>5
<1> QED BY <1>1, <1>2, <1>3, <1>4

\* x is the end of a line that the bridge owes, or the part of it that the
\* socket n is still without; m is the socket with it.
Owed(n, x, m) ==
  /\ n.req \in Commands => \/ x \in Replies(n.req) /\ m.req = NextRequest(n.req, x) /\ ~m.half
                           \/ x = Part /\ ~n.half /\ m.half /\ m.req = n.req
  /\ n.req = "peer" => x.to = "acceptA" \/ (x = Part /\ ~n.half /\ m.half /\ m.req = "peer")

\* The reader of a peer's destination.
LEMMA PeerAppend ==
  ASSUME NEW q \in Seq(Item), NEW x \in Item, NEW n, NEW m, NEW t,
         n.hang = "open", n.req # "none", Owed(n, x, m), PeerAwaited(q, n, t)
  PROVE  PeerAwaited(Append(q, x), m, t)
<1>1. CASE q = <<>>
  <2>1. n.req = "peer" /\ (n.half <=> t)
    <3>1. Head(Whole(q)).to # "acceptA" \/ q = <<>>
      BY <1>1
    <3>2. q # <<Part>>
      BY <1>1, PartAlone
    <3> QED BY <1>1, <3>2 DEF PeerAwaited
  <2>2. Append(q, x) = <<x>> /\ Whole(<<x>>) = <<x>> /\ Head(<<x>>) = x /\ <<x>> # <<>>
    BY <1>1, AppendWhole
  <2>3. CASE x.to = "acceptA"
    BY <2>2, <2>3 DEF PeerAwaited
  <2>4. CASE x = Part /\ ~n.half /\ m.half /\ m.req = "peer"
    BY <2>1, <2>2, <2>4 DEF PeerAwaited
  <2> QED BY <2>1, <2>3, <2>4 DEF Owed
<1>2. CASE q = <<Part>>
  <2>1. n.req = "peer" /\ n.half
    BY <1>2, PartAlone DEF PeerAwaited
  <2>2. x.to = "acceptA"
    BY <2>1 DEF Owed
  <2>3. Append(q, x) # <<>> /\ Whole(Append(q, x)) = <<x>> /\ Head(<<x>>) = x
    BY <1>2, AppendWhole
  <2> QED BY <2>2, <2>3 DEF PeerAwaited
<1>3. CASE q # <<>> /\ q # <<Part>>
  <2>1. Head(Whole(q)).to = "acceptA"
    BY <1>3 DEF PeerAwaited
  <2>2. Append(q, x) # <<>> /\ Head(Whole(Append(q, x))) = Head(Whole(q))
    BY <1>3, AppendWhole
  <2> QED BY <2>1, <2>2 DEF PeerAwaited
<1> QED BY <1>1, <1>2, <1>3

\* A reply of the bridge answers the command.
LEMMA ReplyAnswers ==
  ASSUME NEW k \in Commands, NEW x \in Replies(k), NEW m,
         m.req = NextRequest(k, x), ~m.half
  PROVE  Answered(k, x, <<>>, m)
<1>1. /\ x \in [to : {k, "other"}, is : {"ok", "bad", "bare", "garbage"}]
      /\ x.is = "bare" => "bare" \in Faults
  BY DEF Replies
<1>2. x.to \in {k, "other"} /\ x # Part
  BY <1>1 DEF Part
<1>3. k = "accept" /\ Good(x, k) => PeerAwaited(<<>>, m, FALSE)
  <2>1. ASSUME k = "accept", Good(x, k)
        PROVE  PeerAwaited(<<>>, m, FALSE)
    <3>1. x.to = "accept" /\ (x.is = "ok" \/ x.is = "bare")
      BY <2>1 DEF Good
    <3>2. CASE x.is = "ok"
      <4>1. x = [to |-> "accept", is |-> "ok"]
        BY <1>1, <3>1, <3>2
      <4>2. NextRequest(k, x) = "peer"
        BY <4>1 DEF NextRequest
      <4> QED BY <4>2 DEF PeerAwaited
    <3>3. CASE x.is = "bare"
      <4>1. NextRequest(k, x) = "none"
        BY <3>3 DEF NextRequest
      <4> QED BY <1>1, <3>3, <4>1 DEF PeerAwaited
    <3> QED BY <3>1, <3>2, <3>3
  <2> QED BY <2>1
<1>4. k \notin {"connect", "accept"} => m.req = "none"
  <2>1. k \notin {"connect", "accept"} => x.to \notin {"connect", "accept"}
    BY <1>2
  <2> QED BY <2>1 DEF NextRequest
<1> QED BY <1>2, <1>3, <1>4 DEF Answered

\* The reader of a reply.
LEMMA ReplyAppend ==
  ASSUME NEW q \in Seq(Item), NEW x \in Item, NEW n, NEW m, NEW t, NEW k \in Commands,
         n.hang = "open", n.req # "none", Owed(n, x, m), ReplyAwaited(k, q, n, t)
  PROVE  ReplyAwaited(k, Append(q, x), m, t)
<1>1. CASE q = <<>>
  <2>1. n.req = k /\ (n.half <=> t)
    <3>1. q # <<Part>>
      BY <1>1, PartAlone
    <3> QED BY <1>1, <3>1 DEF ReplyAwaited
  <2>2. /\ Append(q, x) = <<x>> /\ Whole(<<x>>) = <<x>> /\ Head(<<x>>) = x /\ <<x>> # <<>>
        /\ Tail(<<x>>) = <<>>
    BY <1>1, AppendWhole
  <2>3. CASE x \in Replies(k) /\ m.req = NextRequest(k, x) /\ ~m.half
    <3>1. Answered(k, x, <<>>, m)
      BY <2>3, ReplyAnswers
    <3> QED BY <2>2, <3>1 DEF ReplyAwaited
  <2>4. CASE x = Part /\ ~n.half /\ m.half /\ m.req = n.req
    BY <2>1, <2>2, <2>4 DEF ReplyAwaited
  <2> QED BY <2>1, <2>3, <2>4 DEF Owed
<1>2. CASE q = <<Part>>
  <2>1. n.req = k /\ n.half
    BY <1>2, PartAlone DEF ReplyAwaited, Answered
  <2>2. x \in Replies(k) /\ m.req = NextRequest(k, x) /\ ~m.half
    BY <2>1 DEF Owed
  <2>3. /\ Append(q, x) # <<>> /\ Whole(Append(q, x)) = <<x>> /\ Head(<<x>>) = x
        /\ Tail(<<x>>) = <<>>
    BY <1>2, AppendWhole
  <2>4. Answered(k, x, <<>>, m)
    BY <2>2, ReplyAnswers
  <2> QED BY <2>3, <2>4 DEF ReplyAwaited
<1>3. CASE q # <<>> /\ q # <<Part>>
  <2> DEFINE r == Head(Whole(q))
             u == Tail(Whole(q))
  <2>1. Answered(k, r, u, n)
    BY <1>3 DEF ReplyAwaited
  <2>2. /\ Append(q, x) # <<>> /\ Head(Whole(Append(q, x))) = r
        /\ Tail(Whole(Append(q, x))) = Append(u, x) /\ u \in Seq(Item)
    BY <1>3, AppendWhole
  <2> HIDE DEF r, u
  <2>3. k \in {"connect", "accept"}
    BY <2>1 DEF Answered
  <2>4. PeerAwaited(u, n, FALSE) => PeerAwaited(Append(u, x), m, FALSE)
    BY <2>2, PeerAppend
  <2>5. Answered(k, r, Append(u, x), m)
    BY <2>1, <2>3, <2>4 DEF Answered
  <2> QED BY <2>2, <2>5 DEF ReplyAwaited
<1> QED BY <1>1, <1>2, <1>3

\* An item that the bridge sends.
LEMMA AgreeAppend ==
  ASSUME NEW s, NEW n \in Socket, NEW m, NEW x \in Item, m.inbox = Append(n.inbox, x),
         n.hang = "open", n.req # "none", Owed(n, x, m), Agree(s, n)
  PROVE  Agree(s, m)
<1>1. n.inbox \in Seq(Item)
  BY DEF Socket
<1>2. s.procW \notin {"connected", "cmdSender"}
  BY DEF Agree, Silent
<1>3. CASE s.procR # "replyReader"
  BY <1>2, <1>3 DEF Agree
<1>4. CASE s.procR = "replyReader"
  <2>1. CASE s.aio # "full" /\ s.check = "acceptA" /\ PeerAwaited(n.inbox, n, s.aio = "partial")
    BY <1>1, <1>2, <2>1, PeerAppend DEF Agree
  <2>2. CASE /\ s.aio # "full" /\ s.check \in Commands
             /\ ReplyAwaited(s.check, n.inbox, n, s.aio = "partial")
    BY <1>1, <1>2, <2>2, ReplyAppend DEF Agree
  <2> QED BY <1>4, <2>1, <2>2 DEF Agree
<1> QED BY <1>3, <1>4

\* A bridge that leaves owes nothing any more.
LEMMA AgreeHangup ==
  ASSUME NEW s, NEW n, NEW m, m.inbox = n.inbox, m.half = n.half, m.req = n.req,
         m.hang = n.hang \/ m.hang # "open", Agree(s, n)
  PROVE  Agree(s, m)
<1>1. \A q, t : PeerAwaited(q, n, t) => PeerAwaited(q, m, t)
  BY DEF PeerAwaited
<1>2. \A k, q, t : ReplyAwaited(k, q, n, t) => ReplyAwaited(k, q, m, t)
  BY <1>1 DEF ReplyAwaited, Answered
<1> QED BY <1>1, <1>2 DEF Agree, Silent

\* The bridge answers what it was asked, in parts or at once, or hangs up.
LEMMA BridgeKeeps ==
  ASSUME TInv, KInv, Bridge
  PROVE  KInv'
<1>1. PICK o \in Obj : \/ TcpConnect(o) \/ Answer(o) \/ AnswerPart(o)
                       \/ PeerArrives(o) \/ SendData(o) \/ Hangup(o)
  BY DEF Bridge
<1>2. net[o] \in Socket /\ net[o].inbox \in Seq(Item) /\ net \in [Obj -> Socket]
  BY DEF TInv, TypeOK, Socket
<1>3. ASSUME NEW m, BridgeChanges(o, m), Agree(obj[o], net[o]) => Agree(obj[o], m)
      PROVE  KInv'
  <2>1. obj' = obj /\ stack' = stack /\ told' = told /\ net' = [net EXCEPT ![o] = m]
    BY <1>3 DEF BridgeChanges
  <2>2. ASSUME NEW x \in Obj, InService(x)'
        PROVE  Agree(obj'[x], net'[x])
    <3>1. InService(x) /\ Agree(obj[x], net[x])
      BY <2>1, <2>2 DEF InService, InLog, KInv
    <3>2. net'[x] = IF x = o THEN m ELSE net[x]
      BY <1>2, <2>1
    <3> QED BY <1>3, <2>1, <3>1, <3>2
  <2> QED BY <2>1, <2>2 DEF KInv, LoopsOpen
<1>h. Open(o) /\ net[o].hang = "open"
  BY <1>1 DEF TcpConnect, Answer, AnswerPart, PeerArrives, SendData, Hangup, Open
<1>c. "peer" \notin Commands /\ "none" \notin Commands /\ "stream" \notin Commands
  BY DEF Commands
<1>4. CASE TcpConnect(o)
  <2>1. PICK l : BridgeChanges(o, [net[o] EXCEPT !["link"] = l])
    BY <1>4, Zenon DEF TcpConnect
  <2> DEFINE m == [net[o] EXCEPT !["link"] = l]
  <2>2. m.inbox = net[o].inbox /\ m.half = net[o].half /\ m.req = net[o].req
        /\ m.hang = net[o].hang
    BY <1>2 DEF Socket
  <2>3. BridgeChanges(o, m)
    BY <2>1
  <2> HIDE DEF m
  <2> QED BY <1>3, <2>2, <2>3, AgreeHangup
<1>5. CASE Hangup(o)
  <2>1. PICK h \in {"fin", "rst"} : BridgeChanges(o, [net[o] EXCEPT !["hang"] = h])
    <3>1. \E h \in {"fin", "rst"} : BridgeChanges(o, [net[o] EXCEPT !.hang = h])
      BY <1>5 DEF Hangup
    <3> QED BY <3>1, Zenon
  <2> DEFINE m == [net[o] EXCEPT !["hang"] = h]
  <2>2. m.inbox = net[o].inbox /\ m.half = net[o].half /\ m.req = net[o].req
        /\ m.hang # "open"
    BY <1>2, <2>1 DEF Socket
  <2>3. BridgeChanges(o, m)
    BY <2>1
  <2> HIDE DEF m
  <2> QED BY <1>3, <2>2, <2>3, AgreeHangup
<1>6. ASSUME NEW m, NEW x \in Item, BridgeChanges(o, m), m.inbox = Append(net[o].inbox, x),
             net[o].req # "none", Owed(net[o], x, m)
      PROVE  KInv'
  BY <1>2, <1>3, <1>6, <1>h, AgreeAppend
<1>7. CASE Answer(o)
  <2>1. PICK r \in Replies(net[o].req) :
          BridgeChanges(o, [net[o] EXCEPT !["req"] = NextRequest(net[o].req, r),
                                          !["half"] = FALSE,
                                          !["inbox"] = Append(net[o].inbox, r)])
    BY <1>7, Zenon DEF Answer
  <2>2. net[o].req \in Commands
    BY <1>7 DEF Answer
  <2>3. r \in Item
    <3>1. \A q \in Commands : Replies(q) \subseteq Reply
      BY DEF Replies, Reply
    <3> QED BY <2>1, <2>2, <3>1 DEF Item
  <2> DEFINE m == [net[o] EXCEPT !["req"] = NextRequest(net[o].req, r),
                                 !["half"] = FALSE, !["inbox"] = Append(net[o].inbox, r)]
  <2>4. m.inbox = Append(net[o].inbox, r) /\ ~m.half /\ m.req = NextRequest(net[o].req, r)
    BY <1>2 DEF Socket
  <2>5. BridgeChanges(o, m)
    BY <2>1
  <2> HIDE DEF m
  <2> QED BY <1>6, <1>c, <2>1, <2>2, <2>3, <2>4, <2>5 DEF Owed
<1>8. CASE AnswerPart(o)
  <2>1. BridgeChanges(o, [net[o] EXCEPT !["half"] = TRUE,
                                        !["inbox"] = Append(net[o].inbox, Part)])
    BY <1>8, Zenon DEF AnswerPart
  <2>2. net[o].req \in Commands \cup {"peer"} /\ ~net[o].half
    BY <1>8 DEF AnswerPart
  <2> DEFINE m == [net[o] EXCEPT !["half"] = TRUE, !["inbox"] = Append(net[o].inbox, Part)]
  <2>3. m.inbox = Append(net[o].inbox, Part) /\ m.half /\ m.req = net[o].req
    BY <1>2 DEF Socket
  <2>4. BridgeChanges(o, m) /\ Part \in Item
    BY <2>1 DEF Item
  <2> HIDE DEF m
  <2> QED BY <1>6, <1>c, <2>2, <2>3, <2>4 DEF Owed
<1>9. CASE PeerArrives(o)
  <2>1. PICK is \in {"ok", "bad"} :
          BridgeChanges(o, [net[o] EXCEPT !["req"] = "stream", !["half"] = FALSE,
                              !["inbox"] = Append(net[o].inbox, [to |-> "acceptA", is |-> is])])
    <3>1. \E is \in {"ok", "bad"} :
            BridgeChanges(o, [net[o] EXCEPT !.req = "stream", !.half = FALSE,
                                !.inbox = Append(net[o].inbox, [to |-> "acceptA", is |-> is])])
      BY <1>9, Zenon DEF PeerArrives
    <3> QED BY <3>1, Zenon
  <2> DEFINE x == [to |-> "acceptA", is |-> is]
             m == [net[o] EXCEPT !["req"] = "stream", !["half"] = FALSE,
                                 !["inbox"] = Append(net[o].inbox, x)]
  <2>2. x \in Item /\ x.to = "acceptA"
    BY <2>1 DEF Item, Reply
  <2>3. m.inbox = Append(net[o].inbox, x)
    BY <1>2 DEF Socket
  <2>4. BridgeChanges(o, m) /\ net[o].req = "peer"
    BY <1>9, <2>1 DEF PeerArrives
  <2> HIDE DEF m, x
  <2> QED BY <1>6, <1>c, <2>2, <2>3, <2>4 DEF Owed
<1>10. CASE SendData(o)
  <2>1. BridgeChanges(o, [net[o] EXCEPT !["inbox"] = Append(net[o].inbox, Data)])
    BY <1>10, Zenon DEF SendData
  <2> DEFINE m == [net[o] EXCEPT !["inbox"] = Append(net[o].inbox, Data)]
  <2>2. m.inbox = Append(net[o].inbox, Data)
    BY <1>2 DEF Socket
  <2>3. BridgeChanges(o, m) /\ net[o].req = "stream" /\ Data \in Item
    BY <1>10, <2>1 DEF SendData, Item
  <2> HIDE DEF m
  <2> QED BY <1>6, <1>c, <2>2, <2>3 DEF Owed
<1> QED BY <1>1, <1>4, <1>5, <1>7, <1>8, <1>9, <1>10

-----------------------------------------------------------------------------
(* The specification.                                                      *)

\* The application has control again, and stays where the dialogue is.
LEMMA ReturnKeeps ==
  ASSUME TInv, KInv, Return
  PROVE  KInv'
<1>1. stack \in Seq(Frame) /\ stack # <<>>
  BY DEF TInv, TypeOK, Return
<1>2. obj' = obj /\ net' = net /\ told' = told /\ stack' = Tail(stack)
  BY DEF Return
<1>3. /\ Len(stack) \in Nat /\ Len(stack') = Len(stack) - 1
      /\ \A i \in 1..Len(stack') : stack'[i] = stack[i + 1]
  BY <1>1, <1>2, HeadTailProperties, LenProperties
<1>4. \A i \in 1..Len(stack') : i + 1 \in 1..Len(stack)
  BY <1>3
<1> QED BY <1>2, <1>3, <1>4 DEF KInv, InService, InLog, LoopsOpen

\* The invariant is inductive, given the types.
LEMMA NextKeeps == TInv /\ KInv /\ [Next]_vars => KInv'
<1> SUFFICES ASSUME TInv, KInv, [Next]_vars
             PROVE  KInv'
  OBVIOUS
<1>1. CASE UNCHANGED vars
  BY <1>1 DEF vars, KInv, InService, InLog, LoopsOpen
<1>2. CASE Select
  <2>1. {"readIO", "writeIO", "walk"} \subseteq Pcs \ {"readLoop"} /\ Ses \in Obj
    BY DEF Pcs, Obj
  <2>2. NoLoop(<<F("readIO", Ses), F("writeIO", Ses), F("walk", Ses)>>)
    BY <2>1, NoLoops
  <2> QED BY <1>2, <2>2, CallInStep DEF Select
<1>3. CASE Library
  BY <1>3, TeardownKeeps, LoopKeeps, DataReaderKeeps DEF Library
<1>4. CASE Done
  BY <1>1, <1>4 DEF Done
<1> QED BY <1>1, <1>2, <1>3, <1>4, AppKeeps, ReturnKeeps, BridgeKeeps DEF Next

\* No dialogue has begun.
LEMMA InitAgrees == Init => KInv
<1> SUFFICES ASSUME Init
             PROVE  KInv
  OBVIOUS
<1>1. Unused = [Zeroed EXCEPT !["mem"] = "none", !["fd"] = "none"]
  BY Zenon DEF Unused
<1>2. Unused.mem = "none" /\ Unused.fd = "none"
  BY <1>1 DEF Zeroed
<1> QED BY <1>2 DEF Init, KInv, InService

\* The reply a checker is given answers the command it waits for, or is the
\* bridge's answer to something nobody asked; a command goes out on a silent
\* socket only; and an empty buffer waits for what the bridge owes.
LEMMA AgreeLocks == TInv /\ KInv => Lockstep
<1> SUFFICES ASSUME TInv, KInv, NEW o \in Obj, InService(o)
             PROVE  LET s == obj[o]
                        n == net[o]
                    IN /\ s.procW = "cmdSender" => n.req = "none" /\ n.inbox = <<>>
                       /\ s.procR = "replyReader" /\ n.inbox \notin {<<>>, <<Part>>} =>
                            Line(o).to \in {s.check, "other"}
                       /\ s.procR = "replyReader" /\ s.aio = "fresh" /\ n.inbox = <<>>
                            /\ n.hang = "open" =>
                            \/ n.req = IF s.check = "acceptA" THEN "peer" ELSE s.check
                            \/ s.check = "acceptA" /\ "bare" \in Faults
  BY DEF Lockstep, InService
<1> DEFINE s == obj[o]
           n == net[o]
<1>1. Agree(s, n)
  BY DEF KInv
<1>2. "acceptA" \notin Commands /\ <<>> # <<Part>>
  BY PartAlone DEF Commands
<1>3. s.procW = "cmdSender" => n.req = "none" /\ n.inbox = <<>>
  BY <1>1 DEF Agree, Silent
<1>4. s.procR = "replyReader" /\ n.inbox \notin {<<>>, <<Part>>} =>
        Line(o).to \in {s.check, "other"}
  BY <1>1 DEF Agree, PeerAwaited, ReplyAwaited, Answered, Line
<1>5. s.procR = "replyReader" /\ s.aio = "fresh" /\ n.inbox = <<>> /\ n.hang = "open" =>
        \/ n.req = IF s.check = "acceptA" THEN "peer" ELSE s.check
        \/ s.check = "acceptA" /\ "bare" \in Faults
  BY <1>1, <1>2 DEF Agree, PeerAwaited, ReplyAwaited
<1> QED BY <1>3, <1>4, <1>5

\* Commands and replies stay in step on every socket, whatever arrives when
\* and in how many pieces, and wherever the application closes what it has
\* opened (libsam3a.c:853-1055, 1443-1548).
THEOREM AsyncLockstep == Spec => []Lockstep
<1>1. Init => TInv /\ KInv
  BY InitType, InitAgrees
<1>2. TInv /\ KInv /\ [Next]_vars => (TInv /\ KInv)'
  BY NextType, NextKeeps
<1>3. TInv /\ KInv => Lockstep
  BY AgreeLocks
<1> QED BY <1>1, <1>2, <1>3, PTL DEF Spec
=============================================================================
