------------------------------- MODULE Sam3a -------------------------------
(***************************************************************************)
(* The asynchronous SAM library as its application sees it: the functions  *)
(* it may call between two select()s and inside callbacks, the loop over   *)
(* the ready descriptors, and the bridge on the other end.                 *)
(*                                                                         *)
(* The application obeys one rule libsam3a.h:54 leaves as a TODO: it does  *)
(* not close an object inside one of the callbacks of that object, and     *)
(* closes the session outside of callbacks.  Everything else the header    *)
(* offers may be called wherever the application has control.              *)
(***************************************************************************)
EXTENDS Sam3aHandlers, SamBridge

CONSTANTS
  SessionKinds,  \* the kinds of session the application creates
  ConnKinds,     \* the kinds of connection it opens
  Calls,         \* which of the other functions it calls
  CloseInSessionCallbacks \* TRUE: sam3aCloseSession is called there as well,
                          \* as examples/sam3a/test00.c does

AllCalls == {"cancelSession", "cancelConnection", "closeConnection",
             "closeSession", "send"}

ASSUME ApplicationAssumption ==
  /\ SessionKinds \subseteq {"stream", "raw", "keyGen", "lookup"}
  /\ ConnKinds \subseteq {"connect", "accept"}
  /\ Calls \subseteq AllCalls
  /\ CloseInSessionCallbacks \in BOOLEAN
  /\ Faults \cap {"early", "badArg"} = {}

-----------------------------------------------------------------------------
(* Functions that create something.                                        *)

\* memset, callbacks, channel name, a nonblocking connect().  (On failure the
\* struct is zeroed again with fd -1: nothing has happened.)
OpenSession(kinds) ==
  /\ AppRuns /\ obj[Ses].mem = "none"
  /\ \E k \in kinds \cap SessionKinds : obj' = [obj EXCEPT ![Ses] = Connecting(k)]
  /\ desc' = [desc EXCEPT ![Ses] = "open"]
  /\ net' = [net EXCEPT ![Ses] = NewSocket]
  /\ UNCHANGED <<connlist, stack, told, rds, wrs>>

sam3aCreateSessionEx == OpenSession({"stream", "raw"})
sam3aGenerateKeysEx  == OpenSession({"keyGen"})
sam3aNameLookupEx    == OpenSession({"lookup"})

\* calloc, connect(), and the new connection becomes the head of connlist
OpenConnection(c, kind) ==
  /\ AppRuns /\ kind \in ConnKinds
  /\ IsActive(obj[Ses]) /\ obj[Ses].kind = "stream" /\ obj[c].mem = "none"
  /\ obj' = [obj EXCEPT ![c] = Connecting(kind)]
  /\ connlist' = <<c>> \o connlist
  /\ desc' = [desc EXCEPT ![c] = "open"]
  /\ net' = [net EXCEPT ![c] = NewSocket]
  /\ UNCHANGED <<stack, told, rds, wrs>>

sam3aStreamConnectEx(c) == OpenConnection(c, "connect")
sam3aStreamAcceptEx(c)  == OpenConnection(c, "accept")

-----------------------------------------------------------------------------
(* Functions that end something.                                           *)

ApiCall(frames) == /\ Call(frames)
                   /\ UNCHANGED <<obj, connlist, rds, wrs, desc, net>>

sam3aCancelSession ==
  /\ "cancelSession" \in Calls
  /\ AppRuns /\ obj[Ses].mem = "live"
  /\ ApiCall(<<F("sesDisconnect", Ses)>>)

sam3aCancelConnection(c) ==
  /\ "cancelConnection" \in Calls
  /\ AppRuns /\ obj[c].mem = "live"
  /\ ApiCall(<<F("connDisconnect", c)>>)

sam3aCloseConnection(c) ==
  /\ "closeConnection" \in Calls
  /\ AppRuns /\ obj[c].mem = "live" /\ ~InCallback(c)
  /\ ApiCall(CloseConnFrames(c))

\* Mutant: the session is cancelled after its struct has been cleared.
sam3aCloseSessionLate ==
  /\ "closeSession" \in Calls
  /\ stack = <<>> /\ obj[Ses].mem = "live"
  /\ ApiCall(<<F("closeSession", Ses), F("sesDisconnect", Ses)>>)

sam3aCloseSession ==
  /\ "closeSession" \in Calls
  /\ obj[Ses].mem = "live"
  /\ \/ stack = <<>>
     \/ /\ CloseInSessionCallbacks /\ AppRuns
        /\ \A i \in DOMAIN stack :
             stack[i].pc \in Callbacks =>
               stack[i] \in {F("cbError", Ses), F("cbCreated", Ses), F("cbAnswer", Ses)}
  /\ ApiCall(<<F("sesDisconnect", Ses), F("closeSession", Ses)>>)

-----------------------------------------------------------------------------
(* Sending, and the return from a callback.                                *)

sam3aSend(c) ==
  /\ "send" \in Calls
  /\ AppRuns
  /\ IsActive(obj[c]) /\ obj[c].callDisc /\ obj[c].procW # "null"
  /\ obj[c].out < MaxOut
  /\ obj' = [obj EXCEPT ![c] = Queue(@, @.out + 1)]
  /\ UNCHANGED <<connlist, stack, told, rds, wrs, desc, net>>

Return ==
  /\ stack # <<>> /\ Head(stack).pc \in Callbacks
  /\ stack' = Tail(stack)
  /\ UNCHANGED <<obj, connlist, told, rds, wrs, desc, net>>

-----------------------------------------------------------------------------
(* The application's loop: sam3aAddSessionToFDS, select(),                 *)
(* sam3aProcessSessionIO.                                                  *)

Watched(o) == IsActive(obj[Ses]) /\ IsActive(obj[o]) /\ (o = Ses \/ Listed(o))

\* Mutant: a socket is watched for writing during its handshake only.
sam3aAddSessionToFDSNoData ==
  [r |-> {o \in Obj : Watched(o) /\ obj[o].procR # "null"},
   w |-> {o \in Obj : Watched(o) /\ obj[o].procW # "null" /\ ~obj[o].callDisc}]

sam3aAddSessionToFDS ==
  [r |-> {o \in Obj : Watched(o) /\ obj[o].procR # "null"},
   w |-> {o \in Obj : Watched(o) /\ obj[o].procW # "null"}]

\* Mutant: the reading half does not raise maxfd.
RaisesMaxWriters(o) ==
  Watched(o) /\ obj[o].procW # "null"
             /\ (o = Ses \/ ~obj[o].callDisc \/ obj[o].out > 0)

\* maxfd: a connection that is open for data and has none to send counts for
\* its reading half only, though it is in both sets (libsam3a.c:1783).
RaisesMax(o) ==
  Watched(o) /\ \/ obj[o].procR # "null"
                \/ obj[o].procW # "null"
                     /\ (o = Ses \/ ~obj[o].callDisc \/ obj[o].out > 0)

\* Descriptors are numbered in the order they were opened (the library closes
\* none): the session comes first, the head of connlist last.
WithinMax(o) ==
  \E p \in Obj : RaisesMax(p) /\ (o = Ses \/ (p # Ses /\ Pos(p) <= Pos(o)))

Readable(o) == net[o].inbox # <<>> \/ net[o].hang # "open"
               \/ net[o].link = "refused"
Writable(o) == net[o].link \in {"up", "refused"}

\* select() looks at the descriptors up to maxfd; with a timeout it does nothing when no descriptor is ready.
Select ==
  /\ stack = <<>>
  /\ rds' = {o \in sam3aAddSessionToFDS.r : WithinMax(o) /\ Readable(o)}
  /\ wrs' = {o \in sam3aAddSessionToFDS.w : WithinMax(o) /\ Writable(o)}
  /\ rds' \cup wrs' # {}
  /\ Call(<<F("readIO", Ses), F("writeIO", Ses), F("walk", Ses)>>)
  /\ UNCHANGED <<obj, connlist, desc, net>>

\* A processor that has been removed or an object that has been cancelled
\* since select() is skipped.
CallR(o) == IsActive(obj[o]) /\ obj[o].procR # "null" /\ o \in rds
CallW(o) == IsActive(obj[o]) /\ obj[o].procW # "null" /\ o \in wrs

Skip(o) == Run(o, obj[o], <<>>) /\ UNCHANGED net

ReadSession ==
  /\ At("readIO", Ses) /\ Rest
  /\ \/ ~CallR(Ses) /\ Skip(Ses)
     \/ CallR(Ses) /\ obj[Ses].procR = "replyReader" /\ aioSesCmdReplyReader

ReadConn(c) ==
  /\ At("readIO", c) /\ Rest
  /\ \/ ~CallR(c) /\ Skip(c)
     \/ CallR(c) /\ obj[c].procR = "replyReader" /\ aioConnCmdReplyReader(c)
     \/ /\ CallR(c) /\ obj[c].procR = "dataReader"
        /\ Run(c, obj[c], <<F("readLoop", c)>>) /\ UNCHANGED net

WriteSession ==
  /\ At("writeIO", Ses) /\ Rest
  /\ \/ ~CallW(Ses) /\ Skip(Ses)
     \/ CallW(Ses) /\ obj[Ses].procW = "connected" /\ aioSesConnected
     \/ CallW(Ses) /\ obj[Ses].procW = "cmdSender" /\ aioSesCmdSender

WriteConn(c) ==
  /\ At("writeIO", c) /\ Rest
  /\ \/ ~CallW(c) /\ Skip(c)
     \/ CallW(c) /\ obj[c].procW = "connected" /\ aioConnConnected(c)
     \/ CallW(c) /\ obj[c].procW = "cmdSender" /\ aioConnCmdSender(c)
     \/ CallW(c) /\ obj[c].procW = "dataWriter" /\ aioConnDataWriter(c)

\* The next connection after o, as connlist is now, that has something to do
\* (nothing changes while the loop passes over the others); after the last
\* one the round is over and its fd_sets are forgotten.
Due(o, i) == i > Pos(o) /\ (CallR(connlist[i]) \/ CallW(connlist[i]))

NextDue(o, i) == /\ Due(o, i)
                 /\ \A j \in DOMAIN connlist : Due(o, j) => i <= j

Visit(c) == (IF CallR(c) THEN <<F("readIO", c)>> ELSE <<>>)
            \o <<F("writeIO", c), F("walk", c)>>

Walk(o) ==
  /\ At("walk", o)
  /\ \/ /\ \E i \in DOMAIN connlist :
             NextDue(o, i) /\ Run(o, obj[o], Visit(connlist[i]))
        /\ UNCHANGED <<rds, wrs>>
     \/ /\ \A i \in DOMAIN connlist : ~Due(o, i)
        /\ Run(o, obj[o], <<>>)
        /\ rds' = {} /\ wrs' = {}
  /\ UNCHANGED <<connlist, desc, net>>

-----------------------------------------------------------------------------
App == \/ sam3aCreateSessionEx \/ sam3aGenerateKeysEx \/ sam3aNameLookupEx
       \/ sam3aCancelSession \/ sam3aCloseSession
       \/ \E c \in Conns : \/ sam3aStreamConnectEx(c) \/ sam3aStreamAcceptEx(c)
                           \/ sam3aCancelConnection(c)
                           \/ sam3aCloseConnection(c) \/ sam3aSend(c)

Library == \/ Teardown
           \/ ReadSession \/ WriteSession
           \/ \E c \in Conns : \/ ReadConn(c) \/ WriteConn(c)
                               \/ aioConnDataReader(c) \/ ready(c)
           \/ \E o \in Obj : Walk(o)

\* The application has closed its session and ends, or it has crashed.
Done == /\ \/ obj[Ses].mem = "closed" /\ stack = <<>>
           \/ At("crashed", Ses)
        /\ UNCHANGED vars

Next == App \/ Return \/ Select \/ Library \/ Bridge \/ Done

Spec == Init /\ [][Next]_vars

\* What the schedule of the code justifies: the library's own code runs on,
\* callbacks return, the application keeps calling select() (whatever else
\* it does meanwhile), and the bridge accepts connections and answers (strong,
\* because SamBridge lets it act only while the application has control).
Fairness == /\ WF_vars(Library)
            /\ SF_vars(Return)
            /\ SF_vars(Select)
            /\ \A o \in Obj : SF_vars(Responds(o))

FairSpec == Spec /\ Fairness
=============================================================================
