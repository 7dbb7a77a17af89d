----------------------------- MODULE Sam3Proofs -----------------------------
(***************************************************************************)
(* Proofs about the synchronous library, for any number of sessions,       *)
(* connections and descriptors, any faults and any functions called.       *)
(***************************************************************************)
EXTENDS Sam3Properties, SequenceTheorems, FiniteSetTheorems,
        WellFoundedInduction, TLAPS

-----------------------------------------------------------------------------
(* The invariant.  OneOwner counts owners; what keeps it is that the call  *)
(* in progress, the structs and the descriptor table agree at every step   *)
(* of a dialogue about who holds the socket.                               *)

\* What a call may have left to read.
Remaining(op) ==
  IF op = "connect" THEN {<<"hello", "connect">>, <<"connect">>}
  ELSE IF op = "accept"
    THEN {<<"hello", "accept", "acceptA">>, <<"accept", "acceptA">>, <<"acceptA">>}
  ELSE IF op = "forward" THEN {<<"hello", "forward">>, <<"forward">>}
  ELSE IF op = "keyGen" THEN {<<"hello", "keyGen">>, <<"keyGen">>}
  ELSE IF op = "lookup" THEN {<<"hello", "nameRes">>, <<"nameRes">>}
  ELSE IF op = "receive" THEN {<<"dgram", "payload">>, <<"payload">>}
  ELSE {<<"hello", "create", "nameMe">>, <<"create", "nameMe">>, <<"nameMe">>}

\* The struct that the call in progress fills has no socket before the bridge
\* has said hello, and that of the call from then on.
Held == IF InHandshake THEN None ELSE call.fd

CreatesFor(s) == ~Idle /\ Creating(call.op) /\ call.s = s
OpensFor(c) == ~Idle /\ call.op \in {"connect", "accept"} /\ call.c = c

CallShape ==
  ~Idle =>
    /\ call.op \in AllOps /\ call.s \in Sessions
    /\ call.todo \in Remaining(call.op)
    /\ call.at = "connect" => /\ call.fd = None /\ InHandshake
    /\ call.at # "connect" => call.fd \in Fds
    /\ call.at = "send" => Head(call.todo) \in Commands
    /\ call.op = "receive" => call.at \in {"await", "crashed"}

Holding ==
  ~Idle =>
    /\ Creating(call.op) => /\ ses[call.s].mem = "live"
                            /\ ses[call.s].style = Style(call.op)
                            /\ ses[call.s].fd = Held
                            /\ ses[call.s].fwd_fd = None
                            /\ ses[call.s].connlist = <<>>
    /\ call.op \in {"connect", "accept"} =>
         /\ ses[call.s].mem = "live"
         /\ call.c \in Conns /\ conn[call.c].mem = "live"
         /\ conn[call.c].ses = call.s /\ conn[call.c].fd = Held
    /\ call.op \notin {"connect", "accept"} => call.c = "none"
    /\ call.op = "forward" => ses[call.s].mem = "live" /\ ses[call.s].fwd_fd = Held
    /\ call.op \in {"keyGen", "lookup"} => ses[call.s].mem # "live"
    /\ call.op = "receive" => /\ ses[call.s].mem = "live"
                              /\ ses[call.s].style = "dgram"
                              /\ ses[call.s].fd = call.fd

\* The structs that are not being filled have their sockets.
Settled ==
  /\ \A s \in Sessions : ses[s].mem = "live" /\ ~CreatesFor(s) => ses[s].fd \in Fds
  /\ \A c \in Conns : conn[c].mem = "live" =>
       /\ conn[c].ses \in Sessions /\ ses[conn[c].ses].mem = "live"
       /\ ~OpensFor(c) => conn[c].fd \in Fds

\* The descriptor that each owner has, if any, and OneOwner without counting.
SesFd(s)  == IF ses[s].mem = "live" THEN ses[s].fd ELSE None
FwdFd(s)  == IF ses[s].mem = "live" THEN ses[s].fwd_fd ELSE None
ConnFd(c) == IF conn[c].mem = "live" THEN conn[c].fd ELSE None
HandFd    == IF Idle \/ call.op = "receive" THEN None
             ELSE IF call.op \in {"keyGen", "lookup"} \/ InHandshake THEN call.fd
             ELSE None

OwnFd(w) == IF w[1] = "ses" THEN SesFd(w[2])
            ELSE IF w[1] = "fwd" THEN FwdFd(w[2])
            ELSE IF w[1] = "conn" THEN ConnFd(w[2])
            ELSE HandFd

Owned ==
  /\ \A w \in Owners : OwnFd(w) \in Fds => fds[OwnFd(w)] = "lib"
  /\ \A v, w \in Owners : OwnFd(v) \in Fds /\ OwnFd(v) = OwnFd(w) => v = w
  /\ \A d \in Fds : fds[d] = "lib" => \E w \in Owners : OwnFd(w) = d

OInv == /\ TypeOK /\ CallShape /\ Holding /\ Settled /\ Owned
        /\ ConnlistIntegrity /\ OnlyOwnFds

-----------------------------------------------------------------------------
(* The scripts, and where the descriptors are.                            *)

\* What r, the rest of the script of op, begins with and goes on to.
Ends(op, r) ==
  /\ r \in Seq(Lines) /\ r # <<>> /\ Head(r) \in Lines
  /\ Tail(r) # <<>> => Tail(r) \in Remaining(op) /\ Head(Tail(r)) # "hello"
  /\ Head(r) = "hello" => /\ Tail(r) # <<>> /\ Head(Tail(r)) \in Commands
                          /\ op # "receive"
  /\ op = "receive" <=> Head(r) \in {"dgram", "payload"}

\* Each script of the source is a row of lines, and its handshake comes first
\* (libsam3.c:645-1017): what is left of it at any step is again one of
\* Remaining(op), and no rest of a script says hello again.
LEMMA Scripts ==
  ASSUME NEW op \in AllOps, NEW r \in Remaining(op)
  PROVE  Ends(op, r)
<1>1. CASE op = "connect"
  <2>1. CASE r = <<"hello", "connect">>
    BY <1>1, <2>1 DEF Ends, Remaining, Creating, Lines, Commands
  <2>2. CASE r = <<"connect">>
    BY <1>1, <2>2 DEF Ends, Remaining, Creating, Lines, Commands
  <2> QED BY <1>1, <2>1, <2>2 DEF Remaining, Creating
<1>2. CASE op = "accept"
  <2>1. CASE r = <<"hello", "accept", "acceptA">>
    BY <1>2, <2>1 DEF Ends, Remaining, Creating, Lines, Commands
  <2>2. CASE r = <<"accept", "acceptA">>
    BY <1>2, <2>2 DEF Ends, Remaining, Creating, Lines, Commands
  <2>3. CASE r = <<"acceptA">>
    BY <1>2, <2>3 DEF Ends, Remaining, Creating, Lines, Commands
  <2> QED BY <1>2, <2>1, <2>2, <2>3 DEF Remaining, Creating
<1>3. CASE op = "forward"
  <2>1. CASE r = <<"hello", "forward">>
    BY <1>3, <2>1 DEF Ends, Remaining, Creating, Lines, Commands
  <2>2. CASE r = <<"forward">>
    BY <1>3, <2>2 DEF Ends, Remaining, Creating, Lines, Commands
  <2> QED BY <1>3, <2>1, <2>2 DEF Remaining, Creating
<1>4. CASE op = "keyGen"
  <2>1. CASE r = <<"hello", "keyGen">>
    BY <1>4, <2>1 DEF Ends, Remaining, Creating, Lines, Commands
  <2>2. CASE r = <<"keyGen">>
    BY <1>4, <2>2 DEF Ends, Remaining, Creating, Lines, Commands
  <2> QED BY <1>4, <2>1, <2>2 DEF Remaining, Creating
<1>5. CASE op = "lookup"
  <2>1. CASE r = <<"hello", "nameRes">>
    BY <1>5, <2>1 DEF Ends, Remaining, Creating, Lines, Commands
  <2>2. CASE r = <<"nameRes">>
    BY <1>5, <2>2 DEF Ends, Remaining, Creating, Lines, Commands
  <2> QED BY <1>5, <2>1, <2>2 DEF Remaining, Creating
<1>6. CASE op = "receive"
  <2>1. CASE r = <<"dgram", "payload">>
    BY <1>6, <2>1 DEF Ends, Remaining, Creating, Lines, Commands
  <2>2. CASE r = <<"payload">>
    BY <1>6, <2>2 DEF Ends, Remaining, Creating, Lines, Commands
  <2> QED BY <1>6, <2>1, <2>2 DEF Remaining, Creating
<1>7. CASE Creating(op)
  <2>1. CASE r = <<"hello", "create", "nameMe">>
    BY <1>7, <2>1 DEF Ends, Remaining, Creating, Lines, Commands
  <2>2. CASE r = <<"create", "nameMe">>
    BY <1>7, <2>2 DEF Ends, Remaining, Creating, Lines, Commands
  <2>3. CASE r = <<"nameMe">>
    BY <1>7, <2>3 DEF Ends, Remaining, Creating, Lines, Commands
  <2> QED BY <1>7, <2>1, <2>2, <2>3 DEF Remaining, Creating
<1> QED BY <1>1, <1>2, <1>3, <1>4, <1>5, <1>6, <1>7 DEF AllOps, Creating

\* The kernel has a lowest free descriptor to hand out, if it has one.
LEMMA LeastFd == ASSUME TypeOK, Free # {} PROVE LowestFree \in Free
<1> DEFINE Less == {p \in Nat \X Nat : p[1] < p[2]}
<1>1. Free \subseteq Nat
  BY SyncAssumption DEF Free, Fds
<1>2. PICK d \in Free : \A e \in Free : ~(<<e, d>> \in Less)
  <2>1. IsWellFoundedOn(Less, Nat)
    BY NatLessThanWellFounded, Zenon DEF OpToRel
  <2> HIDE DEF Less
  <2> QED BY <1>1, <2>1, WFMin
<1>3. \A e \in Free : d <= e
  <2> SUFFICES ASSUME NEW e \in Free, ~(d <= e) PROVE FALSE
    OBVIOUS
  <2>1. <<e, d>> \in Less
    BY <1>1
  <2> QED BY <1>2, <2>1
<1> QED BY <1>3 DEF LowestFree

\* A function starts with its whole script.
LEMMA ScriptStarts ==
  ASSUME NEW op \in AllOps
  PROVE  Script(op) \in Remaining(op) /\ (op # "receive" => Head(Script(op)) = "hello")
BY DEF AllOps, Remaining, Script

\* An owner has a descriptor of the table, or none.
LEMMA OwnFdType ==
  ASSUME TypeOK, NEW w \in Owners PROVE OwnFd(w) \in Fds \cup {None}
BY DEF TypeOK, Owners, OwnFd, SesFd, FwdFd, ConnFd, HandFd, Session, Connection, CallRec

\* Owns and OwnFd say the same.
LEMMA OwnsFd ==
  ASSUME TypeOK, NEW w \in Owners, NEW d \in Fds PROVE Owns(w, d) <=> OwnFd(w) = d
<1>1. None \notin Fds
  BY SyncAssumption DEF None, Fds
<1> QED
BY <1>1 DEF TypeOK, Owners, Owns, InHand, OwnFd, SesFd, FwdFd, ConnFd, HandFd

\* A socket of the library that has an owner and no two is owned by one.
LEMMA CountOwners == ASSUME TypeOK, Owned PROVE OneOwner
<1> SUFFICES ASSUME NEW d \in Fds
             PROVE  Cardinality({w \in Owners : Owns(w, d)}) = IF fds[d] = "lib" THEN 1 ELSE 0
  BY DEF OneOwner
<1>1. CASE fds[d] = "lib"
  <2>1. PICK w \in Owners : OwnFd(w) = d
    BY <1>1 DEF Owned
  <2>2. {v \in Owners : Owns(v, d)} = {w}
    BY <2>1, OwnsFd DEF Owned
  <2> QED BY <1>1, <2>2, FS_Singleton
<1>2. CASE fds[d] # "lib"
  <2>1. {v \in Owners : Owns(v, d)} = {}
    BY <1>2, OwnsFd DEF Owned
  <2> QED BY <1>2, <2>1, FS_EmptySet
<1> QED BY <1>1, <1>2

\* Owners in W give up what they have, which is closed.
LEMMA GivenUp ==
  ASSUME TypeOK, Owned, OnlyOwnFds, NEW W \in SUBSET Owners, NEW D,
         D \cap Fds = {OwnFd(w) : w \in W} \cap Fds,
         fds' = [d \in Fds |-> IF d \in D THEN "free" ELSE fds[d]],
         \A w \in Owners : OwnFd(w)' = IF w \in W THEN None ELSE OwnFd(w)
  PROVE  Owned' /\ OnlyOwnFds'
<1>1. None \notin Fds /\ Stdin \in Fds
  BY SyncAssumption DEF None, Fds, Stdin
<1>2. Owners' = Owners
  BY DEF Owners
<1>3. \A w \in Owners : OwnFd(w)' \in Fds => w \notin W /\ OwnFd(w) = OwnFd(w)'
  BY <1>1
<1>4. \A w \in Owners : OwnFd(w)' \in Fds => OwnFd(w) \notin D
  BY <1>3 DEF Owned
<1>5. \A w \in Owners : OwnFd(w)' \in Fds => fds'[OwnFd(w)'] = "lib"
  BY <1>3, <1>4 DEF Owned
<1>6. \A d \in Fds : fds'[d] = "lib" => \E w \in Owners : OwnFd(w)' = d
  <2> SUFFICES ASSUME NEW d \in Fds, fds'[d] = "lib" PROVE \E w \in Owners : OwnFd(w)' = d
    OBVIOUS
  <2>1. d \notin D /\ fds[d] = "lib"
    OBVIOUS
  <2>2. PICK w \in Owners : OwnFd(w) = d
    BY <2>1 DEF Owned
  <2>3. w \notin W
    BY <2>1, <2>2
  <2> QED BY <2>2, <2>3
<1>7. Owned'
  BY <1>2, <1>3, <1>5, <1>6 DEF Owned
<1>8. Stdin \notin D
  BY <1>1 DEF Owned, OnlyOwnFds
<1> QED BY <1>1, <1>7, <1>8 DEF OnlyOwnFds

\* The socket of u goes over to v, which had none: Hold, after the handshake.
LEMMA MovedOn ==
  ASSUME TypeOK, Owned, OnlyOwnFds, UNCHANGED fds,
         NEW v \in Owners, NEW u \in Owners, u # v, OwnFd(v) \notin Fds,
         \A w \in Owners : OwnFd(w)' = IF w = u THEN None ELSE IF w = v THEN OwnFd(u) ELSE OwnFd(w)
  PROVE  Owned' /\ OnlyOwnFds'
<1>1. None \notin Fds
  BY SyncAssumption DEF None, Fds
<1>2. Owners' = Owners
  BY DEF Owners
<1>3. \A d \in Fds : fds'[d] = "lib" => \E w \in Owners : OwnFd(w)' = d
  <2> SUFFICES ASSUME NEW d \in Fds, fds[d] = "lib" PROVE \E w \in Owners : OwnFd(w)' = d
    OBVIOUS
  <2>2. PICK w \in Owners : OwnFd(w) = d
    BY DEF Owned
  <2> QED BY <2>2
<1>4. \A w \in Owners : OwnFd(w)' \in Fds => fds'[OwnFd(w)'] = "lib"
  BY <1>1 DEF Owned
<1>5. \A x, w \in Owners : OwnFd(x)' \in Fds /\ OwnFd(x)' = OwnFd(w)' => x = w
  BY <1>1 DEF Owned
<1> QED BY <1>2, <1>3, <1>4, <1>5 DEF Owned, OnlyOwnFds

\* A descriptor that was free goes to v, which had none: socket().
LEMMA TakenUp ==
  ASSUME TypeOK, Owned, OnlyOwnFds, NEW v \in Owners, OwnFd(v) \notin Fds,
         NEW d \in Free, fds' = [fds EXCEPT ![d] = "lib"],
         \A w \in Owners : OwnFd(w)' = IF w = v THEN d ELSE OwnFd(w)
  PROVE  Owned' /\ OnlyOwnFds'
<1>1. None \notin Fds /\ Stdin \in Fds
  BY SyncAssumption DEF None, Fds, Stdin
<1>2. Owners' = Owners
  BY DEF Owners
<1>3. d \in Fds /\ fds[d] = "free" /\ \A w \in Owners : OwnFd(w) # d
  BY DEF Owned, Free
<1>4. \A e \in Fds : fds'[e] = "lib" => \E w \in Owners : OwnFd(w)' = e
  <2> SUFFICES ASSUME NEW e \in Fds, fds'[e] = "lib" PROVE \E w \in Owners : OwnFd(w)' = e
    OBVIOUS
  <2>1. CASE e # d
    <3>1. fds[e] = "lib"
      BY <2>1 DEF TypeOK
    <3>2. PICK w \in Owners : OwnFd(w) = e
      BY <3>1 DEF Owned
    <3> QED BY <3>2
  <2> QED BY <2>1
<1>5. \A w \in Owners : OwnFd(w)' \in Fds => fds'[OwnFd(w)'] = "lib"
  BY <1>3 DEF Owned, TypeOK
<1>6. \A x, w \in Owners : OwnFd(x)' \in Fds /\ OwnFd(x)' = OwnFd(w)' => x = w
  BY <1>3 DEF Owned
<1> QED BY <1>1, <1>2, <1>3, <1>4, <1>5, <1>6 DEF Owned, OnlyOwnFds, TypeOK

-----------------------------------------------------------------------------
(* What the pieces of a step do to the structs.                            *)

\* Two sessions that differ at most in their message.
SameButError(s, t) ==
  /\ s.mem = t.mem /\ s.style = t.style /\ s.fd = t.fd
  /\ s.fwd_fd = t.fwd_fd /\ s.silent = t.silent /\ s.connlist = t.connlist

\* Writing ses->error leaves the rest of every session alone.
LEMMA ErrorFields ==
  ASSUME TypeOK, NEW s \in Sessions, NEW e \in BOOLEAN, Error(s, e)
  PROVE  /\ ses' \in [Sessions -> Session]
         /\ \A t \in Sessions : SameButError(ses'[t], ses[t])
         /\ \A t \in Sessions : ses'[t].error = IF t = s THEN e ELSE ses[t].error
<1>1. ses' = [ses EXCEPT ![s] = [ses[s] EXCEPT !["error"] = e]]
  BY Zenon DEF Error
<1> QED BY <1>1 DEF TypeOK, Session, SameButError

\* A function that returns keeps its arguments on record.
LEMMA ReturnFields ==
  ASSUME TypeOK, NEW r \in {"ok", "failed"}, Return(r)
  PROVE  /\ call' \in CallRec /\ call'.at = "idle"
         /\ call'.op = call.op /\ call'.s = call.s /\ call'.c = call.c /\ call'.res = r
<1>1. call' = [op |-> call.op, s |-> call.s, c |-> call.c, fd |-> None,
               at |-> "idle", todo |-> <<>>, res |-> r]
  BY DEF Return, TypeOK, CallRec
<1> QED BY <1>1 DEF TypeOK, CallRec, Phases

\* Closing keeps the tables what they are.
LEMMA CloseType ==
  ASSUME TypeOK, NEW D, NEW left \in [Fds -> Socket], Close(D, left)
  PROVE  /\ fds' \in [Fds -> {"free", "app", "lib"}]
         /\ sock' \in [Fds -> Socket]
<1>1. NewSocket \in Socket
  BY DEF NewSocket, Socket, Commands
<1> QED BY <1>1 DEF Close, TypeOK

\* Freeing connections touches no other.
LEMMA FreeConnsType ==
  ASSUME TypeOK, NEW C, FreeConns(C)
  PROVE  /\ conn' \in [Conns -> Connection]
         /\ \A c \in Conns : IF c \in C THEN conn'[c].mem = "none" /\ conn'[c].ses = "none" ELSE conn'[c] = conn[c]
<1>1. NoConn \in Connection /\ NoConn.mem = "none" /\ NoConn.ses = "none"
  BY DEF NoConn, Connection
<1> QED BY <1>1 DEF FreeConns, TypeOK

\* A session that is closed is a session.
LEMMA ClosedType ==
  /\ Closed \in Session /\ Closed.mem = "closed" /\ Closed.connlist = <<>>
BY SyncAssumption DEF Closed, Session, Fds, Stdin

\* A connect or accept that fails closes its socket once, wherever it is kept
\* at that step, and frees its struct (libsam3.c:970-974, 1018-1043).
LEMMA FailOpenStep ==
  ASSUME OInv, ~Idle, call.op \in {"connect", "accept"},
         NEW left \in [Fds -> Socket], FailOpen(call.s, call.c, left)
  PROVE  OInv'
<1> DEFINE s == call.s  c == call.c
           W == {<<"call", "call">>, <<"conn", c>>}
<1>1. /\ s \in Sessions /\ c \in Conns /\ conn[c].mem = "live" /\ conn[c].fd = Held
      /\ conn[c].ses = s
      /\ TypeOK /\ call.op \in AllOps
  BY DEF OInv, CallShape, Holding
<1>2. /\ call' \in CallRec /\ Idle' /\ call'.c = c
  BY <1>1, ReturnFields DEF FailOpen, Idle
<1>3. /\ ses' \in [Sessions -> Session]
      /\ \A t \in Sessions : SameButError(ses'[t], ses[t])
  BY <1>1, ErrorFields DEF FailOpen
<1>4. /\ conn' \in [Conns -> Connection]
      /\ \A b \in Conns : IF b = c THEN conn'[b].mem = "none" ELSE conn'[b] = conn[b]
  BY <1>1, FreeConnsType DEF FailOpen
<1>5. TypeOK'
  BY <1>1, <1>2, <1>3, <1>4, CloseType DEF FailOpen, TypeOK
<1>6. CallShape' /\ Holding'
  BY <1>2 DEF CallShape, Holding
<1>7. Settled'
  BY <1>1, <1>2, <1>3, <1>4 DEF Settled, OInv, CreatesFor, OpensFor, SameButError, Creating, Idle
<1>8. Owned' /\ OnlyOwnFds'
  <2>1. \A w \in Owners : OwnFd(w)' = IF w \in W THEN None ELSE OwnFd(w)
    BY <1>2, <1>3, <1>4 DEF Owners, OwnFd, SesFd, FwdFd, ConnFd, HandFd, SameButError, Idle
  <2>2. {call.fd, conn[c].fd} \cap Fds = {OwnFd(w) : w \in W} \cap Fds
    <3>1. OwnFd(<<"call", "call">>) = IF InHandshake THEN call.fd ELSE None
      BY <1>1 DEF OwnFd, HandFd, Idle
    <3>2. OwnFd(<<"conn", c>>) = Held
      BY <1>1 DEF OwnFd, ConnFd
    <3>3. None \notin Fds
      BY SyncAssumption DEF None, Fds
    <3> QED BY <1>1, <3>1, <3>2, <3>3 DEF Held
  <2>3. W \in SUBSET Owners
    BY <1>1 DEF Owners
  <2>4. fds' = [d \in Fds |-> IF d \in {call.fd, conn[c].fd} THEN "free" ELSE fds[d]]
    BY DEF FailOpen, Close
  <2> HIDE DEF W
  <2> QED BY <2>1, <2>2, <2>3, <2>4, GivenUp DEF OInv
<1>9. ConnlistIntegrity'
  <2>1. \A t \in Sessions : ConnsOf(t)' = ConnsOf(t)
    BY <1>3 DEF ConnsOf, SameButError
  <2> QED
  BY <1>1, <1>2, <1>3, <1>4, <2>1 DEF ConnlistIntegrity, SameButError, OInv, Idle
<1> QED BY <1>5, <1>6, <1>7, <1>8, <1>9 DEF OInv

\* ses->fd is written, and nothing else.
LEMMA FdField ==
  ASSUME NEW r \in Session, NEW d \in Fds
  PROVE  LET t == [r EXCEPT !["fd"] = d] IN
         /\ t \in Session /\ t.fd = d
         /\ t.mem = r.mem /\ t.style = r.style /\ t.fwd_fd = r.fwd_fd /\ t.connlist = r.connlist
BY DEF Session

\* ses->fwd_fd is written, and nothing else.
LEMMA FwdField ==
  ASSUME NEW r \in Session, NEW d \in Fds
  PROVE  LET t == [r EXCEPT !["fwd_fd"] = d] IN
         /\ t \in Session /\ t.fwd_fd = d
         /\ t.mem = r.mem /\ t.style = r.style /\ t.fd = r.fd /\ t.connlist = r.connlist
BY DEF Session

\* ses->connlist is written, and nothing else.
LEMMA ListField ==
  ASSUME NEW r \in Session, NEW list \in Seq(Conns)
  PROVE  LET t == [r EXCEPT !["connlist"] = list] IN
         /\ t \in Session /\ t.connlist = list
         /\ t.mem = r.mem /\ t.style = r.style /\ t.fd = r.fd /\ t.fwd_fd = r.fwd_fd
BY DEF Session

\* ses->silent is written, and nothing else.
LEMMA SilentField ==
  ASSUME NEW r \in Session
  PROVE  LET t == [r EXCEPT !["silent"] = TRUE] IN
         /\ t \in Session /\ t.silent = TRUE
         /\ t.mem = r.mem /\ t.style = r.style /\ t.fd = r.fd /\ t.fwd_fd = r.fwd_fd /\ t.connlist = r.connlist
BY DEF Session

-----------------------------------------------------------------------------
(* Steps that move no descriptor.                                          *)

\* Nobody's descriptor changes.
LEMMA Kept ==
  ASSUME TypeOK, Owned, OnlyOwnFds, UNCHANGED fds, \A w \in Owners : OwnFd(w)' = OwnFd(w)
  PROVE  Owned' /\ OnlyOwnFds'
<1>1. Owners' = Owners
  BY DEF Owners
<1> QED BY <1>1 DEF Owned, OnlyOwnFds

\* connlist is about the structs that are linked, and the call's.
LEMMA ConnlistsKept ==
  ASSUME TypeOK, ConnlistIntegrity,
         \A c \in Conns : conn'[c].mem = conn[c].mem /\ conn'[c].ses = conn[c].ses,
         \A s \in Sessions : ses'[s].connlist = ses[s].connlist,
         \A c \in Conns : (~Idle /\ call.c = c)' <=> (~Idle /\ call.c = c)
  PROVE  ConnlistIntegrity'
<1>1. \A s \in Sessions : ConnsOf(s)' = ConnsOf(s)
  BY DEF ConnsOf
<1> QED BY <1>1 DEF ConnlistIntegrity

\* The bridge and the application change nothing but sockets.
LEMMA OnlySock ==
  ASSUME OInv, UNCHANGED <<ses, conn, call, fds>>, sock' \in [Fds -> Socket]
  PROVE  OInv'
<1>1. TypeOK' /\ CallShape' /\ Holding' /\ Settled'
  BY DEF OInv, TypeOK, CallShape, Holding, Settled, InHandshake, Held, Idle, CreatesFor, OpensFor
<1>2. Owned' /\ OnlyOwnFds'
  BY Kept DEF OInv, Owners, OwnFd, SesFd, FwdFd, ConnFd, HandFd, Idle, InHandshake
<1>3. ConnlistIntegrity'
  BY ConnlistsKept DEF OInv, Idle
<1> QED BY <1>1, <1>2, <1>3 DEF OInv

\* A function that returns at once, with no more than a message.
LEMMA OnlyTold ==
  ASSUME OInv, Idle, NEW s \in Sessions, NEW e \in BOOLEAN, Error(s, e),
         call' \in CallRec, Idle', UNCHANGED <<conn, fds, sock>>
  PROVE  OInv'
<1>1. /\ ses' \in [Sessions -> Session]
      /\ \A t \in Sessions : SameButError(ses'[t], ses[t])
  BY ErrorFields DEF OInv
<1>2. TypeOK' /\ CallShape' /\ Holding'
  BY <1>1 DEF OInv, TypeOK, CallShape, Holding
<1>3. Settled'
  BY <1>1 DEF OInv, Settled, CreatesFor, OpensFor, SameButError
<1>4. \A w \in Owners : OwnFd(w)' = OwnFd(w)
  BY <1>1 DEF Owners, OwnFd, SesFd, FwdFd, ConnFd, HandFd, SameButError, Idle
<1>5. Owned' /\ OnlyOwnFds'
  BY <1>4, Kept DEF OInv
<1>6. ConnlistIntegrity'
  BY <1>1, ConnlistsKept DEF OInv, SameButError
<1> QED BY <1>2, <1>3, <1>5, <1>6 DEF OInv

\* The call goes on to wait, or the process dies in it.
LEMMA SameCall ==
  ASSUME OInv, ~Idle, call.at # "connect", NEW at \in {"await", "crashed"},
         call' = [call EXCEPT !.at = at], UNCHANGED <<conn, fds>>,
         ses' \in [Sessions -> Session],
         \A t \in Sessions : SameButError(ses'[t], ses[t]),
         sock' \in [Fds -> Socket]
  PROVE  OInv'
<1>1. /\ call' \in CallRec /\ call'.at = at
      /\ call'.op = call.op /\ call'.s = call.s /\ call'.c = call.c
      /\ call'.fd = call.fd /\ call'.todo = call.todo
  BY DEF OInv, TypeOK, CallRec, Phases
<1>2. ~Idle' /\ InHandshake' = InHandshake /\ Held' = Held
  BY <1>1 DEF Idle, InHandshake, Held
<1>3. TypeOK' /\ CallShape'
  BY <1>1, <1>2 DEF OInv, TypeOK, CallShape, Idle
<1>4. Holding'
  BY <1>1, <1>2 DEF OInv, TypeOK, CallShape, Holding, SameButError
<1>5. Settled'
  BY <1>1, <1>2 DEF OInv, Settled, CreatesFor, OpensFor, SameButError
<1>6. \A w \in Owners : OwnFd(w)' = OwnFd(w)
  BY <1>1, <1>2 DEF Owners, OwnFd, SesFd, FwdFd, ConnFd, HandFd, SameButError
<1>7. Owned' /\ OnlyOwnFds'
  BY <1>6, Kept DEF OInv
<1>8. ConnlistIntegrity'
  BY <1>1, <1>2, ConnlistsKept DEF OInv, SameButError
<1> QED BY <1>3, <1>4, <1>5, <1>7, <1>8 DEF OInv

-----------------------------------------------------------------------------
(* Calls that fail.                                                        *)

\* A function that fails gives back the socket that it has in hand, and keeps
\* that which is in a struct already.
LEMMA GivesBack ==
  ASSUME OInv, ~Idle, call.op \in {"forward", "keyGen", "lookup", "receive"},
         ses' \in [Sessions -> Session], \A t \in Sessions : SameButError(ses'[t], ses[t]),
         NEW r \in {"ok", "failed"}, Return(r),
         UNCHANGED conn, sock' \in [Fds -> Socket], NEW D, D \cap Fds = {HandFd} \cap Fds,
         fds' = [d \in Fds |-> IF d \in D THEN "free" ELSE fds[d]]
  PROVE  OInv'
<1> DEFINE W == {<<"call", "call">>}
<1>1. TypeOK /\ call.s \in Sessions /\ call.op \in AllOps
  BY DEF OInv, CallShape
<1>2. call' \in CallRec /\ Idle'
  BY <1>1, ReturnFields DEF Idle
<1>3. TypeOK' /\ CallShape' /\ Holding'
  BY <1>1, <1>2, CloseType DEF TypeOK, CallShape, Holding
<1>4. Settled'
  BY <1>1, <1>2 DEF OInv, Settled, CreatesFor, OpensFor, SameButError, Creating, Idle
<1>5. Owned' /\ OnlyOwnFds'
  <2>1. \A w \in Owners : OwnFd(w)' = IF w \in W THEN None ELSE OwnFd(w)
    BY <1>2 DEF Owners, OwnFd, SesFd, FwdFd, ConnFd, HandFd, SameButError, Idle
  <2>2. D \cap Fds = {OwnFd(w) : w \in W} \cap Fds
    BY DEF OwnFd
  <2>3. W \in SUBSET Owners
    BY DEF Owners
  <2> HIDE DEF W
  <2> QED BY <1>1, <2>1, <2>2, <2>3, GivenUp DEF OInv
<1>6. ConnlistIntegrity'
  <2>1. \A c \in Conns : call.c # c
    BY <1>1, SyncAssumption DEF OInv, Holding
  <2> QED BY <1>1, <1>2, <2>1, ConnlistsKept DEF OInv, SameButError, Idle
<1> QED BY <1>3, <1>4, <1>5, <1>6 DEF OInv

\* sam3CreateSession that fails goes through sam3CloseSession with a struct
\* that is half filled, and closes its socket once (libsam3.c:826-869).
LEMMA FailCreateStep ==
  ASSUME OInv, ~Idle, Creating(call.op), NEW left \in [Fds -> Socket],
         NEW s, call.s = s, FailCreate(s, left)
  PROVE  OInv'
<1> DEFINE W == {<<"call", "call">>, <<"ses", s>>, <<"fwd", s>>}
<1>1. /\ s \in Sessions /\ TypeOK /\ call.op \in AllOps
      /\ ses[s].mem = "live" /\ ses[s].fd = Held /\ ses[s].fwd_fd = None
      /\ ses[s].connlist = <<>>
  BY DEF OInv, CallShape, Holding
<1>2. /\ call' \in CallRec /\ Idle'
  BY <1>1, ReturnFields DEF FailCreate, Idle
<1>3. ConnsOf(s) = {}
  BY <1>1 DEF ConnsOf
<1>4. conn' \in [Conns -> Connection] /\ \A c \in Conns : conn'[c] = conn[c]
  BY <1>1, <1>3, FreeConnsType DEF FailCreate
<1>5. /\ ses' \in [Sessions -> Session]
      /\ ses'[s].mem = "closed" /\ ses'[s].connlist = <<>>
      /\ \A t \in Sessions : t # s => ses'[t] = ses[t]
  BY <1>1, ClosedType DEF FailCreate, TypeOK
<1>6. TypeOK' /\ CallShape' /\ Holding'
  BY <1>1, <1>2, <1>4, <1>5, CloseType DEF FailCreate, TypeOK, CallShape, Holding
<1>7. \A c \in Conns : ~(conn[c].mem = "live" /\ conn[c].ses = s)
  <2>1. \A c \in Conns : call.c # c
    BY <1>1, SyncAssumption DEF OInv, Holding, Creating
  <2> QED BY <1>1, <1>3, <2>1 DEF OInv, ConnlistIntegrity
<1>8. Settled'
  BY <1>1, <1>2, <1>4, <1>5, <1>7 DEF OInv, Settled, CreatesFor, OpensFor, Creating, Idle
<1>9. Owned' /\ OnlyOwnFds'
  <2>1. \A w \in Owners : OwnFd(w)' = IF w \in W THEN None ELSE OwnFd(w)
    BY <1>2, <1>4, <1>5 DEF Owners, OwnFd, SesFd, FwdFd, ConnFd, HandFd, Idle
  <2>2. (HeldBy(s) \cup {call.fd}) \cap Fds = {OwnFd(w) : w \in W} \cap Fds
    <3>1. OwnFd(<<"call", "call">>) = IF InHandshake THEN call.fd ELSE None
      BY <1>1 DEF OwnFd, HandFd, Idle, Creating
    <3>2. OwnFd(<<"ses", s>>) = Held /\ OwnFd(<<"fwd", s>>) = None
      BY <1>1 DEF OwnFd, SesFd, FwdFd
    <3>3. None \notin Fds
      BY SyncAssumption DEF None, Fds
    <3>4. HeldBy(s) = {Held, None}
      BY <1>1, <1>3 DEF HeldBy
    <3> QED BY <3>1, <3>2, <3>3, <3>4 DEF Held
  <2>3. W \in SUBSET Owners
    BY <1>1 DEF Owners
  <2>4. fds' = [d \in Fds |-> IF d \in HeldBy(s) \cup {call.fd} THEN "free" ELSE fds[d]]
    BY DEF FailCreate, Close
  <2> HIDE DEF W
  <2> QED BY <1>1, <2>1, <2>2, <2>3, <2>4, GivenUp DEF OInv
<1>10. ConnlistIntegrity'
  <2>1. ConnsOf(s)' = {}
    BY <1>5 DEF ConnsOf
  <2>2. \A t \in Sessions : t # s => ConnsOf(t)' = ConnsOf(t)
    BY <1>5 DEF ConnsOf
  <2>3. \A c \in Conns : call.c # c
    BY <1>1, SyncAssumption DEF OInv, Holding, Creating
  <2> QED BY <1>1, <1>2, <1>4, <1>5, <1>7, <2>1, <2>2, <2>3 DEF OInv, ConnlistIntegrity, Idle
<1> QED BY <1>6, <1>8, <1>9, <1>10 DEF OInv

\* A process that dies in a call dies with its descriptors where they are.
LEMMA CrashStep ==
  ASSUME OInv, ~Idle, call.at # "connect", NEW left \in [Fds -> Socket], Crash(left)
  PROVE  OInv'
<1>1. ses' \in [Sessions -> Session] /\ \A t \in Sessions : SameButError(ses'[t], ses[t])
  BY DEF Crash, OInv, TypeOK, SameButError
<1> QED BY <1>1, SameCall DEF Crash

\* A session that is being created has no socket.
LEMMA FreshType ==
  ASSUME NEW style \in {"dgram", "stream"}
  PROVE  /\ Fresh(style) \in Session
         /\ Fresh(style).mem = "live" /\ Fresh(style).style = style
         /\ Fresh(style).fd = None /\ Fresh(style).fwd_fd = None
         /\ Fresh(style).connlist = <<>>
<1>1. Closed \in Session /\ Closed.fd = None /\ Closed.connlist = <<>>
  BY ClosedType DEF Closed
<1> QED BY <1>1 DEF Fresh, Session

\* Every function's way out, from any step of it, keeps the invariant.
LEMMA FailStep ==
  ASSUME OInv, ~Idle, NEW left \in [Fds -> Socket], Fail(left)
  PROVE  OInv'
<1>1. /\ TypeOK /\ call.op \in AllOps /\ call.s \in Sessions
      /\ call.at = "connect" => InHandshake
      /\ None \notin Fds
  BY SyncAssumption DEF OInv, CallShape, None, Fds
<1>2. CASE Creating(call.op)
  <2>1. FailCreate(call.s, left)
    BY <1>2 DEF Fail, Creating
  <2> QED BY <1>2, <2>1, FailCreateStep
<1>3. CASE call.op \in {"connect", "accept"}
  <2>1. FailOpen(call.s, call.c, left)
    BY <1>3 DEF Fail, Creating
  <2> QED BY <1>3, <2>1, FailOpenStep
<1>4. CASE call.op = "forward"
  <2> DEFINE D == IF InHandshake THEN {call.fd} ELSE {}
  <2>1. FailForward(call.s, left)
    BY <1>4 DEF Fail, Creating
  <2>2. /\ Error(call.s, TRUE) /\ Return("failed") /\ UNCHANGED conn
        /\ sock' \in [Fds -> Socket]
        /\ fds' = [d \in Fds |-> IF d \in D THEN "free" ELSE fds[d]]
    <3>1. Error(call.s, TRUE) /\ Return("failed") /\ UNCHANGED conn /\ Close(D, left)
      BY <2>1 DEF FailForward
    <3> HIDE DEF D
    <3> QED BY <1>1, <3>1, CloseType DEF Close
  <2>3. D \cap Fds = {HandFd} \cap Fds
    BY <1>1, <1>4 DEF HandFd
  <2> HIDE DEF D
  <2> QED BY <1>1, <1>4, <2>2, <2>3, ErrorFields, GivesBack
<1>5. CASE call.op \in {"lookup", "keyGen"} /\ FailOnce(call.s, left)
  <2>1. /\ Error(call.s, TRUE) /\ Return("failed") /\ UNCHANGED conn
        /\ sock' \in [Fds -> Socket]
        /\ fds' = [d \in Fds |-> IF d \in {call.fd} THEN "free" ELSE fds[d]]
    BY <1>1, <1>5, CloseType DEF FailOnce, Close
  <2>2. {call.fd} \cap Fds = {HandFd} \cap Fds
    BY <1>1, <1>5 DEF HandFd
  <2> QED BY <1>1, <1>5, <2>1, <2>2, ErrorFields, GivesBack
<1>6. CASE call.op = "keyGen" /\ ~InHandshake /\ Crash(left)
  BY <1>1, <1>6, CrashStep
<1>7. CASE call.op = "receive"
  <2>1. FailReceive(call.s, left)
    BY <1>7 DEF Fail, Creating
  <2>2. /\ Error(call.s, TRUE) /\ Return("failed") /\ UNCHANGED conn
        /\ sock' \in [Fds -> Socket]
        /\ fds' = [d \in Fds |-> IF d \in {} THEN "free" ELSE fds[d]]
    BY <1>1, <2>1 DEF FailReceive, TypeOK
  <2>3. {} \cap Fds = {HandFd} \cap Fds
    BY <1>1, <1>7 DEF HandFd
  <2>4. /\ ses' \in [Sessions -> Session]
        /\ \A t \in Sessions : SameButError(ses'[t], ses[t])
    BY <1>1, <2>2, ErrorFields
  <2> QED BY <1>7, <2>2, <2>3, <2>4, GivesBack
<1> QED BY <1>1, <1>2, <1>3, <1>4, <1>5, <1>6, <1>7 DEF Fail, AllOps, Creating

-----------------------------------------------------------------------------
(* Entering a function. *)

\* The record of a call that begins.
LEMMA Entered ==
  ASSUME TypeOK, NEW op \in AllOps, NEW s \in Sessions, NEW c \in Conns \cup {"none"},
         NEW at \in {"connect", "await"}, NEW fd \in Fds \cup {None}, Enter(op, s, c, at, fd)
  PROVE  /\ call' \in CallRec /\ ~Idle'
         /\ call'.op = op /\ call'.s = s /\ call'.c = c /\ call'.at = at /\ call'.fd = fd
         /\ call'.todo \in Remaining(op)
         /\ op # "receive" => InHandshake' /\ Held' = None
<1>1. Script(op) \in Seq(Lines) /\ Script(op) \in Remaining(op)
  BY ScriptStarts, Scripts DEF Ends
<1>2. call' \in CallRec
  BY <1>1 DEF Enter, CallRec, Phases
<1> QED BY <1>1, <1>2, ScriptStarts DEF Enter, Idle, InHandshake, Held

\* A call that is refused changes nothing but the message.
LEMMA RefusedStep ==
  ASSUME OInv, Idle, NEW op \in AllOps, NEW s \in Sessions, Refused(op, s)
  PROVE  OInv'
<1>1. call' \in CallRec /\ Idle'
  <2>1. <<>> \in Seq(Lines)
    OBVIOUS
  <2> QED BY <2>1 DEF Refused, CallRec, Phases, Idle
<1> QED BY <1>1, OnlyTold DEF Refused

\* sam3CreateSession begins, on a struct that holds no socket and no list.
LEMMA CreateStep ==
  ASSUME OInv, NEW op \in AllOps, NEW s \in Sessions, sam3CreateSession(op, s)
  PROVE  OInv'
<1>1. /\ TypeOK /\ Idle /\ Creating(op) /\ ses[s].mem # "live" /\ op # "receive"
      /\ UNCHANGED <<conn, fds, sock>>
  BY DEF OInv, sam3CreateSession, Creating
<1>2. \A c \in Conns : ~(conn[c].mem = "live" /\ conn[c].ses = s)
  BY <1>1 DEF OInv, Settled
<1>3. /\ ses' \in [Sessions -> Session] /\ call' \in CallRec /\ call'.c = "none"
      /\ ses'[s].connlist = <<>>
      /\ \A t \in Sessions : t # s => ses'[t] = ses[t]
      /\ \/ ses'[s].mem = "closed" /\ Idle'
         \/ /\ ses'[s].mem = "live" /\ ses'[s].style = Style(op)
            /\ ses'[s].fd = None /\ ses'[s].fwd_fd = None
            /\ ~Idle' /\ call'.op = op /\ call'.s = s /\ call'.fd = None
            /\ call'.at = "connect"
            /\ call'.todo \in Remaining(op) /\ InHandshake' /\ Held' = None
  <2>1. CASE ses' = [ses EXCEPT ![s] = Fresh(Style(op))] /\ Enter(op, s, "none", "connect", None)
    <3>1. /\ Fresh(Style(op)) \in Session
          /\ Fresh(Style(op)).mem = "live" /\ Fresh(Style(op)).style = Style(op)
          /\ Fresh(Style(op)).fd = None /\ Fresh(Style(op)).fwd_fd = None
          /\ Fresh(Style(op)).connlist = <<>>
      BY FreshType DEF Style
    <3> QED BY <1>1, <2>1, <3>1, Entered DEF TypeOK
  <2>2. CASE /\ ses' = [ses EXCEPT ![s] = Closed]
             /\ call' = [op |-> op, s |-> s, c |-> "none", fd |-> None,
                         at |-> "idle", todo |-> <<>>, res |-> "failed"]
    BY <1>1, <2>2, ClosedType DEF TypeOK, CallRec, Phases, Idle
  <2> QED BY <2>1, <2>2 DEF sam3CreateSession
<1>4. TypeOK' /\ CallShape'
  BY <1>1, <1>3 DEF TypeOK, CallShape, Idle
<1>5. Holding'
  BY <1>1, <1>3 DEF Holding, Creating
<1>6. Settled'
  BY <1>1, <1>2, <1>3 DEF OInv, Settled, CreatesFor, OpensFor, Creating
<1>7. \A w \in Owners : OwnFd(w)' = OwnFd(w)
  BY <1>1, <1>3 DEF Owners, OwnFd, SesFd, FwdFd, ConnFd, HandFd
<1>8. Owned' /\ OnlyOwnFds'
  BY <1>1, <1>7, Kept DEF OInv
<1>9. ConnlistIntegrity'
  <2>1. ConnsOf(s)' = {}
    BY <1>3 DEF ConnsOf
  <2>2. \A t \in Sessions : t # s => ConnsOf(t)' = ConnsOf(t)
    BY <1>3 DEF ConnsOf
  <2> QED BY <1>1, <1>2, <1>3, <2>1, <2>2, SyncAssumption DEF OInv, ConnlistIntegrity
<1> QED BY <1>4, <1>5, <1>6, <1>8, <1>9 DEF OInv

\* sam3StreamConnect and sam3StreamAccept begin: the struct they allocate is
\* live before it is in any list.
LEMMA OpenStep ==
  ASSUME OInv, NEW op \in AllOps, NEW s \in Sessions, NEW c \in Conns, OpenConnection(op, s, c)
  PROVE  OInv'
<1>1. /\ TypeOK /\ Idle /\ op \in {"connect", "accept"} /\ conn[c].mem = "none"
      /\ ses[s].mem = "live"
  BY DEF OInv, OpenConnection, Usable
<1>2. CASE Refused(op, s)
  BY <1>1, <1>2, RefusedStep
<1>3. CASE /\ conn' = [conn EXCEPT ![c] = [mem |-> "live", ses |-> s, fd |-> None]]
           /\ Enter(op, s, c, "connect", None)
           /\ UNCHANGED <<ses, fds, sock>>
  <2>1. /\ call' \in CallRec /\ ~Idle' /\ call'.op = op /\ call'.s = s /\ call'.c = c
        /\ call'.at = "connect" /\ call'.fd = None
        /\ call'.todo \in Remaining(op) /\ InHandshake' /\ Held' = None
    BY <1>1, <1>3, Entered
  <2>2. /\ conn' \in [Conns -> Connection]
        /\ conn'[c].mem = "live" /\ conn'[c].ses = s /\ conn'[c].fd = None
        /\ \A b \in Conns : b # c => conn'[b] = conn[b]
    BY <1>1, <1>3 DEF TypeOK, Connection
  <2>3. TypeOK' /\ CallShape'
    BY <1>1, <1>3, <2>1, <2>2 DEF TypeOK, CallShape, Idle
  <2>4. Holding'
    BY <1>1, <1>3, <2>1, <2>2 DEF Holding, Creating
  <2>5. Settled'
    BY <1>1, <1>3, <2>1, <2>2 DEF OInv, Settled, CreatesFor, OpensFor, Creating
  <2>6. \A w \in Owners : OwnFd(w)' = OwnFd(w)
    BY <1>1, <1>3, <2>1, <2>2 DEF Owners, OwnFd, SesFd, FwdFd, ConnFd, HandFd
  <2>7. Owned' /\ OnlyOwnFds'
    BY <1>1, <1>3, <2>6, Kept DEF OInv
  <2>8. ConnlistIntegrity'
    <3>1. \A t \in Sessions : ConnsOf(t)' = ConnsOf(t)
      BY <1>3 DEF ConnsOf
    <3> QED BY <1>1, <1>3, <2>1, <2>2, <3>1 DEF OInv, ConnlistIntegrity
  <2> QED BY <2>3, <2>4, <2>5, <2>7, <2>8 DEF OInv
<1> QED BY <1>2, <1>3 DEF OpenConnection

\* A function that allocates nothing begins its dialogue.
LEMMA BeginStep ==
  ASSUME OInv, Idle, NEW op \in {"forward", "keyGen", "lookup", "receive"}, NEW s \in Sessions,
         NEW at \in {"connect", "await"}, NEW fd \in Fds \cup {None},
         Enter(op, s, "none", at, fd), UNCHANGED <<ses, conn, fds, sock>>,
         op = "forward" => ses[s].mem = "live" /\ ses[s].fwd_fd = None,
         op \in {"keyGen", "lookup"} => ses[s].mem # "live",
         op = "receive" => /\ ses[s].mem = "live" /\ ses[s].style = "dgram"
                           /\ at = "await" /\ fd = ses[s].fd /\ fd \in Fds,
         op # "receive" => at = "connect" /\ fd = None
  PROVE  OInv'
<1>1. TypeOK /\ op \in AllOps
  BY DEF OInv, AllOps
<1>2. /\ call' \in CallRec /\ ~Idle' /\ call'.op = op /\ call'.s = s /\ call'.c = "none"
      /\ call'.at = at /\ call'.fd = fd
      /\ call'.todo \in Remaining(op)
      /\ op # "receive" => InHandshake' /\ Held' = None
  BY <1>1, Entered
<1>3. TypeOK' /\ CallShape'
  BY <1>1, <1>2 DEF TypeOK, CallShape, Idle
<1>4. Holding'
  BY <1>1, <1>2 DEF Holding, Creating
<1>5. Settled'
  BY <1>1, <1>2 DEF OInv, Settled, CreatesFor, OpensFor, Creating
<1>6. \A w \in Owners : OwnFd(w)' = OwnFd(w)
  BY <1>1, <1>2 DEF Owners, OwnFd, SesFd, FwdFd, ConnFd, HandFd
<1>7. Owned' /\ OnlyOwnFds'
  BY <1>1, <1>6, Kept DEF OInv
<1>8. ConnlistIntegrity'
  <2>1. \A c \in Conns : call'.c # c
    BY <1>2, SyncAssumption
  <2> QED BY <1>1, <2>1, ConnlistsKept DEF OInv
<1> QED BY <1>3, <1>4, <1>5, <1>7, <1>8 DEF OInv

\* sam3NameLookup without a name.
Rejected(s) ==
  /\ call' = [op |-> "lookup", s |-> s, c |-> "none", fd |-> None, at |-> "idle",
              todo |-> <<>>, res |-> "rejected"]
  /\ UNCHANGED <<ses, conn, fds, sock>>

\* It leaves the message as it was.
LEMMA SameMessage ==
  ASSUME TypeOK, NEW s \in Sessions, UNCHANGED ses
  PROVE  Error(s, ses[s].error) /\ ses[s].error \in BOOLEAN
<1>1. ses \in [Sessions -> Session] /\ ses[s] \in Session
  BY DEF TypeOK
<1>2. [ses[s] EXCEPT !.error = ses[s].error] = ses[s] /\ ses[s].error \in BOOLEAN
  BY <1>1 DEF Session
<1>3. [ses EXCEPT ![s] = ses[s]] = ses
  BY <1>1
<1> QED BY <1>2, <1>3 DEF Error

\* The functions that allocate nothing begin, or return at once.
LEMMA CallsStep == ASSUME OInv, NEW s \in Sessions,
                     \/ sam3StreamForward(s) \/ sam3GenerateKeys(s) \/ sam3NameLookup(s)
                     \/ sam3DatagramReceive(s) \/ sam3DatagramSend(s)
                   PROVE  OInv'
<1>1. TypeOK
  BY DEF OInv
<1>2. CASE sam3StreamForward(s)
  <2>1. CASE Refused("forward", s)
    BY <1>2, <2>1, RefusedStep DEF AllOps, sam3StreamForward
  <2>2. CASE ~Refused("forward", s)
    <3>1. /\ Idle /\ Enter("forward", s, "none", "connect", None)
          /\ UNCHANGED <<ses, conn, fds, sock>>
          /\ ses[s].mem = "live" /\ ses[s].fwd_fd = None
      BY <1>2, <2>2 DEF sam3StreamForward, Usable
    <3> QED BY <3>1, BeginStep
  <2> QED BY <2>1, <2>2
<1>3. ASSUME NEW op \in {"keyGen", "lookup"}, Once(op, s) PROVE OInv'
  BY <1>3, BeginStep DEF Once
<1>4. CASE sam3DatagramReceive(s)
  <2>1. CASE Refused("receive", s)
    BY <1>4, <2>1, RefusedStep DEF AllOps, sam3DatagramReceive
  <2>2. CASE ~Refused("receive", s)
    <3>1. /\ Idle /\ Enter("receive", s, "none", "await", ses[s].fd)
          /\ UNCHANGED <<ses, conn, fds, sock>>
          /\ ses[s].mem = "live" /\ ses[s].style = "dgram"
      BY <1>1, <1>4, <2>2 DEF sam3DatagramReceive, Usable, TypeOK, Session
    <3>2. ses[s].fd \in Fds
      BY <3>1 DEF OInv, Settled, CreatesFor
    <3> QED BY <3>1, <3>2, BeginStep
  <2> QED BY <2>1, <2>2
<1>5. CASE sam3DatagramSend(s)
  <2>1. PICK sent \in BOOLEAN : /\ Error(s, ~sent)
          /\ call' = [op |-> "send", s |-> s, c |-> "none", fd |-> None,
                      at |-> "idle", todo |-> <<>>,
                      res |-> IF sent THEN "ok" ELSE "failed"]
    BY <1>5 DEF sam3DatagramSend
  <2>2. call' \in CallRec /\ Idle'
    <3>1. <<>> \in Seq(Lines)
      OBVIOUS
    <3> QED BY <2>1, <3>1 DEF CallRec, Phases, Idle
  <2> QED BY <1>5, <2>1, <2>2, OnlyTold DEF sam3DatagramSend
<1>6. CASE Idle /\ Rejected(s)
  <2>1. Error(s, ses[s].error) /\ ses[s].error \in BOOLEAN
    BY <1>1, <1>6, SameMessage DEF Rejected
  <2>2. call' \in CallRec /\ Idle'
    <3>1. <<>> \in Seq(Lines) /\ "lookup" \in AllOps
      BY DEF AllOps
    <3> QED BY <1>6, <3>1 DEF Rejected, CallRec, Phases, Idle
  <2> QED BY <1>6, <2>1, <2>2, OnlyTold DEF Rejected
<1> QED BY <1>2, <1>3, <1>4, <1>5, <1>6 DEF sam3GenerateKeys, sam3NameLookup, Rejected

-----------------------------------------------------------------------------
(* The steps of a call.                                                    *)

\* The socket of a call: the lowest free descriptor, which nobody owns.
LEMMA ConnectStep ==
  ASSUME OInv, Connect
  PROVE  OInv'
<1>1. TypeOK /\ ~Idle /\ call.at = "connect" /\ call.fd = None /\ InHandshake /\ Held = None
      /\ call.op # "receive"
  BY DEF OInv, Connect, Idle, CallShape, Held
<1>2. CASE Fail(sock)
  BY <1>1, <1>2, FailStep DEF TypeOK
<1>3. CASE ~Fail(sock)
  <2> DEFINE hand == <<"call", "call">>
  <2>1. PICK d \in Free : /\ fds' = [fds EXCEPT ![d] = "lib"]
                          /\ sock' = [sock EXCEPT ![d] = NewSocket]
                          /\ call' = [call EXCEPT !.at = "send", !.fd = d]
                          /\ UNCHANGED <<ses, conn>>
    BY <1>1, <1>3, LeastFd DEF Connect
  <2>2. d \in Fds
    BY DEF Free
  <2>3. /\ call' \in CallRec /\ call'.at = "send" /\ call'.fd = d
        /\ call'.op = call.op /\ call'.s = call.s /\ call'.c = call.c /\ call'.todo = call.todo
    BY <1>1, <2>1, <2>2 DEF TypeOK, CallRec, Phases
  <2>4. ~Idle' /\ InHandshake' /\ Held' = None
    BY <1>1, <2>3 DEF Idle, InHandshake, Held
  <2>5. NewSocket \in Socket
    BY DEF NewSocket, Socket, Commands
  <2>6. TypeOK'
    BY <1>1, <2>1, <2>2, <2>3, <2>5 DEF TypeOK
  <2>7. CallShape'
    BY <1>1, <2>2, <2>3, <2>4 DEF OInv, CallShape, InHandshake, Commands
  <2>8. Holding'
    BY <1>1, <2>1, <2>3, <2>4 DEF OInv, Holding
  <2>9. Settled'
    BY <1>1, <2>1, <2>3, <2>4 DEF OInv, Settled, CreatesFor, OpensFor
  <2>10. \A w \in Owners : OwnFd(w)' = IF w = hand THEN d ELSE OwnFd(w)
    BY <1>1, <2>1, <2>3, <2>4 DEF Owners, OwnFd, SesFd, FwdFd, ConnFd, HandFd
  <2>11. OwnFd(hand) \notin Fds /\ hand \in Owners
    BY <1>1, SyncAssumption DEF OwnFd, HandFd, None, Fds, Owners
  <2>12. Owned' /\ OnlyOwnFds'
    <3> HIDE DEF hand
    <3> QED BY <1>1, <2>1, <2>10, <2>11, TakenUp DEF OInv
  <2>13. ConnlistIntegrity'
    BY <1>1, <2>1, <2>3, <2>4, ConnlistsKept DEF OInv
  <2> QED BY <2>6, <2>7, <2>8, <2>9, <2>12, <2>13 DEF OInv
<1> QED BY <1>2, <1>3

\* A command goes out, or the call fails.
LEMMA SendStep ==
  ASSUME OInv, Send
  PROVE  OInv'
<1>1. /\ TypeOK /\ ~Idle /\ call.at = "send" /\ call.fd \in Fds /\ call.s \in Sessions
      /\ Head(call.todo) \in Commands
  BY DEF OInv, Send, Idle, CallShape
<1>2. CASE Fail(sock)
  BY <1>1, <1>2, FailStep DEF TypeOK
<1>3. CASE ~Fail(sock)
  <2>1. /\ call' = [call EXCEPT !.at = "await"] /\ UNCHANGED <<conn, fds>>
        /\ Error(call.s, TRUE) \/ UNCHANGED ses
    BY <1>3 DEF Send
  <2>2. sock' \in [Fds -> Socket]
    <3> DEFINE asked == [sock EXCEPT ![call.fd].req = Head(call.todo)]
               told  == [asked EXCEPT ![call.fd].style = ses[call.s].style]
    <3>1. sock' \in {sock, told}
      BY <1>3 DEF Send
    <3>2. asked \in [Fds -> Socket]
      <4>1. asked = [sock EXCEPT ![call.fd] = [sock[call.fd] EXCEPT !["req"] = Head(call.todo)]]
        BY Zenon
      <4> HIDE DEF asked
      <4> QED BY <1>1, <4>1 DEF TypeOK, Socket
    <3>3. told \in [Fds -> Socket]
      <4>1. told = [asked EXCEPT ![call.fd] = [asked[call.fd] EXCEPT !["style"] = ses[call.s].style]]
        BY Zenon
      <4>2. asked[call.fd] \in Socket /\ ses[call.s].style \in {"none", "dgram", "stream"}
        BY <1>1, <3>2 DEF TypeOK, Session
      <4> HIDE DEF asked, told
      <4>3. [asked[call.fd] EXCEPT !["style"] = ses[call.s].style] \in Socket
        BY <4>2 DEF Socket
      <4> QED BY <1>1, <3>2, <4>1, <4>3
    <3> QED BY <1>1, <3>1, <3>3 DEF TypeOK
  <2>3. ses' \in [Sessions -> Session] /\ \A t \in Sessions : SameButError(ses'[t], ses[t])
    BY <1>1, <2>1, ErrorFields DEF SameButError, TypeOK
  <2> QED BY <1>1, <2>1, <2>2, <2>3, SameCall
<1> QED BY <1>2, <1>3

\* The next line of the script, the socket put where it is kept.
LEMMA NextLine ==
  ASSUME OInv, call.at = "await", NEW left \in [Fds -> Socket], Advance(left), Tail(call.todo) # <<>>
  PROVE  OInv'
<1> DEFINE rest == Tail(call.todo)
<1>1. /\ TypeOK /\ ~Idle /\ call.op \in AllOps /\ call.s \in Sessions /\ call.fd \in Fds
      /\ call.todo \in Remaining(call.op)
      /\ None \notin Fds
  BY SyncAssumption DEF OInv, Idle, CallShape, None, Fds
<1>2. /\ Ends(call.op, call.todo) /\ rest \in Seq(Lines)
      /\ call.op = "receive" => Head(rest) \notin Commands
  <2>1. Ends(call.op, call.todo)
    BY <1>1, Scripts
  <2>2. rest \in Remaining(call.op)
    BY <2>1 DEF Ends
  <2>3. Ends(call.op, rest)
    BY <1>1, <2>2, Scripts
  <2> QED BY <2>1, <2>3 DEF Ends, Commands
<1>3. /\ call' \in CallRec /\ call'.at \in {"send", "await"} /\ call'.todo = rest
      /\ call'.at = "send" <=> Head(rest) \in Commands
      /\ call'.op = call.op /\ call'.s = call.s /\ call'.c = call.c /\ call'.fd = call.fd
  <2>1. call' = [call EXCEPT !.todo = rest, !.at = IF Head(rest) \in Commands THEN "send" ELSE "await"]
    BY DEF Advance
  <2> HIDE DEF rest
  <2> QED BY <1>1, <1>2, <2>1 DEF TypeOK, CallRec, Phases
<1>4. /\ ~Idle' /\ ~InHandshake' /\ Held' = call.fd /\ rest \in Remaining(call.op)
      /\ InHandshake => call.op # "receive"
  BY <1>2, <1>3 DEF Idle, InHandshake, Held, Ends
<1>5. UNCHANGED fds /\ sock' = left /\ Hold
  BY DEF Advance
<1>6. CallShape' /\ fds' \in [Fds -> {"free", "app", "lib"}] /\ sock' \in [Fds -> Socket]
  BY <1>1, <1>2, <1>3, <1>4, <1>5 DEF CallShape, InHandshake, TypeOK
<1>7. CASE ~InHandshake \/ call.op \in {"keyGen", "lookup"}
  <2>1. UNCHANGED <<ses, conn>>
    BY <1>5, <1>7 DEF Hold, InHandshake
  <2>2. TypeOK'
    BY <1>1, <1>3, <1>6, <2>1 DEF TypeOK
  <2>3. Holding'
    BY <1>1, <1>3, <1>4, <1>7, <2>1 DEF OInv, Holding, Held, Creating
  <2>4. Settled'
    BY <1>1, <1>3, <1>4, <2>1 DEF OInv, Settled, CreatesFor, OpensFor
  <2>5. \A w \in Owners : OwnFd(w)' = OwnFd(w)
    BY <1>1, <1>3, <1>4, <1>7, <2>1 DEF Owners, OwnFd, SesFd, FwdFd, ConnFd, HandFd
  <2>6. Owned' /\ OnlyOwnFds'
    BY <1>1, <1>5, <2>5, Kept DEF OInv
  <2>7. ConnlistIntegrity'
    BY <1>1, <1>3, <1>4, <2>1, ConnlistsKept DEF OInv
  <2> QED BY <1>6, <2>2, <2>3, <2>4, <2>6, <2>7 DEF OInv
<1>8. CASE InHandshake /\ call.op \in {"connect", "accept"}
  <2> DEFINE u == <<"call", "call">>
             v == <<"conn", call.c>>
  <2>1. /\ conn' = [conn EXCEPT ![call.c].fd = call.fd] /\ UNCHANGED ses
        /\ call.c \in Conns /\ conn[call.c].fd = None
    BY <1>1, <1>5, <1>8 DEF Hold, InHandshake, OInv, Holding, Held
  <2>2. /\ conn' \in [Conns -> Connection] /\ conn'[call.c].fd = call.fd
        /\ \A c \in Conns : conn'[c].mem = conn[c].mem /\ conn'[c].ses = conn[c].ses
        /\ \A c \in Conns : c # call.c => conn'[c] = conn[c]
    BY <1>1, <2>1 DEF TypeOK, Connection
  <2>3. TypeOK'
    BY <1>1, <1>3, <1>6, <2>1, <2>2 DEF TypeOK
  <2>4. Holding'
    BY <1>1, <1>3, <1>4, <1>8, <2>1, <2>2 DEF OInv, Holding, Creating
  <2>5. Settled'
    BY <1>1, <1>3, <1>4, <2>1, <2>2 DEF OInv, Settled, CreatesFor, OpensFor
  <2>6. \A w \in Owners : OwnFd(w)' = IF w = u THEN None ELSE IF w = v THEN OwnFd(u) ELSE OwnFd(w)
    <3>1. conn[call.c].mem = "live" /\ OwnFd(u) = call.fd
      BY <1>1, <1>8, <2>1 DEF OInv, Holding, OwnFd, HandFd
    <3> QED BY <1>1, <1>3, <1>4, <1>8, <2>1, <2>2, <3>1 DEF Owners, OwnFd, SesFd, FwdFd, ConnFd, HandFd
  <2>7. u \in Owners /\ v \in Owners /\ u # v /\ OwnFd(v) \notin Fds
    BY <1>1, <2>1 DEF Owners, OwnFd, ConnFd
  <2>8. Owned' /\ OnlyOwnFds'
    <3> HIDE DEF u, v
    <3> QED BY <1>1, <1>5, <2>6, <2>7, MovedOn DEF OInv
  <2>9. ConnlistIntegrity'
    BY <1>1, <1>3, <1>4, <2>1, <2>2, ConnlistsKept DEF OInv
  <2> QED BY <1>6, <2>3, <2>4, <2>5, <2>8, <2>9 DEF OInv
<1>9. CASE InHandshake /\ call.op = "forward"
  <2> DEFINE u == <<"call", "call">>
             v == <<"fwd", call.s>>
  <2>1. /\ ses' = [ses EXCEPT ![call.s].fwd_fd = call.fd] /\ UNCHANGED conn
        /\ ses[call.s].fwd_fd = None
    BY <1>1, <1>5, <1>9 DEF Hold, InHandshake, OInv, Holding, Held
  <2>2. /\ ses' \in [Sessions -> Session] /\ ses'[call.s].fwd_fd = call.fd
        /\ \A s \in Sessions : /\ ses'[s].mem = ses[s].mem /\ ses'[s].style = ses[s].style
                              /\ ses'[s].fd = ses[s].fd /\ ses'[s].connlist = ses[s].connlist
        /\ \A s \in Sessions : s # call.s => ses'[s] = ses[s]
    <3> DEFINE t == [ses[call.s] EXCEPT !["fwd_fd"] = call.fd]
    <3>0. ses[call.s] \in Session /\ call.fd \in Fds
      BY <1>1 DEF TypeOK
    <3>1. ses' = [ses EXCEPT ![call.s] = t]
      BY <2>1, Zenon
    <3>2. /\ t \in Session /\ t.fwd_fd = call.fd
          /\ t.mem = ses[call.s].mem /\ t.style = ses[call.s].style
          /\ t.fd = ses[call.s].fd /\ t.connlist = ses[call.s].connlist
      BY <3>0, FwdField
    <3> HIDE DEF t
    <3> QED BY <1>1, <3>1, <3>2 DEF TypeOK
  <2>3. TypeOK'
    BY <1>1, <1>3, <1>6, <2>1, <2>2 DEF TypeOK
  <2>4. Holding'
    BY <1>1, <1>3, <1>4, <1>9, <2>1, <2>2 DEF OInv, Holding, Creating
  <2>5. Settled'
    BY <1>1, <1>3, <1>4, <2>1, <2>2 DEF OInv, Settled, CreatesFor, OpensFor
  <2>6. \A w \in Owners : OwnFd(w)' = IF w = u THEN None ELSE IF w = v THEN OwnFd(u) ELSE OwnFd(w)
    <3>1. ses[call.s].mem = "live" /\ OwnFd(u) = call.fd
      BY <1>1, <1>9, <2>1 DEF OInv, Holding, OwnFd, HandFd
    <3> QED BY <1>1, <1>3, <1>4, <1>9, <2>1, <2>2, <3>1 DEF Owners, OwnFd, SesFd, FwdFd, ConnFd, HandFd
  <2>7. u \in Owners /\ v \in Owners /\ u # v /\ OwnFd(v) \notin Fds
    BY <1>1, <2>1 DEF Owners, OwnFd, FwdFd
  <2>8. Owned' /\ OnlyOwnFds'
    <3> HIDE DEF u, v
    <3> QED BY <1>1, <1>5, <2>6, <2>7, MovedOn DEF OInv
  <2>9. ConnlistIntegrity'
    BY <1>1, <1>3, <1>4, <2>1, <2>2, ConnlistsKept DEF OInv
  <2> QED BY <1>6, <2>3, <2>4, <2>5, <2>8, <2>9 DEF OInv
<1>10. CASE InHandshake /\ Creating(call.op)
  <2> DEFINE u == <<"call", "call">>
             v == <<"ses", call.s>>
  <2>1. /\ ses' = [ses EXCEPT ![call.s].fd = call.fd] /\ UNCHANGED conn
        /\ ses[call.s].fd = None
    BY <1>1, <1>5, <1>10 DEF Hold, InHandshake, OInv, Holding, Held, Creating
  <2>2. /\ ses' \in [Sessions -> Session] /\ ses'[call.s].fd = call.fd
        /\ \A s \in Sessions : /\ ses'[s].mem = ses[s].mem /\ ses'[s].style = ses[s].style
                              /\ ses'[s].fwd_fd = ses[s].fwd_fd
                              /\ ses'[s].connlist = ses[s].connlist
        /\ \A s \in Sessions : s # call.s => ses'[s] = ses[s]
    <3> DEFINE t == [ses[call.s] EXCEPT !["fd"] = call.fd]
    <3>0. ses[call.s] \in Session /\ call.fd \in Fds
      BY <1>1 DEF TypeOK
    <3>1. ses' = [ses EXCEPT ![call.s] = t]
      BY <2>1, Zenon
    <3>2. /\ t \in Session /\ t.fd = call.fd
          /\ t.mem = ses[call.s].mem /\ t.style = ses[call.s].style
          /\ t.fwd_fd = ses[call.s].fwd_fd /\ t.connlist = ses[call.s].connlist
      BY <3>0, FdField
    <3> HIDE DEF t
    <3> QED BY <1>1, <3>1, <3>2 DEF TypeOK
  <2>3. TypeOK'
    BY <1>1, <1>3, <1>6, <2>1, <2>2 DEF TypeOK
  <2>4. Holding'
    BY <1>1, <1>3, <1>4, <1>10, <2>1, <2>2 DEF OInv, Holding, Creating
  <2>5. Settled'
    BY <1>1, <1>3, <1>4, <2>1, <2>2 DEF OInv, Settled, CreatesFor, OpensFor
  <2>6. \A w \in Owners : OwnFd(w)' = IF w = u THEN None ELSE IF w = v THEN OwnFd(u) ELSE OwnFd(w)
    <3>1. ses[call.s].mem = "live" /\ OwnFd(u) = call.fd
      BY <1>1, <1>10, <2>1 DEF OInv, Holding, OwnFd, HandFd, Creating
    <3> QED BY <1>1, <1>3, <1>4, <1>10, <2>1, <2>2, <3>1
            DEF Owners, OwnFd, SesFd, FwdFd, ConnFd, HandFd, Creating
  <2>7. u \in Owners /\ v \in Owners /\ u # v /\ OwnFd(v) \notin Fds
    BY <1>1, <2>1 DEF Owners, OwnFd, SesFd
  <2>8. Owned' /\ OnlyOwnFds'
    <3> HIDE DEF u, v
    <3> QED BY <1>1, <1>5, <2>6, <2>7, MovedOn DEF OInv
  <2>9. ConnlistIntegrity'
    BY <1>1, <1>3, <1>4, <2>1, <2>2, ConnlistsKept DEF OInv
  <2> QED BY <1>6, <2>3, <2>4, <2>5, <2>8, <2>9 DEF OInv
<1> QED BY <1>1, <1>4, <1>7, <1>8, <1>9, <1>10 DEF AllOps, Creating

-----------------------------------------------------------------------------
(* The end of a call.                                                      *)

\* The end of a call that allocates or fills a struct, the last line read.
LEMMA Settles ==
  ASSUME OInv, ~Idle, ~InHandshake, call.fd \in Fds, call.op \notin {"keyGen", "lookup"},
         Return("ok"), UNCHANGED <<conn, fds>>, sock' \in [Fds -> Socket],
         ses' \in [Sessions -> Session],
         \A t \in Sessions : /\ ses'[t].mem = ses[t].mem /\ ses'[t].fd = ses[t].fd
                             /\ ses'[t].fwd_fd = ses[t].fwd_fd
  PROVE  /\ TypeOK' /\ CallShape' /\ Holding' /\ Settled' /\ Owned' /\ OnlyOwnFds'
         /\ Idle'
<1>1. TypeOK /\ call.s \in Sessions /\ call.op \in AllOps
  BY DEF OInv, CallShape
<1>2. call' \in CallRec /\ Idle'
  BY <1>1, ReturnFields DEF Idle
<1>3. TypeOK' /\ CallShape' /\ Holding'
  BY <1>1, <1>2 DEF TypeOK, CallShape, Holding
<1>4. Settled'
  BY <1>1, <1>2 DEF OInv, Settled, Holding, Held, CreatesFor, OpensFor, Idle
<1>5. \A w \in Owners : OwnFd(w)' = OwnFd(w)
  BY <1>2 DEF Owners, OwnFd, SesFd, FwdFd, ConnFd, HandFd
<1>6. Owned' /\ OnlyOwnFds'
  BY <1>1, <1>5, Kept DEF OInv
<1> QED BY <1>2, <1>3, <1>4, <1>6

\* A struct at the head of a list.
LEMMA Linked ==
  ASSUME NEW list \in Seq(Conns), NEW c \in Conns, \A i \in DOMAIN list : list[i] # c,
         \A i, j \in DOMAIN list : list[i] = list[j] => i = j
  PROVE  LET longer == <<c>> \o list IN
         /\ longer \in Seq(Conns)
         /\ {longer[i] : i \in DOMAIN longer} = {list[i] : i \in DOMAIN list} \cup {c}
         /\ \A i, j \in DOMAIN longer : longer[i] = longer[j] => i = j
<1> DEFINE longer == <<c>> \o list
<1>1. /\ <<c>> \in Seq(Conns) /\ Len(<<c>>) = 1 /\ <<c>>[1] = c
      /\ Len(list) \in Nat /\ DOMAIN list = 1..Len(list)
  BY LenProperties
<1>2. /\ longer \in Seq(Conns) /\ Len(longer) = Len(list) + 1
      /\ \A i \in 1..Len(longer) : longer[i] = IF i = 1 THEN c ELSE list[i - 1]
  <2>1. \A s, t \in Seq(Conns) :
          /\ s \o t \in Seq(Conns) /\ Len(s \o t) = Len(s) + Len(t)
          /\ \A i \in 1..Len(s) + Len(t) :
               (s \o t)[i] = IF i <= Len(s) THEN s[i] ELSE t[i - Len(s)]
    BY ConcatProperties
  <2> QED BY <1>1, <2>1
<1>3. DOMAIN longer = 1..Len(list) + 1
  BY <1>2, LenProperties
<1> HIDE DEF longer
<1>4. {longer[i] : i \in DOMAIN longer} = {list[i] : i \in DOMAIN list} \cup {c}
  <2>1. \A i \in DOMAIN list : i + 1 \in DOMAIN longer /\ longer[i + 1] = list[i]
    BY <1>1, <1>2, <1>3
  <2>2. 1 \in DOMAIN longer /\ longer[1] = c
    BY <1>1, <1>2, <1>3
  <2>3. \A i \in DOMAIN longer : longer[i] = c \/ \E j \in DOMAIN list : longer[i] = list[j]
    BY <1>1, <1>2, <1>3
  <2> QED BY <2>1, <2>2, <2>3
<1>5. \A i, j \in DOMAIN longer : longer[i] = longer[j] => i = j
  <2> SUFFICES ASSUME NEW i \in DOMAIN longer, NEW j \in DOMAIN longer,
                      longer[i] = longer[j]
               PROVE  i = j
    OBVIOUS
  <2>1. \A k \in DOMAIN longer : k # 1 => k - 1 \in DOMAIN list /\ longer[k] = list[k - 1]
    BY <1>1, <1>2, <1>3
  <2>2. longer[1] = c /\ i \in Int /\ j \in Int
    BY <1>1, <1>2, <1>3
  <2>3. CASE i # 1 /\ j # 1
    <3>1. list[i - 1] = list[j - 1]
      BY <2>1, <2>3
    <3>2. i - 1 = j - 1
      BY <2>1, <2>3, <3>1
    <3> QED BY <2>2, <3>2
  <2> QED BY <2>1, <2>2, <2>3
<1> QED BY <1>2, <1>4, <1>5 DEF longer

\* A call that ends well hands its socket to the struct and links it, or
\* closes it.
LEMMA SucceedStep ==
  ASSUME OInv, call.at = "await", NEW left \in [Fds -> Socket], NEW s, call.s = s,
         Succeed(s, left), Tail(call.todo) = <<>>
  PROVE  OInv'
<1>1. /\ TypeOK /\ ~Idle /\ call.op \in AllOps /\ s \in Sessions /\ call.fd \in Fds
      /\ call.todo \in Remaining(call.op)
  BY DEF OInv, Idle, CallShape
<1>2. ~InHandshake
  BY <1>1, Scripts DEF Ends, InHandshake
<1>3. Return("ok") /\ UNCHANGED conn
  BY DEF Succeed
<1>4. CASE call.op \in {"keyGen", "lookup"}
  <2>1. ses' \in [Sessions -> Session] /\ \A t \in Sessions : SameButError(ses'[t], ses[t])
    <3>1. Error(s, FALSE) \/ UNCHANGED ses
      BY <1>4 DEF Succeed
    <3> QED BY <1>1, <3>1, ErrorFields DEF TypeOK, SameButError
  <2>2. sock' \in [Fds -> Socket] /\ fds' = [d \in Fds |-> IF d \in {call.fd} THEN "free" ELSE fds[d]]
    <3>1. Close({call.fd}, left)
      BY <1>4 DEF Succeed
    <3> QED BY <1>1, <3>1, CloseType DEF Close
  <2>3. {call.fd} \cap Fds = {HandFd} \cap Fds
    BY <1>1, <1>4 DEF HandFd
  <2> QED BY <1>1, <1>3, <1>4, <2>1, <2>2, <2>3, GivesBack
<1>5. CASE call.op \notin {"keyGen", "lookup"}
  <2>1. UNCHANGED fds /\ sock' = left
    BY <1>5 DEF Succeed
  <2>2. CASE call.op \notin {"connect", "accept"}
    <3>1. /\ ses' \in [Sessions -> Session]
          /\ \A t \in Sessions : /\ ses'[t].mem = ses[t].mem /\ ses'[t].fd = ses[t].fd
                                 /\ ses'[t].fwd_fd = ses[t].fwd_fd
                                 /\ ses'[t].connlist = ses[t].connlist
      <4>1. \/ Error(s, FALSE) \/ UNCHANGED ses
            \/ ses' = [ses EXCEPT ![s].silent = TRUE]
        BY <1>5, <2>2 DEF Succeed
      <4>2. CASE Error(s, FALSE) \/ UNCHANGED ses
        BY <1>1, <4>2, ErrorFields DEF TypeOK, SameButError
      <4>3. CASE ses' = [ses EXCEPT ![s].silent = TRUE]
        <5> DEFINE q == [ses[s] EXCEPT !["silent"] = TRUE]
        <5>0. ses[s] \in Session
          BY <1>1 DEF TypeOK
        <5>1. ses' = [ses EXCEPT ![s] = q]
          BY <4>3, Zenon
        <5>2. /\ q \in Session /\ q.connlist = ses[s].connlist
              /\ q.mem = ses[s].mem /\ q.fd = ses[s].fd /\ q.fwd_fd = ses[s].fwd_fd
          BY <5>0, SilentField
        <5> HIDE DEF q
        <5> QED BY <1>1, <5>1, <5>2 DEF TypeOK
      <4> QED BY <4>1, <4>2, <4>3
    <3>2. /\ TypeOK' /\ CallShape' /\ Holding' /\ Settled' /\ Owned' /\ OnlyOwnFds'
          /\ Idle'
      BY <1>1, <1>2, <1>3, <1>5, <2>1, <3>1, Settles
    <3>3. ConnlistIntegrity'
      <4>1. \A c \in Conns : call.c # c
        BY <1>1, <2>2, SyncAssumption DEF OInv, Holding
      <4> QED BY <1>1, <1>3, <3>1, <3>2, <4>1, ConnlistsKept DEF OInv
    <3> QED BY <3>2, <3>3 DEF OInv
  <2>3. CASE call.op \in {"connect", "accept"}
    <3> DEFINE list == ses[s].connlist
               longer == <<call.c>> \o list
    <3>1. /\ call.c \in Conns /\ conn[call.c].mem = "live" /\ conn[call.c].ses = s
      BY <1>1, <2>3 DEF OInv, Holding
    <3>2. /\ list \in Seq(Conns) /\ \A i \in DOMAIN list : list[i] # call.c
          /\ \A i, j \in DOMAIN list : list[i] = list[j] => i = j
      BY <1>1, <3>1 DEF OInv, ConnlistIntegrity, ConnsOf, TypeOK, Session
    <3>3. /\ longer \in Seq(Conns)
          /\ {longer[i] : i \in DOMAIN longer} = ConnsOf(s) \cup {call.c}
          /\ \A i, j \in DOMAIN longer : longer[i] = longer[j] => i = j
      <4> HIDE DEF list
      <4>1. /\ longer \in Seq(Conns)
            /\ {longer[i] : i \in DOMAIN longer} = {list[i] : i \in DOMAIN list} \cup {call.c}
            /\ \A i, j \in DOMAIN longer : longer[i] = longer[j] => i = j
        BY <3>1, <3>2, Linked
      <4> QED BY <4>1 DEF list, ConnsOf
    <3>4. /\ ses' \in [Sessions -> Session] /\ ses'[s].connlist = longer
          /\ \A t \in Sessions : /\ ses'[t].mem = ses[t].mem /\ ses'[t].fd = ses[t].fd
                                 /\ ses'[t].fwd_fd = ses[t].fwd_fd
          /\ \A t \in Sessions : t # s => ses'[t] = ses[t]
      <4> DEFINE e == ses[s].error /\ call.op = "connect" /\ ses[s].silent
                 q == [[ses[s] EXCEPT !["connlist"] = longer] EXCEPT !["error"] = e]
      <4>1. ses' = [ses EXCEPT ![s].connlist = <<call.c>> \o @,
                               ![s].error = @ /\ call.op = "connect" /\ ses[s].silent]
        BY <2>3 DEF Succeed
      <4>2. ses' = [ses EXCEPT ![s] = q]
        BY <1>1, <4>1, Zenon DEF TypeOK
      <4>3. /\ q \in Session /\ q.connlist = longer
            /\ q.mem = ses[s].mem /\ q.fd = ses[s].fd /\ q.fwd_fd = ses[s].fwd_fd
        <5>1. ses[s] \in Session /\ e \in BOOLEAN
          BY <1>1 DEF TypeOK
        <5> HIDE DEF e, longer
        <5> QED BY <3>3, <5>1 DEF Session
      <4> HIDE DEF q, longer
      <4> QED BY <1>1, <4>2, <4>3 DEF TypeOK
    <3>5. /\ TypeOK' /\ CallShape' /\ Holding' /\ Settled' /\ Owned' /\ OnlyOwnFds'
          /\ Idle'
      BY <1>1, <1>2, <1>3, <1>5, <2>1, <3>4, Settles
    <3>6. ConnlistIntegrity'
      <4> HIDE DEF longer, list
      <4>1. ConnsOf(s)' = ConnsOf(s) \cup {call.c}
        <5>1. ConnsOf(s)' = {ses'[s].connlist[i] : i \in DOMAIN ses'[s].connlist}
          BY DEF ConnsOf
        <5>2. ConnsOf(s)' = {longer[i] : i \in DOMAIN longer}
          BY <3>4, <5>1, Zenon
        <5> QED BY <3>3, <5>2
      <4>2. \A t \in Sessions : t # s => ConnsOf(t)' = ConnsOf(t)
        BY <3>4 DEF ConnsOf
      <4> QED BY <1>1, <1>3, <3>1, <3>3, <3>4, <3>5, <4>1, <4>2 DEF OInv, ConnlistIntegrity
    <3> QED BY <3>5, <3>6 DEF OInv
  <2> QED BY <2>2, <2>3
<1> QED BY <1>4, <1>5

\* What is left when the first line is read.
LEMMA AwaitLeft ==
  ASSUME OInv, call.at = "await", sock[call.fd].inbox # <<>>
  PROVE  [sock EXCEPT ![call.fd].inbox = Tail(@)] \in [Fds -> Socket]
<1> DEFINE d == call.fd
           in == sock[d].inbox
           left == [sock EXCEPT ![d].inbox = Tail(@)]
<1>1. TypeOK /\ d \in Fds
  BY DEF OInv, Idle, CallShape
<1>2. left = [sock EXCEPT ![d] = [sock[d] EXCEPT !["inbox"] = Tail(in)]]
  BY Zenon
<1>3. sock[d] \in Socket /\ in \in Seq(Item) /\ in # <<>>
  BY <1>1 DEF TypeOK, Socket
<1> HIDE DEF d, in
<1>4. Tail(in) \in Seq(Item)
  BY <1>3, HeadTailProperties
<1>5. [sock[d] EXCEPT !["inbox"] = Tail(in)] \in Socket
  BY <1>3, <1>4 DEF Socket
<1> HIDE DEF left
<1>6. left \in [Fds -> Socket]
  BY <1>1, <1>2, <1>5 DEF TypeOK
<1> QED BY <1>6 DEF left, d

\* Whatever is read, and whatever it says, the invariant holds after it.
LEMMA AwaitStep ==
  ASSUME OInv, Await
  PROVE  OInv'
<1> DEFINE d == call.fd
           in == sock[d].inbox
           left == [sock EXCEPT ![d].inbox = Tail(@)]
<1>1. TypeOK /\ ~Idle /\ call.at = "await" /\ d \in Fds
  BY DEF OInv, Await, Idle, CallShape
<1>2. in # <<>> => left \in [Fds -> Socket]
  BY <1>1, AwaitLeft
<1>3. \/ in # <<>> /\ sock' = left /\ UNCHANGED <<ses, conn, call, fds>>
      \/ in # <<>> /\ Advance(left)
      \/ in # <<>> /\ Crash(left)
      \/ in # <<>> /\ Fail(left)
      \/ Fail(sock)
      \/ UNCHANGED vars
  <2> HIDE DEF left
  <2> QED BY DEF Await, left
<1> HIDE DEF left, in, d
<1>4. CASE in # <<>> /\ sock' = left /\ UNCHANGED <<ses, conn, call, fds>>
  BY <1>2, <1>4, OnlySock
<1>5. CASE in # <<>> /\ Advance(left)
  <2>1. CASE Tail(call.todo) = <<>>
    <3>1. Succeed(call.s, left)
      BY <1>5, <2>1 DEF Advance
    <3> QED BY <1>1, <1>2, <1>5, <2>1, <3>1, SucceedStep
  <2>2. CASE Tail(call.todo) # <<>>
    BY <1>1, <1>2, <1>5, <2>2, NextLine
  <2> QED BY <2>1, <2>2
<1>6. CASE in # <<>> /\ Crash(left)
  BY <1>1, <1>2, <1>6, CrashStep
<1>7. CASE in # <<>> /\ Fail(left)
  BY <1>1, <1>2, <1>7, FailStep
<1>8. CASE Fail(sock)
  BY <1>1, <1>8, FailStep DEF TypeOK
<1>9. CASE UNCHANGED vars
  <2>1. sock' \in [Fds -> Socket] /\ UNCHANGED <<ses, conn, call, fds>>
    BY <1>1, <1>9 DEF TypeOK, vars
  <2> QED BY <2>1, OnlySock
<1> QED BY <1>3, <1>4, <1>5, <1>6, <1>7, <1>8, <1>9

\* Taking a struct out of a list.
LEMMA Unlinked ==
  ASSUME NEW list \in Seq(Conns), NEW c \in {list[i] : i \in DOMAIN list},
         \A i, j \in DOMAIN list : list[i] = list[j] => i = j,
         NEW rest, rest = Unlink(list, c)
  PROVE  /\ rest \in Seq(Conns)
         /\ {rest[i] : i \in DOMAIN rest} = {list[i] : i \in DOMAIN list} \ {c}
         /\ \A i, j \in DOMAIN rest : rest[i] = rest[j] => i = j
<1> DEFINE n == CHOOSE m \in DOMAIN list : list[m] = c
           fore == SubSeq(list, 1, n - 1)
           aft == SubSeq(list, n + 1, Len(list))
<1>1. Len(list) \in Nat /\ DOMAIN list = 1..Len(list) /\ \A i \in 1..Len(list) : list[i] \in Conns
  BY LenProperties, ElementOfSeq
<1>2. n \in 1..Len(list) /\ list[n] = c
  <2>1. \E m \in DOMAIN list : list[m] = c
    OBVIOUS
  <2> QED BY <1>1, <2>1
<1>3. rest = fore \o aft
  BY DEF Unlink
<1> HIDE DEF n
<1>4. /\ fore \in Seq(Conns) /\ Len(fore) = n - 1
      /\ \A i \in 1..n - 1 : fore[i] = list[i]
  <2>1. n - 1 \in Int /\ \A i \in 1..n - 1 : list[i] \in Conns
    BY <1>1, <1>2
  <2>2. /\ SubSeq(list, 1, n - 1) \in Seq(Conns)
        /\ Len(SubSeq(list, 1, n - 1)) = IF 1 <= n - 1 THEN n - 1 - 1 + 1 ELSE 0
        /\ \A i \in 1..n - 1 - 1 + 1 : SubSeq(list, 1, n - 1)[i] = list[1 + i - 1]
    BY <2>1, SubSeqProperties
  <2> QED BY <1>2, <2>1, <2>2
<1>5. /\ aft \in Seq(Conns) /\ Len(aft) = Len(list) - n
      /\ \A i \in 1..Len(list) - n : aft[i] = list[n + i]
  <2>1. n + 1 \in Int /\ Len(list) \in Int /\ \A i \in n + 1..Len(list) : list[i] \in Conns
    BY <1>1, <1>2
  <2>2. /\ aft \in Seq(Conns)
        /\ Len(aft) = IF n + 1 <= Len(list) THEN Len(list) - (n + 1) + 1 ELSE 0
        /\ \A i \in 1..Len(list) - (n + 1) + 1 : aft[i] = list[n + 1 + i - 1]
    BY <2>1, SubSeqProperties
  <2> HIDE DEF aft
  <2>3. Len(aft) = Len(list) - n
    <3>1. n \in Int /\ Len(list) \in Int /\ n <= Len(list)
      BY <1>1, <1>2
    <3>2. Len(aft) = IF n + 1 <= Len(list) THEN Len(list) - (n + 1) + 1 ELSE 0
      BY <2>2
    <3> QED BY <3>1, <3>2
  <2>4. \A i \in 1..Len(list) - n : aft[i] = list[n + i]
    <3>1. \A i \in 1..Len(list) - n : i \in 1..Len(list) - (n + 1) + 1 /\ n + 1 + i - 1 = n + i
      BY <1>1, <1>2
    <3> QED BY <2>2, <3>1
  <2> QED BY <2>2, <2>3, <2>4
<1> HIDE DEF fore, aft
<1>6. /\ rest \in Seq(Conns) /\ Len(rest) = Len(list) - 1
      /\ \A i \in 1..Len(list) - 1 : rest[i] = IF i < n THEN list[i] ELSE list[i + 1]
  <2>1. \A s, t \in Seq(Conns) :
          /\ s \o t \in Seq(Conns) /\ Len(s \o t) = Len(s) + Len(t)
          /\ \A i \in 1..Len(s) + Len(t) :
               (s \o t)[i] = IF i <= Len(s) THEN s[i] ELSE t[i - Len(s)]
    BY ConcatProperties
  <2>2. /\ rest \in Seq(Conns) /\ Len(rest) = Len(list) - 1
        /\ \A i \in 1..Len(list) - 1 : rest[i] = IF i <= n - 1 THEN fore[i] ELSE aft[i - (n - 1)]
    <3>1. Len(fore) + Len(aft) = Len(list) - 1
      BY <1>1, <1>2, <1>4, <1>5
    <3> QED BY <1>3, <1>4, <1>5, <2>1, <3>1, SMTT(40)
  <2>3. ASSUME NEW i \in 1..Len(list) - 1
        PROVE  rest[i] = IF i < n THEN list[i] ELSE list[i + 1]
    <3>1. CASE i < n
      BY <1>1, <1>2, <1>4, <2>2, <3>1
    <3>2. CASE ~(i < n)
      <4>1. i - (n - 1) \in 1..Len(list) - n /\ n + (i - (n - 1)) = i + 1 /\ ~(i <= n - 1)
        BY <1>1, <1>2, <3>2
      <4> QED BY <1>5, <2>2, <3>2, <4>1
    <3> QED BY <3>1, <3>2
  <2> QED BY <2>2, <2>3
<1>7. DOMAIN rest = 1..Len(list) - 1
  BY <1>6, LenProperties
<1>8. {rest[i] : i \in DOMAIN rest} = {list[i] : i \in DOMAIN list} \ {c}
  <2>1. ASSUME NEW i \in DOMAIN rest
        PROVE  rest[i] # c /\ \E j \in DOMAIN list : rest[i] = list[j]
    <3>1. CASE i < n
      BY <1>1, <1>2, <1>6, <1>7, <3>1
    <3>2. CASE ~(i < n)
      <4>1. i + 1 \in DOMAIN list /\ i + 1 # n /\ rest[i] = list[i + 1]
        BY <1>1, <1>2, <1>6, <1>7, <3>2
      <4> QED BY <1>1, <1>2, <4>1
    <3> QED BY <3>1, <3>2
  <2>2. ASSUME NEW j \in DOMAIN list, list[j] # c
        PROVE  \E i \in DOMAIN rest : rest[i] = list[j]
    <3>1. CASE j < n
      BY <1>1, <1>2, <1>6, <1>7, <3>1
    <3>2. CASE j > n
      <4>1. j - 1 \in DOMAIN rest /\ ~(j - 1 < n) /\ j - 1 + 1 = j
        BY <1>1, <1>2, <1>7, <3>2
      <4> QED BY <1>6, <1>7, <4>1
    <3> QED BY <1>1, <1>2, <2>2, <3>1, <3>2
  <2> QED BY <2>1, <2>2
<1>9. \A i, j \in DOMAIN rest : rest[i] = rest[j] => i = j
  <2> SUFFICES ASSUME NEW i \in DOMAIN rest, NEW j \in DOMAIN rest, rest[i] = rest[j]
               PROVE  i = j
    OBVIOUS
  <2> DEFINE from(k) == IF k < n THEN k ELSE k + 1
  <2>1. /\ from(i) \in DOMAIN list /\ from(j) \in DOMAIN list
        /\ rest[i] = list[from(i)] /\ rest[j] = list[from(j)]
    BY <1>1, <1>2, <1>6, <1>7
  <2>2. from(i) = from(j)
    BY <2>1
  <2> QED BY <1>1, <1>2, <1>7, <2>2
<1> QED BY <1>6, <1>8, <1>9

-----------------------------------------------------------------------------
(* Closing, reading, and the bridge.                                       *)

\* A close function has no dialogue.
LEMMA ClosingFields ==
  ASSUME NEW s \in Sessions, Closing(s)
  PROVE  call' \in CallRec /\ Idle'
<1>1. <<>> \in Seq(Lines)
  OBVIOUS
<1> QED BY <1>1 DEF Closing, CallRec, Phases, Idle

\* sam3CloseSession gives back every socket of the session, of its forward and
\* of its connections, and frees these (libsam3.c:836-869).
LEMMA CloseSessionStep ==
  ASSUME OInv, NEW s \in Sessions, sam3CloseSession(s)
  PROVE  OInv'
<1> DEFINE C == ConnsOf(s)
           W == {<<"ses", s>>, <<"fwd", s>>} \cup {<<"conn", c>> : c \in C}
<1>1. TypeOK /\ Idle /\ ses[s].mem = "live" /\ call' \in CallRec /\ Idle'
  BY ClosingFields DEF OInv, sam3CloseSession
<1>2. C = {c \in Conns : conn[c].mem = "live" /\ conn[c].ses = s}
  BY <1>1 DEF OInv, ConnlistIntegrity
<1>3. /\ conn' \in [Conns -> Connection]
      /\ \A c \in Conns : IF c \in C THEN conn'[c].mem = "none" /\ conn'[c].ses = "none"
                          ELSE conn'[c] = conn[c]
  BY <1>1, FreeConnsType DEF sam3CloseSession, Release
<1>4. /\ ses' \in [Sessions -> Session]
      /\ ses'[s].mem = "closed" /\ ses'[s].connlist = <<>>
      /\ \A t \in Sessions : t # s => ses'[t] = ses[t]
  BY <1>1, ClosedType DEF sam3CloseSession, Release, TypeOK
<1>5. TypeOK' /\ CallShape' /\ Holding'
  BY <1>1, <1>3, <1>4, CloseType DEF sam3CloseSession, Release, TypeOK, CallShape, Holding
<1> HIDE DEF C
<1>6. Settled'
  BY <1>1, <1>2, <1>3, <1>4 DEF OInv, Settled, CreatesFor, OpensFor
<1>7. Owned' /\ OnlyOwnFds'
  <2>1. \A w \in Owners : OwnFd(w)' = IF w \in W THEN None ELSE OwnFd(w)
    BY <1>1, <1>2, <1>3, <1>4 DEF Owners, OwnFd, SesFd, FwdFd, ConnFd, HandFd
  <2>2. HeldBy(s) \cap Fds = {OwnFd(w) : w \in W} \cap Fds
    <3>1. HeldBy(s) = {ses[s].fd, ses[s].fwd_fd} \cup {conn[c].fd : c \in C}
      BY DEF HeldBy, C
    <3>2. OwnFd(<<"ses", s>>) = ses[s].fd /\ OwnFd(<<"fwd", s>>) = ses[s].fwd_fd
      BY <1>1 DEF OwnFd, SesFd, FwdFd
    <3>3. \A c \in C : OwnFd(<<"conn", c>>) = conn[c].fd
      BY <1>2 DEF OwnFd, ConnFd
    <3>4. {OwnFd(w) : w \in W} = {ses[s].fd, ses[s].fwd_fd} \cup {conn[c].fd : c \in C}
      BY <3>2, <3>3
    <3> QED BY <3>1, <3>4
  <2>3. W \in SUBSET Owners
    BY <1>2 DEF Owners
  <2>4. fds' = [d \in Fds |-> IF d \in HeldBy(s) THEN "free" ELSE fds[d]]
    BY DEF sam3CloseSession, Release, Close
  <2> HIDE DEF W
  <2> QED BY <1>1, <2>1, <2>2, <2>3, <2>4, GivenUp DEF OInv
<1>8. ConnlistIntegrity'
  <2>1. ConnsOf(s)' = {}
    BY <1>4 DEF ConnsOf
  <2>2. \A t \in Sessions : t # s => ConnsOf(t)' = ConnsOf(t)
    BY <1>4 DEF ConnsOf
  <2> QED BY <1>1, <1>2, <1>3, <1>4, <2>1, <2>2, SyncAssumption DEF OInv, ConnlistIntegrity
<1> QED BY <1>5, <1>6, <1>7, <1>8 DEF OInv

\* What is left of the list of a session without one of its connections.
LEMMA UnlinkedConns ==
  ASSUME TypeOK, ConnlistIntegrity, NEW s \in Sessions, NEW c \in ConnsOf(s)
  PROVE  \E rest \in Seq(Conns) :
           /\ rest = Unlink(ses[s].connlist, c)
           /\ {rest[i] : i \in DOMAIN rest} = ConnsOf(s) \ {c}
           /\ \A i, j \in DOMAIN rest : rest[i] = rest[j] => i = j
<1> DEFINE list == ses[s].connlist
           rest == Unlink(list, c)
<1>1. list \in Seq(Conns) /\ ConnsOf(s) = {list[i] : i \in DOMAIN list}
      /\ \A i, j \in DOMAIN list : list[i] = list[j] => i = j
  BY DEF ConnlistIntegrity, ConnsOf, TypeOK, Session
<1>2. rest = Unlink(list, c)
  OBVIOUS
<1>3. rest = Unlink(ses[s].connlist, c)
  OBVIOUS
<1> HIDE DEF list, rest
<1>4. /\ rest \in Seq(Conns)
      /\ {rest[i] : i \in DOMAIN rest} = {list[i] : i \in DOMAIN list} \ {c}
      /\ \A i, j \in DOMAIN rest : rest[i] = rest[j] => i = j
  <2>1. \A r : r = Unlink(list, c) =>
          /\ r \in Seq(Conns)
          /\ {r[i] : i \in DOMAIN r} = {list[i] : i \in DOMAIN list} \ {c}
          /\ \A i, j \in DOMAIN r : r[i] = r[j] => i = j
    BY <1>1, Unlinked
  <2> DEFINE P(r) == /\ r \in Seq(Conns)
                     /\ {r[i] : i \in DOMAIN r} = {list[i] : i \in DOMAIN list} \ {c}
                     /\ \A i, j \in DOMAIN r : r[i] = r[j] => i = j
  <2>2. \A r : r = Unlink(list, c) => P(r)
    BY <2>1
  <2>3. P(rest)
    <3> HIDE DEF P
    <3> QED BY <1>2, <2>2
  <2> QED BY <2>3
<1>5. {rest[i] : i \in DOMAIN rest} = ConnsOf(s) \ {c}
  BY <1>1, <1>4
<1> QED BY <1>3, <1>4, <1>5

\* sam3CloseConnection takes the connection out of the list before it frees it.
LEMMA CloseConnectionStep ==
  ASSUME OInv, NEW c \in Conns, sam3CloseConnection(c)
  PROVE  OInv'
<1>1. TypeOK /\ Idle /\ conn[c].mem = "live"
  BY DEF OInv, sam3CloseConnection
<1>2. PICK s \in Sessions : conn[c].ses = s /\ ses[s].mem = "live" /\ conn[c].fd \in Fds
  BY <1>1 DEF OInv, Settled, OpensFor
<1> DEFINE W == {<<"conn", c>>}
<1>3. call' \in CallRec /\ Idle'
  BY <1>2, ClosingFields DEF sam3CloseConnection
<1>4. /\ conn' \in [Conns -> Connection]
      /\ \A b \in Conns : IF b = c THEN conn'[b].mem = "none" /\ conn'[b].ses = "none"
                          ELSE conn'[b] = conn[b]
  BY <1>1, FreeConnsType DEF sam3CloseConnection
<1>5. PICK rest \in Seq(Conns) :
        /\ rest = Unlink(ses[s].connlist, c)
        /\ {rest[i] : i \in DOMAIN rest} = ConnsOf(s) \ {c}
        /\ \A i, j \in DOMAIN rest : rest[i] = rest[j] => i = j
  <2>1. ConnlistIntegrity /\ c \in ConnsOf(s)
    BY <1>1, <1>2 DEF OInv, ConnlistIntegrity
  <2> QED BY <1>1, <2>1, UnlinkedConns
<1>6. /\ ses' \in [Sessions -> Session] /\ ses'[s].connlist = rest
      /\ \A t \in Sessions : /\ ses'[t].mem = ses[t].mem /\ ses'[t].fd = ses[t].fd
                             /\ ses'[t].fwd_fd = ses[t].fwd_fd
      /\ \A t \in Sessions : t # s => ses'[t] = ses[t]
  <2> DEFINE q == [ses[s] EXCEPT !["connlist"] = rest]
  <2>0. ses[s] \in Session /\ rest \in Seq(Conns)
    BY <1>1, <1>5 DEF TypeOK
  <2>1. ses' = [ses EXCEPT ![s].connlist = Unlink(@, c)]
    BY <1>2 DEF sam3CloseConnection
  <2>2. ses' = [ses EXCEPT ![s] = q]
    BY <1>5, <2>1, Zenon
  <2>3. /\ q \in Session /\ q.connlist = rest
        /\ q.mem = ses[s].mem /\ q.fd = ses[s].fd /\ q.fwd_fd = ses[s].fwd_fd
    BY <2>0, ListField
  <2> HIDE DEF q
  <2> QED BY <1>1, <2>2, <2>3 DEF TypeOK
<1>7. TypeOK' /\ CallShape' /\ Holding'
  BY <1>1, <1>3, <1>4, <1>6, CloseType DEF sam3CloseConnection, TypeOK, CallShape, Holding
<1>8. Settled'
  BY <1>1, <1>3, <1>4, <1>6 DEF OInv, Settled, CreatesFor, OpensFor
<1>9. Owned' /\ OnlyOwnFds'
  <2>1. \A w \in Owners : OwnFd(w)' = IF w \in W THEN None ELSE OwnFd(w)
    BY <1>1, <1>3, <1>4, <1>6 DEF Owners, OwnFd, SesFd, FwdFd, ConnFd, HandFd
  <2>2. {conn[c].fd} \cap Fds = {OwnFd(w) : w \in W} \cap Fds
    BY <1>1 DEF OwnFd, ConnFd
  <2>3. W \in SUBSET Owners
    BY DEF Owners
  <2>4. fds' = [d \in Fds |-> IF d \in {conn[c].fd} THEN "free" ELSE fds[d]]
    BY DEF sam3CloseConnection, Close
  <2> HIDE DEF W
  <2> QED BY <1>1, <2>1, <2>2, <2>3, <2>4, GivenUp DEF OInv
<1>10. ConnlistIntegrity'
  <2>1. ConnsOf(s)' = ConnsOf(s) \ {c}
    <3>1. ConnsOf(s)' = {ses'[s].connlist[i] : i \in DOMAIN ses'[s].connlist}
      BY DEF ConnsOf
    <3>2. ConnsOf(s)' = {rest[i] : i \in DOMAIN rest}
      BY <1>6, <3>1, Zenon
    <3> QED BY <1>5, <3>2
  <2>2. \A t \in Sessions : t # s => ConnsOf(t)' = ConnsOf(t)
    BY <1>6 DEF ConnsOf
  <2> QED BY <1>1, <1>2, <1>3, <1>4, <1>5, <1>6, <2>1, <2>2, SyncAssumption
          DEF OInv, ConnlistIntegrity
<1> QED BY <1>7, <1>8, <1>9, <1>10 DEF OInv

\* The application's own reading touches a socket that is open.
LEMMA ReceiveStep ==
  ASSUME OInv, NEW c \in Conns, AppReceive(c)
  PROVE  OInv'
<1>1. PICK d \in Fds : /\ sock[d].inbox # <<>>
                       /\ sock' = [sock EXCEPT ![d].inbox = Tail(@)]
                       /\ UNCHANGED <<ses, conn, call, fds>>
  BY DEF AppReceive, OInv, Settled, OpensFor
<1>2. sock[d] \in Socket /\ sock[d].inbox \in Seq(Item) /\ sock \in [Fds -> Socket]
  BY DEF OInv, TypeOK, Socket
<1>3. Tail(sock[d].inbox) \in Seq(Item)
  BY <1>1, <1>2, HeadTailProperties
<1>4. sock' = [sock EXCEPT ![d] = [sock[d] EXCEPT !["inbox"] = Tail(sock[d].inbox)]]
  BY <1>1, Zenon
<1>5. [sock[d] EXCEPT !["inbox"] = Tail(sock[d].inbox)] \in Socket
  BY <1>2, <1>3 DEF Socket
<1> QED BY <1>1, <1>2, <1>4, <1>5, OnlySock

\* The bridge changes one socket, and that is open.
LEMMA BridgeType ==
  ASSUME TypeOK, NEW d \in Fds, \/ Answer(d) \/ AnswerPart(d) \/ PeerArrives(d)
                                \/ SendData(d) \/ SendDatagram(d) \/ Hangup(d)
  PROVE  /\ UNCHANGED <<ses, conn, call, fds>> /\ Open(d)
         /\ \E k \in Socket : sock' = [sock EXCEPT ![d] = k]
<1>1. /\ sock[d] \in Socket /\ sock[d].inbox \in Seq(Item)
      /\ sock[d].style \in {"none", "dgram", "stream"}
      /\ sock[d].half \in BOOLEAN /\ sock[d].hang \in {"open", "fin", "rst"}
      /\ sock[d].req \in {"none", "peer", "stream", "dgram"} \cup Commands
  BY DEF TypeOK, Socket
<1>2. \A r \in Item : Append(sock[d].inbox, r) \in Seq(Item)
  BY <1>1, AppendProperties
<1>3. Part \in Item /\ Data \in Item
  BY DEF Item
<1>4. CASE Answer(d)
  <2>1. PICK r \in Replies(sock[d].req) :
          BridgeChanges(d, [sock[d] EXCEPT !.req = AfterReply(sock[d], r), !.half = FALSE,
                                           !.inbox = Append(@, r)])
    BY <1>4 DEF Answer
  <2>2. r \in Item
    <3>1. \/ \E is \in {"ok", "bad", "bare", "garbage"} : r = [to |-> sock[d].req, is |-> is]
          \/ r = [to |-> "other", is |-> "ok"]
      BY DEF Replies
    <3>2. sock[d].req \in Commands
      BY <1>4 DEF Answer
    <3> QED BY <3>1, <3>2 DEF Item, Reply
  <2>3. AfterReply(sock[d], r) \in {"none", "peer", "stream", "dgram"}
    BY DEF AfterReply, NextRequest
  <2>4. [sock[d] EXCEPT !.req = AfterReply(sock[d], r), !.half = FALSE,
                        !.inbox = Append(@, r)] \in Socket
    BY <1>1, <1>2, <2>2, <2>3 DEF Socket
  <2> QED BY <1>4, <2>1, <2>4 DEF Answer, BridgeChanges
<1>5. CASE AnswerPart(d)
  <2>1. [sock[d] EXCEPT !.half = TRUE, !.inbox = Append(@, Part)] \in Socket
    BY <1>1, <1>2, <1>3 DEF Socket
  <2> QED BY <1>5, <2>1 DEF AnswerPart, BridgeChanges
<1>6. CASE PeerArrives(d)
  <2>1. PICK is \in {"ok", "bad"} :
          BridgeChanges(d, [sock[d] EXCEPT !.req = "stream",
                              !.inbox = Append(@, [to |-> "acceptA", is |-> is])])
    BY <1>6 DEF PeerArrives
  <2>2. [to |-> "acceptA", is |-> is] \in Item
    BY DEF Item, Reply
  <2>3. [sock[d] EXCEPT !.req = "stream", !.inbox = Append(@, [to |-> "acceptA", is |-> is])] \in Socket
    BY <1>1, <1>2, <2>2 DEF Socket
  <2> QED BY <1>6, <2>1, <2>3 DEF PeerArrives, BridgeChanges
<1>7. CASE SendData(d)
  <2>1. [sock[d] EXCEPT !.inbox = Append(@, Data)] \in Socket
    BY <1>1, <1>2, <1>3 DEF Socket
  <2> QED BY <1>7, <2>1 DEF SendData, BridgeChanges
<1>8. CASE SendDatagram(d)
  <2>1. PICK is \in {"ok", "bad", "bare"} :
          BridgeChanges(d, [sock[d] EXCEPT
                              !.inbox = @ \o <<[to |-> "dgram", is |-> is], Data>>])
    BY <1>8 DEF SendDatagram
  <2>2. <<[to |-> "dgram", is |-> is], Data>> \in Seq(Item)
    BY <1>3 DEF Item, Reply
  <2>3. sock[d].inbox \o <<[to |-> "dgram", is |-> is], Data>> \in Seq(Item)
    BY <1>1, <2>2, ConcatProperties
  <2>4. [sock[d] EXCEPT !.inbox = @ \o <<[to |-> "dgram", is |-> is], Data>>] \in Socket
    BY <1>1, <2>3 DEF Socket
  <2> QED BY <1>8, <2>1, <2>4 DEF SendDatagram, BridgeChanges
<1>9. CASE Hangup(d)
  <2>1. PICK h \in {"fin", "rst"} : BridgeChanges(d, [sock[d] EXCEPT !.hang = h])
    BY <1>9 DEF Hangup
  <2>2. [sock[d] EXCEPT !.hang = h] \in Socket
    BY <1>1 DEF Socket
  <2> QED BY <1>9, <2>1, <2>2 DEF Hangup, BridgeChanges
<1> QED BY <1>4, <1>5, <1>6, <1>7, <1>8, <1>9

-----------------------------------------------------------------------------
(* The invariant holds.                                                    *)

\* The bridge opens and closes nothing.
LEMMA BridgeStep ==
  ASSUME OInv, Bridge
  PROVE  OInv'
<1>1. PICK d \in Fds : \/ Answer(d) \/ AnswerPart(d) \/ PeerArrives(d)
                       \/ SendData(d) \/ SendDatagram(d) \/ Hangup(d)
  BY DEF Bridge
<1>2. /\ UNCHANGED <<ses, conn, call, fds>>
      /\ \E k \in Socket : sock' = [sock EXCEPT ![d] = k]
  BY <1>1, BridgeType DEF OInv
<1>3. sock' \in [Fds -> Socket]
  BY <1>2 DEF OInv, TypeOK
<1> QED BY <1>2, <1>3, OnlySock

\* Before the first call nothing is owned.
LEMMA InitOInv == Init => OInv
<1> SUFFICES ASSUME Init PROVE OInv
  OBVIOUS
<1>1. Stdin \in Fds /\ None \notin Fds
  BY SyncAssumption DEF Fds, Stdin, None
<1>2. /\ ses \in [Sessions -> Session]
      /\ \A s \in Sessions : ses[s].mem = "none" /\ ses[s].connlist = <<>>
  <2>1. [Closed EXCEPT !.mem = "none"] \in Session /\ [Closed EXCEPT !.mem = "none"].mem = "none"
        /\ [Closed EXCEPT !.mem = "none"].connlist = <<>>
    BY ClosedType DEF Session
  <2> QED BY <2>1 DEF Init
<1>3. /\ conn \in [Conns -> Connection]
      /\ \A c \in Conns : conn[c].mem = "none"
  BY DEF Init, NoConn, Connection
<1>4. call \in CallRec /\ Idle /\ call.at # "connect" /\ call.fd = None
  <2>1. <<>> \in Seq(Lines)
    OBVIOUS
  <2> QED BY <2>1 DEF Init, CallRec, Phases, Idle
<1>5. /\ fds \in [Fds -> {"free", "app", "lib"}] /\ fds[Stdin] = "app"
      /\ \A d \in Fds : fds[d] # "lib"
  BY <1>1 DEF Init
<1>6. sock \in [Fds -> Socket]
  <2>1. NewSocket \in Socket
    BY DEF NewSocket, Socket, Commands
  <2> QED BY <2>1 DEF Init
<1>7. TypeOK /\ CallShape /\ Holding /\ Settled /\ OnlyOwnFds
  BY <1>2, <1>3, <1>4, <1>5, <1>6 DEF TypeOK, CallShape, Holding, Settled, OnlyOwnFds
<1>8. Owned
  <2>1. \A w \in Owners : OwnFd(w) = None
    BY <1>2, <1>3, <1>4 DEF Owners, OwnFd, SesFd, FwdFd, ConnFd, HandFd
  <2> QED BY <1>1, <1>5, <2>1 DEF Owned
<1>9. ConnlistIntegrity
  <2>1. \A s \in Sessions : ConnsOf(s) = {}
    BY <1>2 DEF ConnsOf
  <2> QED BY <1>2, <1>3, <2>1 DEF ConnlistIntegrity
<1> QED BY <1>7, <1>8, <1>9 DEF OInv

\* Every step keeps the invariant.
LEMMA NextOInv == OInv /\ [Next]_vars => OInv'
<1> SUFFICES ASSUME OInv, [Next]_vars PROVE OInv'
  OBVIOUS
<1>1. CASE Calls
  <2>1. PICK s \in Sessions :
          \/ \E op \in AllOps : sam3CreateSession(op, s)
          \/ \E c \in Conns, op \in AllOps : OpenConnection(op, s, c)
          \/ sam3StreamForward(s) \/ sam3GenerateKeys(s) \/ sam3NameLookup(s)
          \/ sam3DatagramReceive(s) \/ sam3DatagramSend(s)
          \/ sam3CloseSession(s)
    BY <1>1 DEF Calls
  <2> QED BY <2>1, CreateStep, OpenStep, CallsStep, CloseSessionStep
<1>2. CASE ConnCalls
  BY <1>2, CloseConnectionStep, ReceiveStep DEF ConnCalls
<1>3. CASE CallStep
  BY <1>3, ConnectStep, SendStep, AwaitStep DEF CallStep
<1>4. CASE Bridge
  BY <1>4, BridgeStep
<1>5. CASE UNCHANGED vars
  <2>1. sock' \in [Fds -> Socket] /\ UNCHANGED <<ses, conn, call, fds>>
    BY <1>5 DEF OInv, TypeOK, vars
  <2> QED BY <2>1, OnlySock
<1> QED BY <1>1, <1>2, <1>3, <1>4, <1>5 DEF Next, Crashed

\* The call in progress, the structs and the descriptor table agree at every
\* step about who holds each socket, whatever fails.
THEOREM Ownership == Spec => []OInv
BY InitOInv, NextOInv, PTL DEF Spec

\* The variables have the values the structs of libsam3.h can have.
THEOREM SyncTypeOK == Spec => []TypeOK
<1>1. OInv => TypeOK
  BY DEF OInv
<1> QED BY <1>1, Ownership, PTL

\* Each socket of the library has exactly one owner, and each owner an open
\* socket: no descriptor is leaked, closed twice or used after it is closed, for
\* any number of sessions, connections and descriptors and any faults.
THEOREM SyncOneOwner == Spec => []OneOwner
<1>1. OInv => OneOwner
  BY CountOwners DEF OInv
<1> QED BY <1>1, Ownership, PTL

\* The library never closes a descriptor of the application: the fwd_fd of a
\* closed session is 0, and no function closes it again.
THEOREM SyncOnlyOwnFds == Spec => []OnlyOwnFds
<1>1. OInv => OnlyOwnFds
  BY DEF OInv
<1> QED BY <1>1, Ownership, PTL

\* The list of a session holds each of its connections once, and no struct
\* that is freed.
THEOREM SyncConnlistIntegrity == Spec => []ConnlistIntegrity
<1>1. OInv => ConnlistIntegrity
  BY DEF OInv
<1> QED BY <1>1, Ownership, PTL

-----------------------------------------------------------------------------
(* What the application is told.                                           *)

\* A return whose message is the result.
LEMMA ToldByError ==
  ASSUME OInv, NEW s \in Sessions, NEW e \in BOOLEAN, Error(s, e),
         call'.s = s, call'.res = IF e THEN "failed" ELSE "ok"
  PROVE  ErrorTold'
<1>1. \A t \in Sessions : ses'[t].error = IF t = s THEN e ELSE ses[t].error
  BY ErrorFields DEF OInv
<1> QED BY <1>1 DEF ErrorTold

\* Every way out leaves a message.
LEMMA FailTold ==
  ASSUME OInv, ~Idle, NEW left \in [Fds -> Socket], Fail(left)
  PROVE  ErrorTold'
<1>1. TypeOK /\ call.s \in Sessions /\ call.op \in AllOps
  BY DEF OInv, CallShape
<1>2. \/ Creating(call.op) /\ Return("failed")
      \/ Error(call.s, TRUE) /\ Return("failed")
      \/ Crash(left)
  BY DEF Fail, FailCreate, FailOpen, FailForward, FailOnce, FailReceive
<1>3. CASE Creating(call.op) /\ Return("failed")
  <2>1. call'.op = call.op
    BY <1>1, <1>3, ReturnFields
  <2> QED BY <1>3, <2>1 DEF ErrorTold, Creating
<1>4. CASE Error(call.s, TRUE) /\ Return("failed")
  <2>1. call'.s = call.s /\ call'.res = "failed"
    BY <1>1, <1>4, ReturnFields
  <2> QED BY <1>1, <1>4, <2>1, ToldByError
<1>5. CASE Crash(left)
  <2>1. call'.at = "crashed"
    BY <1>1, <1>5 DEF Crash, TypeOK, CallRec
  <2> QED BY <2>1 DEF ErrorTold, Idle
<1> QED BY <1>2, <1>3, <1>4, <1>5

\* Every good end takes the message back, but for a connect in a silent session.
LEMMA SucceedTold ==
  ASSUME OInv, ~Idle, NEW left \in [Fds -> Socket], NEW s, call.s = s, Succeed(s, left)
  PROVE  ErrorTold'
<1>1. TypeOK /\ s \in Sessions /\ call.op \in AllOps /\ Return("ok")
  BY DEF OInv, CallShape, Succeed
<1>2. call'.op = call.op /\ call'.s = s /\ call'.res = "ok"
  BY <1>1, ReturnFields
<1>3. CASE call.op \in {"connect", "accept"}
  <2> DEFINE list == <<call.c>> \o ses[s].connlist
             e == ses[s].error /\ call.op = "connect" /\ ses[s].silent
             q == [[ses[s] EXCEPT !["connlist"] = list] EXCEPT !["error"] = e]
  <2>1. ses' = [ses EXCEPT ![s].connlist = <<call.c>> \o @,
                           ![s].error = @ /\ call.op = "connect" /\ ses[s].silent]
    BY <1>3 DEF Succeed
  <2>2. ses' = [ses EXCEPT ![s] = q]
    BY <1>1, <2>1, Zenon DEF TypeOK
  <2>3. q.error = e /\ q.silent = ses[s].silent
    <3>1. ses[s] \in Session
      BY <1>1 DEF TypeOK
    <3> HIDE DEF e, list
    <3> QED BY <3>1 DEF Session
  <2>4. e => call.op = "connect" /\ ses[s].silent
    OBVIOUS
  <2> HIDE DEF q, e
  <2>5. ses'[s].error = e /\ ses'[s].silent = ses[s].silent
    BY <1>1, <2>2, <2>3 DEF TypeOK
  <2> QED BY <1>2, <2>4, <2>5 DEF ErrorTold
<1>4. CASE call.op \in {"forward", "lookup", "receive"}
  <2>1. Error(s, FALSE)
    BY <1>4 DEF Succeed
  <2> QED BY <1>1, <1>2, <2>1, ToldByError
<1>5. CASE call.op \in {"keyGen"} \/ Creating(call.op)
  BY <1>2, <1>5 DEF ErrorTold, Creating
<1> QED BY <1>1, <1>3, <1>4, <1>5 DEF AllOps, Creating

\* The message and the result agree after every step.
LEMMA NextTold == OInv /\ ErrorTold /\ [Next]_vars => ErrorTold'
<1> SUFFICES ASSUME OInv, ErrorTold, [Next]_vars PROVE ErrorTold'
  OBVIOUS
<1>1. TypeOK /\ sock \in [Fds -> Socket] /\ (~Idle => call.s \in Sessions)
  BY DEF OInv, TypeOK, CallShape
<1>2. CASE UNCHANGED <<ses, call>>
  BY <1>2 DEF ErrorTold, Idle
<1>3. ASSUME NEW op, NEW s, NEW c, NEW at \in {"connect", "await"}, NEW fd,
             Enter(op, s, c, at, fd)
      PROVE  ErrorTold'
  BY <1>3 DEF Enter, ErrorTold, Idle
<1>4. ASSUME NEW op, NEW s \in Sessions, Refused(op, s) PROVE ErrorTold'
  <2>1. Error(s, TRUE) /\ call'.s = s /\ call'.res = "failed"
    BY <1>4 DEF Refused
  <2> QED BY <2>1, ToldByError
<1>5. ASSUME NEW s \in Sessions, NEW op \in AllOps, sam3CreateSession(op, s)
      PROVE  ErrorTold'
  <2>1. CASE Enter(op, s, "none", "connect", None)
    BY <1>3, <2>1
  <2>2. CASE call'.op = op
    BY <1>5, <2>2 DEF sam3CreateSession, Creating, ErrorTold
  <2> QED BY <1>5, <2>1, <2>2 DEF sam3CreateSession
<1>6. ASSUME NEW s \in Sessions, NEW c \in Conns, NEW op \in AllOps, OpenConnection(op, s, c)
      PROVE  ErrorTold'
  BY <1>3, <1>4, <1>6 DEF OpenConnection
<1>7. ASSUME NEW s \in Sessions,
             sam3StreamForward(s) \/ sam3DatagramReceive(s)
      PROVE  ErrorTold'
  BY <1>3, <1>4, <1>7 DEF sam3StreamForward, sam3DatagramReceive
<1>8. ASSUME NEW s \in Sessions, sam3GenerateKeys(s) \/ sam3NameLookup(s)
      PROVE  ErrorTold'
  <2>1. CASE call'.res = "rejected"
    BY <2>1 DEF ErrorTold
  <2> QED BY <1>3, <1>8, <2>1 DEF sam3GenerateKeys, sam3NameLookup, Once
<1>9. ASSUME NEW s \in Sessions, sam3DatagramSend(s) PROVE ErrorTold'
  <2>1. PICK sent \in BOOLEAN : /\ Error(s, ~sent)
          /\ call'.s = s /\ call'.res = IF sent THEN "ok" ELSE "failed"
    BY <1>9 DEF sam3DatagramSend
  <2> QED BY <2>1, ToldByError
<1>10. ASSUME NEW s, Closing(s) PROVE ErrorTold'
  BY <1>10 DEF Closing, ErrorTold
<1>11. CASE Calls
  BY <1>5, <1>6, <1>7, <1>8, <1>9, <1>10, <1>11 DEF Calls, sam3CloseSession
<1>12. CASE ConnCalls
  BY <1>2, <1>10, <1>12 DEF ConnCalls, sam3CloseConnection, AppReceive
<1>13. CASE Connect
  <2>1. CASE Fail(sock)
    BY <1>1, <1>13, <2>1, FailTold DEF Connect, Idle
  <2>2. CASE call' = [call EXCEPT !.at = "send", !.fd = LowestFree]
    BY <1>1, <2>2 DEF ErrorTold, Idle, TypeOK, CallRec
  <2> QED BY <1>13, <2>1, <2>2 DEF Connect
<1>14. CASE Send
  <2>1. CASE Fail(sock)
    BY <1>1, <1>14, <2>1, FailTold DEF Send, Idle
  <2>2. CASE call' = [call EXCEPT !.at = "await"]
    BY <1>1, <2>2 DEF ErrorTold, Idle, TypeOK, CallRec
  <2> QED BY <1>14, <2>1, <2>2 DEF Send
<1>15. CASE Await
  <2> DEFINE left == [sock EXCEPT ![call.fd].inbox = Tail(@)]
  <2>1. ~Idle /\ call.at = "await"
    BY <1>15 DEF Await, Idle
  <2>2. sock[call.fd].inbox # <<>> => left \in [Fds -> Socket]
    BY <2>1, AwaitLeft
  <2>3. \/ UNCHANGED <<ses, call>>
        \/ sock[call.fd].inbox # <<>> /\ Advance(left)
        \/ Crash(left)
        \/ sock[call.fd].inbox # <<>> /\ Fail(left)
        \/ Fail(sock)
    <3> HIDE DEF left
    <3> QED BY <1>15 DEF Await, left, vars
  <2> HIDE DEF left
  <2>4. CASE Fail(sock)
    BY <1>1, <2>1, <2>4, FailTold
  <2>5. CASE sock[call.fd].inbox # <<>> /\ Fail(left)
    BY <2>1, <2>2, <2>5, FailTold
  <2>6. CASE Crash(left)
    BY <1>1, <2>6 DEF Crash, ErrorTold, Idle, TypeOK, CallRec
  <2>7. CASE sock[call.fd].inbox # <<>> /\ Advance(left)
    <3>1. CASE Succeed(call.s, left)
      BY <2>1, <2>2, <2>7, <3>1, SucceedTold
    <3>2. CASE call' = [call EXCEPT !.todo = Tail(call.todo),
                                    !.at = IF Head(Tail(call.todo)) \in Commands
                                             THEN "send" ELSE "await"]
      BY <1>1, <3>2 DEF ErrorTold, Idle, TypeOK, CallRec
    <3> QED BY <2>7, <3>1, <3>2 DEF Advance
  <2> QED BY <1>2, <2>3, <2>4, <2>5, <2>6, <2>7
<1>16. CASE Bridge
  <2>1. UNCHANGED <<ses, call>>
    BY <1>1, <1>16, BridgeType DEF Bridge
  <2> QED BY <1>2, <2>1
<1>17. CASE UNCHANGED vars
  BY <1>2, <1>17 DEF vars
<1> QED BY <1>11, <1>12, <1>13, <1>14, <1>15, <1>16, <1>17 DEF Next, CallStep, Crashed

\* The application learns from ses->error how its call went, whichever of the
\* functions it was and whichever step of it failed; but for a lookup that is
\* rejected because it has no name, and a connect that succeeds in a silent session.
THEOREM SyncErrorTold == Spec => []ErrorTold
<1>1. Init => ErrorTold
  BY DEF Init, ErrorTold
<1> QED BY <1>1, NextTold, Ownership, PTL DEF Spec

-----------------------------------------------------------------------------
(***************************************************************************)
(* The dialogue with the bridge stays in step: InStep, for any number of   *)
(* sessions, connections and descriptors.                                  *)
(*                                                                         *)
(* InStep speaks of the moment a command is sent and a line is read.  What *)
(* keeps it is what every socket may carry in between: DInv says so for    *)
(* the socket of the call in progress, of each session that datagrams are  *)
(* received from, and of each connection.  That a call disturbs no socket  *)
(* but its own is the ownership invariant above.                           *)
(***************************************************************************)

\* What each socket may carry, seen from the struct that owns it.

\* Nothing is owed, and nothing unread.
Quiet(q) == q.req = "none" /\ q.inbox = <<>>

\* The answer to the command k is there, and what may follow it.
Answered(k, req, style, in) ==
  /\ in # <<>> /\ in[1] \in Reply /\ in[1].to \in {k, "other"}
  /\ k = "connect" =>
       /\ req \in {"none", "stream"}
       /\ \A i \in 2..Len(in) : in[i] = Data
  /\ k = "accept" =>
       /\ Len(in) = 1 => req \in {"none", "peer"}
       /\ Len(in) > 1 => req = "stream" /\ in[2].to = "acceptA"
       /\ \A i \in 3..Len(in) : in[i] = Data
  /\ k = "nameMe" =>
       /\ req \in {"none", "dgram"}
       /\ in[1] = [to |-> "nameMe", is |-> "ok"] /\ style # "stream" => req = "dgram"
       /\ Len(in) % 2 = 1
       /\ \A i \in 2..Len(in) : IF i % 2 = 0 THEN in[i].to = "dgram" ELSE in[i] = Data
  /\ k \notin {"connect", "accept", "nameMe"} => req = "none" /\ Len(in) = 1

\* A datagram has overtaken the reply to NAMING LOOKUP.
Overtaken(k, in) ==
  /\ k = "nameMe" /\ "early" \in Faults /\ in # <<>>
  /\ \/ in[1].to = "dgram"
     \/ in[1] = Part /\ Len(in) > 1 /\ in[2].to = "dgram"

\* The command k was not sent, has no answer yet, or has one.
Awaits(k, q, style) ==
  \/ q.hang # "open" /\ Quiet(q)
  \/ /\ q.req = k /\ q.style = style
     /\ q.inbox = <<>> \/ (q.half /\ q.inbox = <<Part>>)
  \/ /\ q.req \notin Commands
     /\ \/ Answered(k, q.req, style, q.inbox)
        \/ /\ q.inbox # <<>> /\ q.inbox[1] = Part
           /\ Answered(k, q.req, style, Tail(q.inbox))
  \/ Overtaken(k, q.inbox)

\* A peer is waited for, or there.
AwaitsPeer(q) ==
  \/ q.inbox = <<>> /\ q.req \in {"none", "peer"}
  \/ /\ q.inbox # <<>> /\ q.req = "stream" /\ q.inbox[1].to = "acceptA"
     /\ \A i \in 2..Len(q.inbox) : q.inbox[i] = Data

\* A session of datagrams: headers and payloads by turns; payload says that
\* the first of them is a payload.
Dgrams(q, payload) ==
  /\ q.req = "dgram"
  /\ (Len(q.inbox) % 2 = 1) <=> payload
  /\ \A i \in 1..Len(q.inbox) :
       IF (i % 2 = 0) <=> payload THEN q.inbox[i].to = "dgram" ELSE q.inbox[i] = Data

\* A stream and nothing else.
Streams(q) == /\ q.req \in {"none", "stream"}
              /\ \A i \in 1..Len(q.inbox) : q.inbox[i] = Data

CallDialogue ==
  /\ call.at = "send" => Quiet(sock[call.fd])
  /\ call.at = "await" /\ call.op # "receive" =>
       IF Head(call.todo) = "acceptA" THEN AwaitsPeer(sock[call.fd])
       ELSE Awaits(Head(call.todo), sock[call.fd], ses[call.s].style)

InPayload(s) == ~Idle /\ call.op = "receive" /\ call.s = s /\ Head(call.todo) = "payload"

\* A session that datagrams can be received from.
Receives(s) == /\ ses[s].mem = "live" /\ ses[s].style = "dgram" /\ ~ses[s].error
               /\ ~CreatesFor(s)

SesDialogue ==
  call.at # "crashed" =>
    \A s \in Sessions : Receives(s) => Dgrams(sock[ses[s].fd], InPayload(s))

ConnDialogue ==
  \A s \in Sessions : \A c \in ConnsOf(s) : Streams(sock[conn[c].fd])

\* Which sessions the call in progress can be on.
CallFits ==
  ~Idle =>
    /\ call.op \in {"connect", "accept", "forward"} => ses[call.s].style = "stream"
    /\ call.op = "receive" /\ call.at # "crashed" => ~ses[call.s].error

DInv == CallDialogue /\ SesDialogue /\ ConnDialogue /\ CallFits

-----------------------------------------------------------------------------
\* The steps of the bridge, the peers and the network, on one socket.

\* What the bridge, the peers and the network do to a socket.
Moves(q, r) ==
  /\ q.hang = "open" /\ r.style = q.style
  /\ \/ \E a \in Reply :
          /\ q.req \in Commands /\ a.to \in {q.req, "other"}
          /\ r.req = AfterReply(q, a) /\ r.inbox = Append(q.inbox, a)
     \/ /\ q.req \in Commands /\ ~q.half
        /\ r.req = q.req /\ r.half /\ r.inbox = Append(q.inbox, Part)
     \/ \E a \in Reply :
          /\ q.req = "peer" /\ a.to = "acceptA"
          /\ r.req = "stream" /\ r.inbox = Append(q.inbox, a)
     \/ q.req = "stream" /\ r.req = "stream" /\ r.inbox = Append(q.inbox, Data)
     \/ \E a \in Reply :
          /\ \/ q.req = "dgram"
             \/ ("early" \in Faults /\ q.req = "nameMe")
          /\ a.to = "dgram" /\ r.req = q.req /\ r.half = q.half
          /\ r.inbox = Append(Append(q.inbox, a), Data)
     \/ r.req = q.req /\ r.half = q.half /\ r.inbox = q.inbox

\* Pieces of lines, payloads and replies are told apart by whom they are for.
LEMMA ItemFacts ==
  /\ Part \in Item /\ Data \in Item /\ Reply \subseteq Item /\ Part \notin Reply
  /\ Part.to = "part" /\ Data.to = "data" /\ Data # Part
  /\ "none" \notin Commands /\ "peer" \notin Commands /\ "stream" \notin Commands
  /\ "dgram" \notin Commands /\ "acceptA" \notin Commands /\ "payload" \notin Commands
  /\ "other" \notin Commands
BY DEF Item, Reply, Part, Data, Commands

\* What is queued last leaves what came before where it is (sam3tcpReceiveStr
\* reads the socket in the order the bridge wrote it).
LEMMA Appended ==
  ASSUME NEW s \in Seq(Item), NEW x \in Item
  PROVE  /\ Append(s, x) \in Seq(Item) /\ Append(s, x) # <<>>
         /\ Len(s) \in Nat /\ Len(Append(s, x)) = Len(s) + 1
         /\ \A i \in 1..Len(s) : Append(s, x)[i] = s[i]
         /\ Append(s, x)[Len(s) + 1] = x
         /\ s # <<>> => Tail(Append(s, x)) = Append(Tail(s), x) /\ Tail(s) \in Seq(Item)
         /\ s = <<>> <=> Len(s) = 0
<1>1. s # <<>> => Tail(s) \in Seq(Item)
  BY HeadTailProperties
<1>2. s # <<>> => Tail(Append(s, x)) = Append(Tail(s), x)
  BY HeadTailAppend
<1>3. Len(s) \in Nat /\ (s = <<>> <=> Len(s) = 0)
  BY LenProperties, EmptySeq
<1>4. /\ Append(s, x) \in Seq(Item) /\ Append(s, x) # <<>>
      /\ Len(Append(s, x)) = Len(s) + 1
      /\ \A i \in 1..Len(s) : Append(s, x)[i] = s[i]
      /\ Append(s, x)[Len(s) + 1] = x
  BY AppendProperties
<1> QED BY <1>1, <1>2, <1>3, <1>4

\* A header and its payload are two items more.
LEMMA TwoMore ==
  ASSUME NEW s \in Seq(Item), NEW x \in Item, NEW y \in Item
  PROVE  s \o <<x, y>> = Append(Append(s, x), y)
<1>1. Append(s, x) \in Seq(Item) /\ <<x>> \in Seq(Item) /\ <<y>> \in Seq(Item)
  BY AppendProperties
<1>2. Append(Append(s, x), y) = (s \o <<x>>) \o <<y>>
  BY <1>1, AppendIsConcat
<1>3. (s \o <<x>>) \o <<y>> = s \o (<<x>> \o <<y>>)
  BY <1>1, ConcatAssociative
<1>4. <<x>> \o <<y>> = <<x, y>>
  <2>1. Append(<<x>>, y) = <<x>> \o <<y>>
    BY <1>1, AppendIsConcat
  <2>2. Append(<<x>>, y) = <<x, y>>
    <3>1. Append(<<x>>, y) \in Seq(Item) /\ <<x, y>> \in Seq(Item)
      BY <1>1, AppendProperties
    <3>2. Len(Append(<<x>>, y)) = 2 /\ Append(<<x>>, y)[1] = x /\ Append(<<x>>, y)[2] = y
      BY <1>1, AppendProperties
    <3>3. Len(<<x, y>>) = 2 /\ <<x, y>>[1] = x /\ <<x, y>>[2] = y
      OBVIOUS
    <3>4. \A i \in 1..Len(Append(<<x>>, y)) : Append(<<x>>, y)[i] = <<x, y>>[i]
      BY <3>2, <3>3
    <3> QED BY <3>1, <3>2, <3>3, <3>4, SeqEqual
  <2> QED BY <2>1, <2>2
<1> QED BY <1>2, <1>3, <1>4

\* Headers at odd places and payloads at even ones: two items more change nothing.
LEMMA Parity ==
  ASSUME NEW n \in Nat
  PROVE  /\ n % 2 = 1 <=> (n + 1) % 2 = 0
         /\ (n + 2) % 2 = 1 <=> n % 2 = 1
         /\ (n + 2) % 2 = 0 <=> n % 2 = 0
         /\ n % 2 = 0 <=> ~(n % 2 = 1)
OBVIOUS

\* The fields of a socket of the right type.
LEMMA SocketFields ==
  ASSUME NEW q \in Socket
  PROVE  /\ q.req \in {"none", "peer", "stream", "dgram"} \cup Commands
         /\ q.style \in {"none", "dgram", "stream"} /\ q.half \in BOOLEAN
         /\ q.inbox \in Seq(Item) /\ q.hang \in {"open", "fin", "rst"}
         /\ DOMAIN q = {"req", "style", "half", "inbox", "hang"}
BY DEF Socket

\* Every step of the bridge, of a peer or of the network changes one socket, in
\* one of the ways of Moves.
LEMMA BridgeMoves ==
  ASSUME TypeOK, NEW d \in Fds, \/ Answer(d) \/ AnswerPart(d) \/ PeerArrives(d)
                                \/ SendData(d) \/ SendDatagram(d) \/ Hangup(d)
  PROVE  \E r : /\ Moves(sock[d], r) /\ sock' = [sock EXCEPT ![d] = r]
                /\ UNCHANGED <<ses, conn, call, fds>>
<1> DEFINE q == sock[d]
<1>1. /\ q \in Socket /\ q.half \in BOOLEAN
      /\ DOMAIN q = {"req", "style", "half", "inbox", "hang"}
  BY SocketFields DEF TypeOK
<1> HIDE DEF q
<1>2. ASSUME NEW r, Moves(q, r), BridgeChanges(d, r)
      PROVE  \E t : /\ Moves(sock[d], t) /\ sock' = [sock EXCEPT ![d] = t]
                    /\ UNCHANGED <<ses, conn, call, fds>>
  BY <1>2 DEF BridgeChanges, q
<1>3. CASE Answer(d)
  <2>1. PICK a \in Replies(q.req) :
          BridgeChanges(d, [q EXCEPT !.req = AfterReply(q, a), !.half = FALSE,
                                     !.inbox = Append(@, a)])
    BY <1>3 DEF Answer, q
  <2>2. q.req \in Commands /\ q.hang = "open"
    BY <1>3 DEF Answer, Open, q
  <2>3. a \in Reply /\ a.to \in {q.req, "other"}
    <3>1. \/ \E is \in {"ok", "bad", "bare", "garbage"} : a = [to |-> q.req, is |-> is]
          \/ a = [to |-> "other", is |-> "ok"]
      BY DEF Replies
    <3> QED BY <2>2, <3>1 DEF Reply
  <2> DEFINE r == [q EXCEPT !.req = AfterReply(q, a), !.half = FALSE, !.inbox = Append(@, a)]
  <2>4. r.style = q.style /\ r.req = AfterReply(q, a) /\ r.inbox = Append(q.inbox, a)
    BY <1>1
  <2> HIDE DEF r
  <2>5. Moves(q, r)
    BY <2>2, <2>3, <2>4 DEF Moves
  <2> QED BY <1>2, <2>1, <2>5 DEF r
<1>4. CASE AnswerPart(d)
  <2> DEFINE r == [q EXCEPT !.half = TRUE, !.inbox = Append(@, Part)]
  <2>1. q.req \in Commands /\ q.hang = "open" /\ ~q.half /\ BridgeChanges(d, r)
    BY <1>4 DEF AnswerPart, Open, q
  <2>2. r.style = q.style /\ r.req = q.req /\ r.half /\ r.inbox = Append(q.inbox, Part)
    BY <1>1
  <2> HIDE DEF r
  <2> QED BY <1>2, <2>1, <2>2 DEF Moves
<1>5. CASE PeerArrives(d)
  <2>1. PICK is \in {"ok", "bad"} :
          BridgeChanges(d, [q EXCEPT !.req = "stream",
                                     !.inbox = Append(@, [to |-> "acceptA", is |-> is])])
    BY <1>5 DEF PeerArrives, q
  <2> DEFINE a == [to |-> "acceptA", is |-> is]
             r == [q EXCEPT !.req = "stream", !.inbox = Append(@, a)]
  <2>2. q.req = "peer" /\ q.hang = "open"
    BY <1>5 DEF PeerArrives, Open, q
  <2>3. a \in Reply /\ a.to = "acceptA"
    BY DEF Reply
  <2>4. r.style = q.style /\ r.req = "stream" /\ r.inbox = Append(q.inbox, a)
    BY <1>1
  <2>5. BridgeChanges(d, r)
    BY <2>1
  <2> HIDE DEF r, a
  <2> QED BY <1>2, <2>2, <2>3, <2>4, <2>5 DEF Moves
<1>6. CASE SendData(d)
  <2> DEFINE r == [q EXCEPT !.inbox = Append(@, Data)]
  <2>1. q.req = "stream" /\ q.hang = "open" /\ BridgeChanges(d, r)
    BY <1>6 DEF SendData, Open, q
  <2>2. r.style = q.style /\ r.req = q.req /\ r.inbox = Append(q.inbox, Data)
    BY <1>1
  <2> HIDE DEF r
  <2> QED BY <1>2, <2>1, <2>2 DEF Moves
<1>7. CASE SendDatagram(d)
  <2>1. PICK is \in {"ok", "bad", "bare"} :
          BridgeChanges(d, [q EXCEPT !.inbox = @ \o <<[to |-> "dgram", is |-> is], Data>>])
    BY <1>7 DEF SendDatagram, q
  <2> DEFINE a == [to |-> "dgram", is |-> is]
             r == [q EXCEPT !.inbox = @ \o <<a, Data>>]
  <2>2. q.hang = "open" /\ (q.req = "dgram" \/ ("early" \in Faults /\ q.req = "nameMe"))
    BY <1>7 DEF SendDatagram, Open, MayFail, q
  <2>3. a \in Reply /\ a.to = "dgram"
    BY DEF Reply
  <2>4. r.style = q.style /\ r.req = q.req /\ r.half = q.half /\ r.inbox = Append(Append(q.inbox, a), Data)
    BY <1>1
  <2>5. BridgeChanges(d, r)
    BY <2>1
  <2> HIDE DEF r, a
  <2> QED BY <1>2, <2>2, <2>3, <2>4, <2>5 DEF Moves
<1>8. CASE Hangup(d)
  <2>1. PICK h : BridgeChanges(d, [q EXCEPT !.hang = h])
    BY <1>8 DEF Hangup, q
  <2> DEFINE r == [q EXCEPT !.hang = h]
  <2>2. q.hang = "open"
    BY <1>8 DEF Hangup, Open, q
  <2>3. r.style = q.style /\ r.req = q.req /\ r.half = q.half /\ r.inbox = q.inbox
    BY <1>1
  <2>4. BridgeChanges(d, r)
    BY <2>1
  <2> HIDE DEF r
  <2> QED BY <1>2, <2>2, <2>3, <2>4 DEF Moves
<1> QED BY <1>3, <1>4, <1>5, <1>6, <1>7, <1>8

-----------------------------------------------------------------------------
\* What these steps keep of a socket without a command.

\* Nothing comes on a socket on which nothing was asked: sam3HandshakeInternal and
\* its callers send a command only when the last one is answered.
LEMMA QuietKept ==
  ASSUME NEW q \in Socket, NEW r, Moves(q, r), Quiet(q)
  PROVE  Quiet(r)
BY ItemFacts DEF Moves, Quiet

\* A stream stays a stream: after its reply the application gets bytes only.
LEMMA StreamsKept ==
  ASSUME NEW q \in Socket, NEW r, Moves(q, r), Streams(q)
  PROVE  Streams(r)
<1>1. \/ r.req = q.req /\ r.inbox = q.inbox
      \/ r.req = "stream" /\ r.inbox = Append(q.inbox, Data)
  BY ItemFacts DEF Moves, Streams
<1>2. q.inbox \in Seq(Item) /\ Data \in Item
  BY SocketFields, ItemFacts
<1>3. CASE r.req = "stream" /\ r.inbox = Append(q.inbox, Data)
  <2>1. \A i \in 1..Len(r.inbox) : r.inbox[i] = Data
    BY <1>2, <1>3, Appended DEF Streams
  <2> QED BY <1>3, <2>1 DEF Streams
<1> QED BY <1>1, <1>3 DEF Streams

\* Between the reply to STREAM ACCEPT and the line that names the peer nothing
\* else comes (sam3StreamAccept reads exactly one line more).
LEMMA AwaitsPeerKept ==
  ASSUME NEW q \in Socket, NEW r, Moves(q, r), AwaitsPeer(q)
  PROVE  AwaitsPeer(r)
<1>1. \/ r.req = q.req /\ r.inbox = q.inbox
      \/ q.req = "stream" /\ r.req = "stream" /\ r.inbox = Append(q.inbox, Data)
      \/ \E a \in Reply : /\ q.req = "peer" /\ r.req = "stream" /\ a.to = "acceptA"
                          /\ r.inbox = Append(q.inbox, a)
  BY ItemFacts DEF Moves, AwaitsPeer
<1>2. q.inbox \in Seq(Item) /\ Data \in Item /\ Reply \subseteq Item
  BY SocketFields, ItemFacts
<1>3. CASE q.req = "stream" /\ r.req = "stream" /\ r.inbox = Append(q.inbox, Data)
  <2>1. q.inbox # <<>> /\ q.inbox[1].to = "acceptA" /\ \A i \in 2..Len(q.inbox) : q.inbox[i] = Data
    BY <1>3 DEF AwaitsPeer
  <2>2. r.inbox # <<>> /\ r.inbox[1].to = "acceptA"
    BY <1>2, <1>3, <2>1, Appended
  <2>3. \A i \in 2..Len(r.inbox) : r.inbox[i] = Data
    BY <1>2, <1>3, <2>1, Appended
  <2> QED BY <1>3, <2>2, <2>3 DEF AwaitsPeer
<1>4. ASSUME NEW a \in Reply, q.req = "peer" /\ r.req = "stream" /\ a.to = "acceptA"
                              /\ r.inbox = Append(q.inbox, a)
      PROVE  AwaitsPeer(r)
  <2>1. q.inbox = <<>> /\ a \in Item
    BY <1>2, <1>4 DEF AwaitsPeer
  <2>2. r.inbox # <<>> /\ r.inbox[1] = a /\ Len(r.inbox) = 1
    BY <1>2, <1>4, <2>1, Appended
  <2> QED BY <1>4, <2>2 DEF AwaitsPeer
<1> QED BY <1>1, <1>3, <1>4 DEF AwaitsPeer

\* Datagrams come as a header and its payload, never one of the two.
LEMMA DgramsKept ==
  ASSUME NEW q \in Socket, NEW r, Moves(q, r), NEW payload \in BOOLEAN, Dgrams(q, payload)
  PROVE  Dgrams(r, payload)
<1>1. \/ r.req = q.req /\ r.inbox = q.inbox
      \/ \E a \in Reply : /\ r.req = q.req /\ a.to = "dgram"
                          /\ r.inbox = Append(Append(q.inbox, a), Data)
  BY ItemFacts DEF Moves, Dgrams
<1>2. q.inbox \in Seq(Item) /\ Data \in Item /\ Reply \subseteq Item
  BY SocketFields, ItemFacts
<1>3. ASSUME NEW a \in Reply, r.req = q.req /\ a.to = "dgram" /\ r.inbox = Append(Append(q.inbox, a), Data)
      PROVE  Dgrams(r, payload)
  <2> DEFINE n == Len(q.inbox)
  <2>2. /\ n \in Nat /\ Len(r.inbox) = n + 2
        /\ \A i \in 1..n : r.inbox[i] = q.inbox[i]
        /\ r.inbox[n + 1] = a /\ r.inbox[n + 2] = Data
    <3>1. /\ n \in Nat /\ Append(q.inbox, a) \in Seq(Item) /\ Len(Append(q.inbox, a)) = n + 1
          /\ \A i \in 1..n : Append(q.inbox, a)[i] = q.inbox[i]
          /\ Append(q.inbox, a)[n + 1] = a
      BY <1>2, Appended
    <3>2. /\ Len(r.inbox) = n + 1 + 1 /\ r.inbox[n + 1 + 1] = Data
          /\ \A i \in 1..n + 1 : r.inbox[i] = Append(q.inbox, a)[i]
      BY <1>2, <1>3, <3>1, Appended
    <3> HIDE DEF n
    <3> QED BY <3>1, <3>2
  <2>3. (n % 2 = 1) <=> payload
    BY DEF Dgrams
  <2>4. \A i \in 1..n : IF (i % 2 = 0) <=> payload THEN q.inbox[i].to = "dgram" ELSE q.inbox[i] = Data
    BY DEF Dgrams
  <2> HIDE DEF n
  <2>5. (Len(r.inbox) % 2 = 1) <=> payload
    BY <2>2, <2>3
  <2>6. \A i \in 1..n + 2 :
          IF (i % 2 = 0) <=> payload THEN r.inbox[i].to = "dgram" ELSE r.inbox[i] = Data
    <3> SUFFICES ASSUME NEW i \in 1..n + 2
                 PROVE  IF (i % 2 = 0) <=> payload THEN r.inbox[i].to = "dgram" ELSE r.inbox[i] = Data
      OBVIOUS
    <3>1. CASE i \in 1..n
      BY <2>2, <2>4, <3>1
    <3>2. CASE i = n + 1
      <4>1. (n + 1) % 2 = 0 <=> n % 2 = 1
        BY <2>2, Parity
      <4>2. (i % 2 = 0) <=> payload
        BY <2>3, <3>2, <4>1
      <4> QED BY <1>3, <2>2, <3>2, <4>2
    <3>3. CASE i = n + 2
      <4>1. ~((i % 2 = 0) <=> payload)
        BY <2>2, <2>3, <3>3
      <4> QED BY <2>2, <3>3, <4>1
    <3> QED BY <2>2, <3>1, <3>2, <3>3
  <2> QED BY <1>3, <2>2, <2>5, <2>6 DEF Dgrams
<1> QED BY <1>1, <1>3 DEF Dgrams

-----------------------------------------------------------------------------
\* The answer to a command, and what follows it.

\* What comes on a socket that owes no answer.
Grows(q, r, in, out) ==
  \/ r.req = q.req /\ out = in
  \/ \E a \in Reply : /\ q.req = "peer" /\ r.req = "stream" /\ a.to = "acceptA"
                      /\ out = Append(in, a)
  \/ q.req = "stream" /\ r.req = "stream" /\ out = Append(in, Data)
  \/ \E a \in Reply : /\ q.req = "dgram" /\ r.req = "dgram" /\ a.to = "dgram"
                      /\ out = Append(Append(in, a), Data)

\* A header and its payload, queued behind what is there.
LEMMA TwoAppended ==
  ASSUME NEW s \in Seq(Item), NEW x \in Item, NEW y \in Item
  PROVE  LET t == Append(Append(s, x), y) IN
         /\ t \in Seq(Item) /\ t # <<>> /\ Len(s) \in Nat /\ Len(t) = Len(s) + 2
         /\ \A i \in 1..Len(s) : t[i] = s[i]
         /\ t[Len(s) + 1] = x /\ t[Len(s) + 2] = y
         /\ s # <<>> => Tail(t) = Append(Append(Tail(s), x), y)
<1> DEFINE u == Append(s, x)
<1>1. /\ u \in Seq(Item) /\ u # <<>> /\ Len(s) \in Nat /\ Len(u) = Len(s) + 1
      /\ \A i \in 1..Len(s) : u[i] = s[i]
      /\ u[Len(s) + 1] = x
      /\ s # <<>> => Tail(u) = Append(Tail(s), x)
  BY Appended
<1> HIDE DEF u
<1> DEFINE t == Append(u, y)
<1>2. /\ t \in Seq(Item) /\ t # <<>> /\ Len(t) = Len(u) + 1
      /\ \A i \in 1..Len(u) : t[i] = u[i]
      /\ t[Len(u) + 1] = y
      /\ Tail(t) = Append(Tail(u), y)
  BY <1>1, Appended
<1> HIDE DEF t
<1>3. \A i \in 1..Len(s) : t[i] = s[i]
  BY <1>1, <1>2
<1>4. t[Len(s) + 1] = x /\ t[Len(s) + 2] = y /\ Len(t) = Len(s) + 2
  BY <1>1, <1>2
<1> QED BY <1>1, <1>2, <1>3, <1>4 DEF t, u

\* Once a command is answered, what comes is queued behind the answer.
LEMMA MovesGrow ==
  ASSUME NEW q \in Socket, NEW r, Moves(q, r), q.req \notin Commands
  PROVE  /\ r.req \notin Commands
         /\ Grows(q, r, q.inbox, r.inbox)
         /\ q.inbox # <<>> => /\ r.inbox # <<>> /\ r.inbox[1] = q.inbox[1]
                              /\ Grows(q, r, Tail(q.inbox), Tail(r.inbox))
<1> DEFINE in == q.inbox  out == r.inbox
<1>1. in \in Seq(Item) /\ Data \in Item /\ Reply \subseteq Item
  BY SocketFields, ItemFacts
<1>2. Grows(q, r, in, out) /\ r.req \notin Commands
  BY ItemFacts, Zenon DEF Moves, Grows, Commands
<1>3. ASSUME in # <<>>
      PROVE  out # <<>> /\ out[1] = in[1] /\ Grows(q, r, Tail(in), Tail(out))
  <2> HIDE DEF in, out
  <2>1. 1 \in 1..Len(in)
    BY <1>1, <1>3, EmptySeq, LenProperties
  <2>2. CASE r.req = q.req /\ out = in
    BY <1>3, <2>2 DEF Grows
  <2>3. ASSUME NEW a \in Reply, q.req = "peer" /\ r.req = "stream" /\ a.to = "acceptA",
               out = Append(in, a)
        PROVE  out # <<>> /\ out[1] = in[1] /\ Grows(q, r, Tail(in), Tail(out))
    <3>1. out # <<>> /\ out[1] = in[1] /\ Tail(out) = Append(Tail(in), a)
      BY <1>1, <1>3, <2>1, <2>3, Appended
    <3> QED BY <2>3, <3>1 DEF Grows
  <2>4. CASE q.req = "stream" /\ r.req = "stream" /\ out = Append(in, Data)
    <3>1. out # <<>> /\ out[1] = in[1] /\ Tail(out) = Append(Tail(in), Data)
      BY <1>1, <1>3, <2>1, <2>4, Appended
    <3> QED BY <2>4, <3>1 DEF Grows
  <2>5. ASSUME NEW a \in Reply, q.req = "dgram" /\ r.req = "dgram" /\ a.to = "dgram",
               out = Append(Append(in, a), Data)
        PROVE  out # <<>> /\ out[1] = in[1] /\ Grows(q, r, Tail(in), Tail(out))
    <3>1. out # <<>> /\ out[1] = in[1] /\ Tail(out) = Append(Append(Tail(in), a), Data)
      BY <1>1, <1>3, <2>1, <2>5, TwoAppended
    <3> QED BY <2>5, <3>1 DEF Grows
  <2> QED BY <1>2, <2>2, <2>3, <2>4, <2>5 DEF Grows
<1> QED BY <1>2, <1>3

\* What the bridge is doing on a socket tells which command it has answered.
LEMMA WhichCommand ==
  ASSUME NEW k, NEW req, NEW n \in Nat, n >= 1,
         k = "connect" => req \in {"none", "stream"},
         k = "accept" => /\ n = 1 => req \in {"none", "peer"}
                         /\ n > 1 => req = "stream",
         k = "nameMe" => req \in {"none", "dgram"},
         k \notin {"connect", "accept", "nameMe"} => req = "none"
  PROVE  /\ req = "peer" => k = "accept" /\ n = 1
         /\ req = "stream" => k = "connect" \/ (k = "accept" /\ n > 1)
         /\ req = "dgram" => k = "nameMe"
OBVIOUS

\* An answer stays the answer while streams, peers and datagrams come behind it.
LEMMA AnsweredKept ==
  ASSUME NEW q, NEW r, NEW in \in Seq(Item), NEW out, Grows(q, r, in, out),
         NEW k \in Commands, NEW style, Answered(k, q.req, style, in)
  PROVE  Answered(k, r.req, style, out)
<1>1. Data \in Item /\ Reply \subseteq Item /\ Data.to = "data"
  BY ItemFacts
<1>2. Len(in) \in Nat /\ Len(in) >= 1 /\ in[1] \in Reply /\ in[1].to \in {k, "other"}
  BY EmptySeq, LenProperties DEF Answered
<1>3. /\ q.req = "peer" => k = "accept" /\ Len(in) = 1
      /\ q.req = "stream" => k = "connect" \/ (k = "accept" /\ Len(in) > 1)
      /\ q.req = "dgram" => k = "nameMe"
  <2>1. /\ k = "connect" => q.req \in {"none", "stream"}
        /\ k = "accept" => /\ Len(in) = 1 => q.req \in {"none", "peer"}
                           /\ Len(in) > 1 => q.req = "stream"
        /\ k = "nameMe" => q.req \in {"none", "dgram"}
        /\ k \notin {"connect", "accept", "nameMe"} => q.req = "none"
    BY DEF Answered
  <2> QED BY <1>2, <2>1, WhichCommand
<1>4. CASE r.req = q.req /\ out = in
  BY <1>4
<1>5. ASSUME NEW a \in Reply, q.req = "peer" /\ r.req = "stream" /\ a.to = "acceptA",
             out = Append(in, a)
      PROVE  Answered(k, r.req, style, out)
  <2>1. k = "accept" /\ Len(in) = 1
    BY <1>2, <1>5, <1>3
  <2>2. out # <<>> /\ Len(out) = 2 /\ out[1] = in[1] /\ out[2] = a
    BY <1>1, <1>5, <2>1, Appended
  <2> QED BY <1>2, <1>5, <2>1, <2>2 DEF Answered
<1>6. CASE q.req = "stream" /\ r.req = "stream" /\ out = Append(in, Data)
  <2>1. k = "connect" \/ (k = "accept" /\ Len(in) > 1)
    BY <1>2, <1>6, <1>3
  <2>2. \/ k = "connect" /\ \A i \in 2..Len(in) : in[i] = Data
        \/ /\ k = "accept" /\ Len(in) > 1 /\ in[2].to = "acceptA"
           /\ \A i \in 3..Len(in) : in[i] = Data
    BY <2>1 DEF Answered
  <2>3. /\ out # <<>> /\ Len(out) = Len(in) + 1 /\ out[Len(in) + 1] = Data
        /\ \A i \in 1..Len(in) : out[i] = in[i]
    BY <1>1, <1>6, Appended
  <2>4. k = "connect" => \A i \in 2..Len(out) : out[i] = Data
    BY <1>2, <2>2, <2>3
  <2>5. k = "accept" => Len(out) > 1 /\ out[2] = in[2] /\ in[2].to = "acceptA"
    BY <1>2, <2>2, <2>3
  <2>6. k = "accept" => \A i \in 3..Len(out) : out[i] = Data
    BY <1>2, <2>2, <2>3
  <2>7. out[1] = in[1]
    BY <1>2, <2>3
  <2> QED BY <1>2, <1>6, <2>2, <2>3, <2>4, <2>5, <2>6, <2>7 DEF Answered
<1>7. ASSUME NEW a \in Reply, q.req = "dgram" /\ r.req = "dgram" /\ a.to = "dgram",
             out = Append(Append(in, a), Data)
      PROVE  Answered(k, r.req, style, out)
  <2> DEFINE n == Len(in)
  <2>1. /\ k = "nameMe" /\ n % 2 = 1
        /\ \A i \in 2..n : IF i % 2 = 0 THEN in[i].to = "dgram" ELSE in[i] = Data
    <3>1. k = "nameMe"
      BY <1>2, <1>7, <1>3
    <3> QED BY <3>1 DEF Answered
  <2>2. /\ out # <<>> /\ Len(out) = n + 2 /\ out[n + 1] = a /\ out[n + 2] = Data
        /\ \A i \in 1..n : out[i] = in[i]
    BY <1>1, <1>7, TwoAppended
  <2>3. n \in Nat /\ n >= 1
    BY <1>2
  <2> HIDE DEF n
  <2>4. (n + 2) % 2 = 1 /\ (n + 1) % 2 = 0 /\ (n + 2) % 2 # 0
    BY <2>1, <2>3, Parity
  <2>5. out[1] = in[1] /\ Len(out) % 2 = 1
    BY <2>2, <2>3, <2>4
  <2>6. \A i \in 2..Len(out) : IF i % 2 = 0 THEN out[i].to = "dgram" ELSE out[i] = Data
    <3> SUFFICES ASSUME NEW i \in 2..Len(out)
                 PROVE  IF i % 2 = 0 THEN out[i].to = "dgram" ELSE out[i] = Data
      OBVIOUS
    <3>1. CASE i \in 2..n
      <4>1. out[i] = in[i]
        BY <2>2, <2>3, <3>1
      <4> QED BY <2>1, <3>1, <4>1
    <3>2. CASE i = n + 1
      BY <1>7, <2>2, <2>4, <3>2
    <3>3. CASE i = n + 2
      BY <2>2, <2>4, <3>3
    <3> QED BY <2>2, <2>3, <3>1, <3>2, <3>3
  <2> QED BY <1>2, <1>7, <2>1, <2>2, <2>5, <2>6 DEF Answered
<1> QED BY <1>4, <1>5, <1>6, <1>7 DEF Grows

\* The bridge answers a command on a socket on which nothing else is queued.
LEMMA FirstAnswer ==
  ASSUME NEW q \in Socket, NEW k \in Commands, q.req = k, NEW a \in Reply, a.to \in {k, "other"},
         NEW in, in = <<a>>
  PROVE  /\ AfterReply(q, a) \notin Commands
         /\ Answered(k, AfterReply(q, a), q.style, in)
<1>1. in # <<>> /\ Len(in) = 1 /\ in[1] = a
  OBVIOUS
<1>2. AfterReply(q, a) \in {"none", "stream", "peer", "dgram"}
  BY DEF AfterReply, NextRequest
<1>3. AfterReply(q, a) \notin Commands
  BY <1>2, ItemFacts
<1>4. /\ AfterReply(q, a) = "stream" => k = "connect"
      /\ AfterReply(q, a) = "peer" => k = "accept"
      /\ AfterReply(q, a) = "dgram" => k = "nameMe"
      /\ a = [to |-> "nameMe", is |-> "ok"] /\ q.style # "stream" => AfterReply(q, a) = "dgram"
  BY ItemFacts DEF AfterReply, NextRequest
<1>5. 1 % 2 = 1 /\ (\A i \in 2..1 : FALSE) /\ (\A i \in 3..1 : FALSE) /\ ~(1 > 1)
  OBVIOUS
<1> QED BY <1>1, <1>2, <1>3, <1>4, <1>5 DEF Answered

-----------------------------------------------------------------------------
\* What a call waits for.

\* A command is sent and not answered: the bridge cuts its answer, or answers.
LEMMA SentKept ==
  ASSUME NEW q \in Socket, NEW r, Moves(q, r), NEW k \in Commands, q.req = k,
         q.inbox = <<>> \/ (q.half /\ q.inbox = <<Part>>)
  PROVE  Awaits(k, r, q.style)
<1>1. r.style = q.style
  BY DEF Moves
<1>2. CASE r.req = q.req /\ r.half = q.half /\ r.inbox = q.inbox
  BY <1>1, <1>2 DEF Awaits
<1>3. CASE ~q.half /\ r.req = q.req /\ r.half /\ r.inbox = Append(q.inbox, Part)
  <2>1. Append(<<>>, Part) = <<Part>>
    OBVIOUS
  <2> QED BY <1>1, <1>3, <2>1 DEF Awaits
<1>4. ASSUME NEW a \in Reply, a.to \in {q.req, "other"},
             r.req = AfterReply(q, a), r.inbox = Append(q.inbox, a)
      PROVE  Awaits(k, r, q.style)
  <2>1. AfterReply(q, a) \notin Commands /\ Answered(k, AfterReply(q, a), q.style, <<a>>)
    BY <1>4, FirstAnswer
  <2>2. CASE q.inbox = <<>>
    <3>1. r.inbox = <<a>>
      BY <1>4, <2>2
    <3> QED BY <1>4, <2>1, <3>1 DEF Awaits
  <2>3. CASE q.inbox = <<Part>>
    <3>1. <<Part>> \in Seq(Item) /\ a \in Item /\ Len(<<Part>>) = 1 /\ <<Part>>[1] = Part
      BY ItemFacts
    <3>2. r.inbox # <<>> /\ r.inbox[1] = Part /\ Tail(r.inbox) = Append(Tail(<<Part>>), a)
      BY <1>4, <2>3, <3>1, Appended
    <3>3. Tail(<<Part>>) = <<>>
      OBVIOUS
    <3>4. Tail(r.inbox) = <<a>>
      BY <3>2, <3>3
    <3> QED BY <1>4, <2>1, <3>2, <3>4 DEF Awaits
  <2> QED BY <2>2, <2>3
<1>5. ASSUME NEW a \in Reply, "early" \in Faults, q.req = "nameMe", a.to = "dgram",
             r.inbox = Append(Append(q.inbox, a), Data)
      PROVE  Awaits(k, r, q.style)
  <2>1. q.inbox \in Seq(Item) /\ a \in Item /\ Data \in Item
    BY SocketFields, ItemFacts
  <2>2. /\ r.inbox # <<>> /\ Len(r.inbox) = Len(q.inbox) + 2
        /\ \A i \in 1..Len(q.inbox) : r.inbox[i] = q.inbox[i]
        /\ r.inbox[Len(q.inbox) + 1] = a
    BY <1>5, <2>1, TwoAppended
  <2>3. CASE q.inbox = <<>>
    <3>1. Len(q.inbox) = 0
      BY <2>3
    <3>2. r.inbox[1].to = "dgram"
      BY <1>5, <2>2, <3>1
    <3> QED BY <1>5, <2>2, <3>2 DEF Awaits, Overtaken
  <2>4. CASE q.inbox = <<Part>>
    <3>1. Len(q.inbox) = 1 /\ q.inbox[1] = Part
      BY <2>4
    <3>2. r.inbox[1] = Part /\ r.inbox[2].to = "dgram" /\ Len(r.inbox) > 1
      BY <1>5, <2>2, <3>1
    <3> QED BY <1>5, <2>2, <3>2 DEF Awaits, Overtaken
  <2> QED BY <2>3, <2>4
<1> QED BY <1>2, <1>3, <1>4, <1>5, ItemFacts DEF Moves

\* What has come stays where it is, in front of what comes.
LEMMA InFront ==
  ASSUME NEW q \in Socket, NEW r, Moves(q, r)
  PROVE  /\ Len(r.inbox) >= Len(q.inbox)
         /\ \A i \in 1..Len(q.inbox) : r.inbox[i] = q.inbox[i]
         /\ q.inbox # <<>> => r.inbox # <<>>
<1> DEFINE in == q.inbox  out == r.inbox
<1>1. in \in Seq(Item) /\ Data \in Item /\ Part \in Item /\ Reply \subseteq Item /\ Len(in) \in Nat
  BY SocketFields, ItemFacts, LenProperties
<1>2. \/ out = in
      \/ \E a \in Item : out = Append(in, a)
      \/ \E a \in Item : out = Append(Append(in, a), Data)
  BY <1>1, Zenon DEF Moves
<1> HIDE DEF in, out
<1> SUFFICES /\ Len(out) >= Len(in)
             /\ \A i \in 1..Len(in) : out[i] = in[i]
             /\ in # <<>> => out # <<>>
  BY DEF in, out
<1>3. ASSUME NEW a \in Item, out = Append(in, a)
      PROVE  out # <<>> /\ Len(out) >= Len(in) /\ \A i \in 1..Len(in) : out[i] = in[i]
  BY <1>1, <1>3, Appended
<1>4. ASSUME NEW a \in Item, out = Append(Append(in, a), Data)
      PROVE  out # <<>> /\ Len(out) >= Len(in) /\ \A i \in 1..Len(in) : out[i] = in[i]
  BY <1>1, <1>4, TwoAppended
<1> QED BY <1>1, <1>2, <1>3, <1>4

\* What a call waits for is still there, or still to come, whatever the bridge, the
\* peers and the network do meanwhile.
LEMMA AwaitsKept ==
  ASSUME NEW q \in Socket, NEW r, Moves(q, r), NEW k \in Commands, NEW style, Awaits(k, q, style)
  PROVE  Awaits(k, r, style)
<1>1. q.inbox \in Seq(Item) /\ q.hang = "open" /\ Len(q.inbox) \in Nat
  BY SocketFields, LenProperties DEF Moves
<1>2. CASE /\ q.req = k /\ q.style = style
           /\ q.inbox = <<>> \/ (q.half /\ q.inbox = <<Part>>)
  BY <1>2, SentKept
<1>3. CASE q.req \notin Commands /\ Answered(k, q.req, style, q.inbox)
  <2>1. r.req \notin Commands /\ Answered(k, r.req, style, r.inbox)
    BY <1>1, <1>3, MovesGrow, AnsweredKept
  <2> QED BY <2>1 DEF Awaits
<1>4. CASE /\ q.req \notin Commands /\ q.inbox # <<>> /\ q.inbox[1] = Part
           /\ Answered(k, q.req, style, Tail(q.inbox))
  <2>1. Tail(q.inbox) \in Seq(Item)
    BY <1>1, <1>4, HeadTailProperties
  <2>2. /\ r.req \notin Commands /\ r.inbox # <<>> /\ r.inbox[1] = Part
        /\ Answered(k, r.req, style, Tail(r.inbox))
    BY <1>4, <2>1, MovesGrow, AnsweredKept
  <2> QED BY <2>2 DEF Awaits
<1>5. CASE Overtaken(k, q.inbox)
  <2>1. k = "nameMe" /\ "early" \in Faults /\ q.inbox # <<>> /\ r.inbox # <<>> /\ Len(q.inbox) >= 1
    BY <1>1, <1>5, InFront, EmptySeq DEF Overtaken
  <2>2. r.inbox[1] = q.inbox[1] /\ Len(r.inbox) >= Len(q.inbox)
    BY <1>1, <2>1, InFront
  <2>3. Len(q.inbox) > 1 => r.inbox[2] = q.inbox[2] /\ Len(r.inbox) > 1
    BY <1>1, <2>2, InFront
  <2> QED BY <1>5, <2>1, <2>2, <2>3 DEF Overtaken, Awaits
<1> QED BY <1>1, <1>2, <1>3, <1>4, <1>5 DEF Awaits

-----------------------------------------------------------------------------
\* Reading one item.

\* The first item of the socket is read.
Reads(q, r) ==
  /\ q.inbox # <<>>
  /\ r.req = q.req /\ r.style = q.style /\ r.half = q.half /\ r.hang = q.hang
  /\ r.inbox = Tail(q.inbox)

\* sam3tcpReceiveStr takes the first item and leaves the others.
LEMMA ReadItems ==
  ASSUME NEW q \in Socket, NEW r, Reads(q, r)
  PROVE  /\ q.inbox \in Seq(Item) /\ q.inbox # <<>> /\ Len(q.inbox) \in Nat /\ Len(q.inbox) >= 1
         /\ r.inbox = Tail(q.inbox) /\ r.inbox \in Seq(Item)
         /\ Len(r.inbox) = Len(q.inbox) - 1
         /\ \A i \in 1..Len(r.inbox) : r.inbox[i] = q.inbox[i + 1]
         /\ r.inbox = <<>> <=> Len(q.inbox) = 1
         /\ Head(q.inbox) = q.inbox[1]
<1>1. q.inbox \in Seq(Item) /\ q.inbox # <<>> /\ r.inbox = Tail(q.inbox)
  BY SocketFields DEF Reads
<1>2. Len(q.inbox) \in Nat /\ Len(q.inbox) >= 1
  BY <1>1, EmptySeq, LenProperties
<1>3. r.inbox \in Seq(Item) /\ Len(r.inbox) = Len(q.inbox) - 1
      /\ \A i \in 1..Len(r.inbox) : r.inbox[i] = q.inbox[i + 1]
  BY <1>1, HeadTailProperties
<1>4. r.inbox = <<>> <=> Len(r.inbox) = 0
  BY <1>3, EmptySeq
<1>5. Head(q.inbox) = q.inbox[1]
  BY <1>1
<1> QED BY <1>1, <1>2, <1>3, <1>4, <1>5

\* Bytes taken from a stream leave a stream.
LEMMA StreamsRead ==
  ASSUME NEW q \in Socket, NEW r, Reads(q, r), Streams(q)
  PROVE  Streams(r)
<1>1. \A i \in 1..Len(r.inbox) : r.inbox[i] = Data
  BY ReadItems DEF Streams
<1> QED BY <1>1 DEF Streams, Reads

\* After the first half of a cut line the call waits for the same answer.
LEMMA PartRead ==
  ASSUME NEW q \in Socket, NEW r, Reads(q, r), NEW k \in Commands, NEW style,
         Awaits(k, q, style), q.inbox[1] = Part
  PROVE  Awaits(k, r, style)
<1>1. Part \notin Reply /\ Part.to = "part"
  BY ItemFacts
<1>2. ~Answered(k, q.req, style, q.inbox) /\ q.inbox # <<>>
  BY <1>1 DEF Answered, Reads
<1>3. CASE q.req = k /\ q.style = style /\ q.half /\ q.inbox = <<Part>>
  <2>1. r.inbox = <<>> /\ r.req = k /\ r.style = style
    BY <1>3 DEF Reads
  <2> QED BY <2>1 DEF Awaits
<1>4. CASE q.req \notin Commands /\ Answered(k, q.req, style, Tail(q.inbox))
  BY <1>4 DEF Awaits, Reads
<1>5. CASE Overtaken(k, q.inbox)
  <2>1. /\ k = "nameMe" /\ "early" \in Faults
        /\ Len(q.inbox) > 1 /\ q.inbox[2].to = "dgram"
    BY <1>1, <1>5 DEF Overtaken
  <2>2. r.inbox[1] = q.inbox[2] /\ r.inbox # <<>>
    BY <2>1, ReadItems
  <2> QED BY <2>1, <2>2 DEF Overtaken, Awaits
<1> QED BY <1>2, <1>3, <1>4, <1>5 DEF Awaits, Quiet

\* A whole line that is no datagram is the answer to the last command.
LEMMA ReplyRead ==
  ASSUME NEW q \in Socket, NEW k \in Commands, NEW style,
         Awaits(k, q, style), q.inbox # <<>>, q.inbox[1] # Part,
         k # "nameMe" \/ q.inbox[1].to # "dgram"
  PROVE  q.req \notin Commands /\ Answered(k, q.req, style, q.inbox)
<1>1. <<Part>>[1] = Part
  OBVIOUS
<1> QED BY <1>1 DEF Awaits, Quiet, Overtaken

\* HELLO, DEST GENERATE, NAMING LOOKUP of a name, SESSION CREATE and STREAM FORWARD
\* are answered with one line, and nothing comes behind it.
LEMMA QuietRead ==
  ASSUME NEW q \in Socket, NEW r, Reads(q, r), NEW k \in Commands \ {"connect", "accept", "nameMe"},
         NEW style, Answered(k, q.req, style, q.inbox)
  PROVE  Quiet(r)
<1>1. q.req = "none" /\ Len(q.inbox) = 1
  BY DEF Answered
<1> QED BY <1>1, ReadItems DEF Quiet, Reads

\* Behind the reply to STREAM CONNECT there is the stream (sam3StreamConnect).
LEMMA ConnectRead ==
  ASSUME NEW q \in Socket, NEW r, Reads(q, r), NEW style, Answered("connect", q.req, style, q.inbox)
  PROVE  Streams(r)
<1>1. q.req \in {"none", "stream"} /\ \A i \in 2..Len(q.inbox) : q.inbox[i] = Data
  BY DEF Answered
<1>2. \A i \in 1..Len(r.inbox) : r.inbox[i] = Data
  BY <1>1, ReadItems
<1> QED BY <1>1, <1>2 DEF Streams, Reads

\* Behind the reply to STREAM ACCEPT there is the line that names the peer
\* (sam3StreamAccept).
LEMMA AcceptRead ==
  ASSUME NEW q \in Socket, NEW r, Reads(q, r), NEW style, Answered("accept", q.req, style, q.inbox)
  PROVE  AwaitsPeer(r)
<1>1. /\ Len(q.inbox) = 1 => q.req \in {"none", "peer"}
      /\ Len(q.inbox) > 1 => q.req = "stream" /\ q.inbox[2].to = "acceptA"
      /\ \A i \in 3..Len(q.inbox) : q.inbox[i] = Data
  BY DEF Answered
<1>2. r.req = q.req
  BY DEF Reads
<1>3. CASE Len(q.inbox) = 1
  BY <1>1, <1>2, <1>3, ReadItems DEF AwaitsPeer
<1>4. CASE Len(q.inbox) > 1
  <2>1. r.inbox # <<>> /\ r.inbox[1] = q.inbox[2]
    BY <1>4, ReadItems
  <2>2. \A i \in 2..Len(r.inbox) : r.inbox[i] = Data
    BY <1>1, ReadItems
  <2> QED BY <1>1, <1>2, <1>4, <2>1, <2>2 DEF AwaitsPeer
<1> QED BY <1>3, <1>4, ReadItems

\* The line that names the peer is read as such, and then there is the stream.
LEMMA PeerRead ==
  ASSUME NEW q \in Socket, NEW r, Reads(q, r), AwaitsPeer(q)
  PROVE  Streams(r) /\ q.inbox[1].to = "acceptA"
<1>1. /\ q.req = "stream" /\ q.inbox[1].to = "acceptA"
      /\ \A i \in 2..Len(q.inbox) : q.inbox[i] = Data
  BY DEF AwaitsPeer, Reads
<1>2. \A i \in 1..Len(r.inbox) : r.inbox[i] = Data
  BY <1>1, ReadItems
<1> QED BY <1>1, <1>2 DEF Streams, Reads

\* Behind the answer to NAMING LOOKUP NAME=ME there are whole datagrams
\* (sam3CreateSession ends with it).
LEMMA NameMeRead ==
  ASSUME NEW q \in Socket, NEW r, Reads(q, r), NEW style, style # "stream",
         Answered("nameMe", q.req, style, q.inbox), q.inbox[1] = [to |-> "nameMe", is |-> "ok"]
  PROVE  Dgrams(r, FALSE)
<1> DEFINE n == Len(r.inbox)
<1>1. /\ q.req = "dgram" /\ Len(q.inbox) % 2 = 1
      /\ \A i \in 2..Len(q.inbox) :
           IF i % 2 = 0 THEN q.inbox[i].to = "dgram" ELSE q.inbox[i] = Data
  BY DEF Answered
<1>2. n \in Nat /\ Len(q.inbox) = n + 1 /\ \A i \in 1..n : r.inbox[i] = q.inbox[i + 1]
  BY ReadItems
<1> HIDE DEF n
<1>3. (n + 1) % 2 = 1 /\ ~(n % 2 = 1)
  BY <1>1, <1>2, Parity
<1>4. \A i \in 1..n : IF ~(i % 2 = 0) THEN r.inbox[i].to = "dgram" ELSE r.inbox[i] = Data
  <2> SUFFICES ASSUME NEW i \in 1..n
               PROVE  IF ~(i % 2 = 0) THEN r.inbox[i].to = "dgram" ELSE r.inbox[i] = Data
    OBVIOUS
  <2>1. i \in Nat /\ i + 1 \in 2..Len(q.inbox) /\ r.inbox[i] = q.inbox[i + 1]
    BY <1>2
  <2>2. (i + 1) % 2 = 0 <=> ~(i % 2 = 0)
    BY <2>1, Parity
  <2> QED BY <1>1, <2>1, <2>2
<1> QED BY <1>1, <1>3, <1>4 DEF Dgrams, Reads, n

\* A receive reads the header where it looks for one and the payload where it
\* looks for that (sam3DatagramReceive).
LEMMA DgramRead ==
  ASSUME NEW q \in Socket, NEW r, Reads(q, r), NEW payload \in BOOLEAN, Dgrams(q, payload)
  PROVE  /\ Dgrams(r, ~payload)
         /\ IF payload THEN q.inbox[1] = Data ELSE q.inbox[1].to = "dgram"
<1> DEFINE n == Len(r.inbox)
<1>1. /\ q.req = "dgram" /\ (Len(q.inbox) % 2 = 1 <=> payload)
      /\ \A i \in 1..Len(q.inbox) :
           IF (i % 2 = 0) <=> payload THEN q.inbox[i].to = "dgram" ELSE q.inbox[i] = Data
  BY DEF Dgrams
<1>2. n \in Nat /\ Len(q.inbox) = n + 1 /\ \A i \in 1..n : r.inbox[i] = q.inbox[i + 1]
  BY ReadItems
<1> HIDE DEF n
<1>3. n % 2 = 1 <=> ~payload
  BY <1>1, <1>2, Parity
<1>4. \A i \in 1..n : IF (i % 2 = 0) <=> ~payload THEN r.inbox[i].to = "dgram" ELSE r.inbox[i] = Data
  <2> SUFFICES ASSUME NEW i \in 1..n
               PROVE  IF (i % 2 = 0) <=> ~payload THEN r.inbox[i].to = "dgram" ELSE r.inbox[i] = Data
    OBVIOUS
  <2>1. i \in Nat /\ i + 1 \in 1..Len(q.inbox) /\ r.inbox[i] = q.inbox[i + 1]
    BY <1>2
  <2>2. (i + 1) % 2 = 0 <=> ~(i % 2 = 0)
    BY <2>1, Parity
  <2>3. ((i % 2 = 0) <=> ~payload) <=> (((i + 1) % 2 = 0) <=> payload)
    BY <2>2
  <2> QED BY <1>1, <2>1, <2>3
<1>5. 1 \in 1..Len(q.inbox) /\ 1 % 2 = 1
  BY <1>2
<1>6. IF payload THEN q.inbox[1] = Data ELSE q.inbox[1].to = "dgram"
  BY <1>1, <1>5
<1>7. r.req = "dgram"
  BY <1>1 DEF Reads
<1> QED BY <1>3, <1>4, <1>6, <1>7 DEF Dgrams, n

-----------------------------------------------------------------------------
\* Sockets apart: a call touches no socket but its own.

\* A connection of a connlist is live, its socket is open and its own, and the call
\* in progress does not fill it.
LEMMA ListedConn ==
  ASSUME OInv, NEW s \in Sessions, NEW c \in ConnsOf(s)
  PROVE  /\ c \in Conns /\ conn[c].mem = "live" /\ conn[c].ses = s
         /\ conn[c].fd \in Fds /\ fds[conn[c].fd] = "lib"
         /\ <<"conn", c>> \in Owners /\ OwnFd(<<"conn", c>>) = conn[c].fd
         /\ Idle \/ call.c # c
<1>1. c \in Conns /\ conn[c].mem = "live" /\ conn[c].ses = s /\ (Idle \/ call.c # c)
  BY DEF OInv, ConnlistIntegrity
<1>2. conn[c].fd \in Fds
  BY <1>1 DEF OInv, Settled, OpensFor
<1>3. <<"conn", c>> \in Owners /\ OwnFd(<<"conn", c>>) = conn[c].fd
  BY <1>1 DEF Owners, OwnFd, ConnFd
<1> QED BY <1>1, <1>2, <1>3 DEF OInv, Owned

\* A session that datagrams can be received from owns its open socket.
LEMMA ReceivingSession ==
  ASSUME OInv, NEW s \in Sessions, Receives(s)
  PROVE  /\ ses[s].fd \in Fds /\ fds[ses[s].fd] = "lib"
         /\ <<"ses", s>> \in Owners /\ OwnFd(<<"ses", s>>) = ses[s].fd
<1>1. ses[s].fd \in Fds
  BY DEF OInv, Settled, Receives
<1>2. <<"ses", s>> \in Owners /\ OwnFd(<<"ses", s>>) = ses[s].fd
  BY DEF Owners, OwnFd, SesFd, Receives
<1> QED BY <1>1, <1>2 DEF OInv, Owned

\* The sockets that a receive and the application's own reading use are open.
OpenSocks ==
  /\ \A s \in Sessions : Receives(s) => ses[s].fd \in Fds /\ fds[ses[s].fd] = "lib"
  /\ \A s \in Sessions : \A c \in ConnsOf(s) : conn[c].fd \in Fds /\ fds[conn[c].fd] = "lib"

\* The invariant says that the sockets of live structs are open.
LEMMA OpenSocksHold == OInv => OpenSocks
BY ListedConn, ReceivingSession DEF OpenSocks

\* The socket of the call in progress has an owner of its own.
LEMMA CallOwner ==
  ASSUME OInv, ~Idle, call.fd \in Fds
  PROVE  \E w \in Owners : /\ OwnFd(w) = call.fd
                           /\ \A c \in Conns : w = <<"conn", c>> => call.c = c
                           /\ \A s \in Sessions : w = <<"ses", s>> =>
                                CreatesFor(s) \/ (call.op = "receive" /\ call.s = s)
<1>1. call.s \in Sessions /\ call.op \in AllOps
  BY DEF OInv, CallShape
<1>2. CASE call.op # "receive" /\ (call.op \in {"keyGen", "lookup"} \/ InHandshake)
  <2>1. <<"call", "call">> \in Owners /\ OwnFd(<<"call", "call">>) = call.fd
    BY <1>2 DEF Owners, OwnFd, HandFd
  <2> QED BY <2>1
<1>3. CASE Creating(call.op) /\ ~InHandshake
  <2>1. <<"ses", call.s>> \in Owners /\ OwnFd(<<"ses", call.s>>) = call.fd
    BY <1>1, <1>3 DEF OInv, Holding, Held, Owners, OwnFd, SesFd
  <2> QED BY <1>3, <2>1 DEF CreatesFor
<1>4. CASE call.op \in {"connect", "accept"} /\ ~InHandshake
  <2>1. call.c \in Conns /\ <<"conn", call.c>> \in Owners /\ OwnFd(<<"conn", call.c>>) = call.fd
    BY <1>1, <1>4 DEF OInv, Holding, Held, Owners, OwnFd, ConnFd
  <2> QED BY <2>1
<1>5. CASE call.op = "forward" /\ ~InHandshake
  <2>1. <<"fwd", call.s>> \in Owners /\ OwnFd(<<"fwd", call.s>>) = call.fd
    BY <1>1, <1>5 DEF OInv, Holding, Held, Owners, OwnFd, FwdFd
  <2> QED BY <2>1
<1>6. CASE call.op = "receive"
  <2>1. <<"ses", call.s>> \in Owners /\ OwnFd(<<"ses", call.s>>) = call.fd
    BY <1>1, <1>6 DEF OInv, Holding, Owners, OwnFd, SesFd
  <2> QED BY <1>6, <2>1
<1> QED BY <1>1, <1>2, <1>3, <1>4, <1>5, <1>6 DEF AllOps, Creating

\* The socket of the call in progress is neither that of a connection nor, unless the
\* call receives on it, that of a session.
LEMMA Apart ==
  ASSUME OInv, ~Idle, call.fd \in Fds
  PROVE  /\ \A t \in Sessions : Receives(t) /\ (call.op # "receive" \/ call.s # t) =>
              ses[t].fd # call.fd
         /\ \A t \in Sessions : \A c \in ConnsOf(t) : conn[c].fd # call.fd
<1>1. PICK w \in Owners :
        /\ OwnFd(w) = call.fd
        /\ \A c \in Conns : w = <<"conn", c>> => call.c = c
        /\ \A s \in Sessions : w = <<"ses", s>> =>
             CreatesFor(s) \/ (call.op = "receive" /\ call.s = s)
  BY CallOwner
<1>2. ASSUME NEW t \in Sessions, Receives(t), call.op # "receive" \/ call.s # t
      PROVE  ses[t].fd # call.fd
  <2>1. w # <<"ses", t>>
    BY <1>1, <1>2 DEF Receives
  <2>2. <<"ses", t>> \in Owners /\ OwnFd(<<"ses", t>>) = ses[t].fd /\ ses[t].fd \in Fds
    BY <1>2, ReceivingSession
  <2> QED BY <1>1, <2>1, <2>2 DEF OInv, Owned
<1>3. ASSUME NEW t \in Sessions, NEW c \in ConnsOf(t)
      PROVE  conn[c].fd # call.fd
  <2>1. w # <<"conn", c>>
    BY <1>1, ListedConn
  <2>2. <<"conn", c>> \in Owners /\ OwnFd(<<"conn", c>>) = conn[c].fd /\ conn[c].fd \in Fds
    BY ListedConn
  <2> QED BY <1>1, <2>1, <2>2 DEF OInv, Owned
<1> QED BY <1>2, <1>3

\* No socket but the call's, and those that are closed, changes.
SocksKept == \A d \in Fds : fds[d] = "lib" /\ fds'[d] = "lib" /\ (Idle \/ d # call.fd) =>
               sock'[d] = sock[d]

\* A socket that is not that of the call, and stays open, is as it was.
LEMMA NotTheCall ==
  ASSUME OInv, SocksKept, NEW d \in Fds, fds[d] = "lib", fds'[d] = "lib",
         ~Idle /\ call.fd \in Fds => d # call.fd
  PROVE  sock'[d] = sock[d]
BY DEF SocksKept

\* A session that is not touched keeps whole datagrams on its socket.
LEMMA SessionKept ==
  ASSUME OInv, OInv', SesDialogue, SocksKept, call.at # "crashed",
         NEW t \in Sessions, Receives(t), Receives(t)', ses'[t].fd = ses[t].fd,
         ~InPayload(t)', Idle \/ call.op # "receive" \/ call.s # t
  PROVE  Dgrams(sock'[ses'[t].fd], InPayload(t)')
<1> DEFINE d == ses[t].fd
<1>1. InPayload(t)' = FALSE /\ InPayload(t) = FALSE
  BY DEF InPayload
<1>2. d \in Fds /\ fds[d] = "lib"
  BY ReceivingSession
<1>3. fds'[ses'[t].fd] = "lib"
  <2>1. OpenSocks'
    BY OpenSocksHold, PTL
  <2> QED BY <2>1 DEF OpenSocks
<1>4. ~Idle /\ call.fd \in Fds => d # call.fd
  BY Apart
<1>5. sock'[d] = sock[d]
  BY <1>2, <1>3, <1>4, NotTheCall
<1>6. Dgrams(sock[d], InPayload(t))
  BY DEF SesDialogue
<1> QED BY <1>1, <1>5, <1>6

\* A step that touches no session of datagrams keeps what is on their sockets.
LEMMA SesKept ==
  ASSUME OInv, OInv', SesDialogue, SocksKept, call.at # "crashed",
         \A t \in Sessions : Receives(t)' =>
           /\ Receives(t) /\ ses'[t].fd = ses[t].fd /\ ~InPayload(t)'
           /\ Idle \/ call.op # "receive" \/ call.s # t
  PROVE  SesDialogue'
BY SessionKept DEF SesDialogue

\* A step that touches neither a connection nor its socket leaves it a stream.
LEMMA ConnsKept ==
  ASSUME OInv, OInv', ConnDialogue, SocksKept,
         NEW t \in Sessions, NEW c \in ConnsOf(t), c \in ConnsOf(t)',
         conn'[c].fd = conn[c].fd
  PROVE  Streams(sock'[conn'[c].fd])
<1> DEFINE d == conn[c].fd
<1>1. d \in Fds /\ fds[d] = "lib"
  BY ListedConn, ZenonT(60)
<1>2. fds'[conn'[c].fd] = "lib"
  <2>1. OpenSocks'
    BY OpenSocksHold, PTL
  <2> QED BY <2>1 DEF OpenSocks
<1>3. ~Idle /\ call.fd \in Fds => d # call.fd
  BY Apart
<1>4. sock'[d] = sock[d]
  BY <1>1, <1>2, <1>3, NotTheCall
<1>5. Streams(sock[d])
  BY DEF ConnDialogue
<1> QED BY <1>4, <1>5

-----------------------------------------------------------------------------
\* The bridge, and calls that start.

\* The bridge, the peers and the network keep the dialogue in every state.
LEMMA BridgeDialogue ==
  ASSUME OInv, DInv, Bridge
  PROVE  DInv'
<1>1. PICK d \in Fds : \/ Answer(d) \/ AnswerPart(d) \/ PeerArrives(d)
                       \/ SendData(d) \/ SendDatagram(d) \/ Hangup(d)
  BY DEF Bridge
<1>2. PICK r : /\ Moves(sock[d], r) /\ sock' = [sock EXCEPT ![d] = r]
               /\ UNCHANGED <<ses, conn, call, fds>>
  BY <1>1, BridgeMoves DEF OInv
<1>3. ASSUME NEW e \in Fds
      PROVE  /\ Quiet(sock[e]) => Quiet(sock'[e])
             /\ AwaitsPeer(sock[e]) => AwaitsPeer(sock'[e])
             /\ Streams(sock[e]) => Streams(sock'[e])
             /\ \A k \in Commands, style \in {"dgram", "stream"} :
                  Awaits(k, sock[e], style) => Awaits(k, sock'[e], style)
             /\ \A p \in BOOLEAN : Dgrams(sock[e], p) => Dgrams(sock'[e], p)
  <2>1. sock[e] \in Socket /\ sock'[e] = IF e = d THEN r ELSE sock[e]
    BY <1>2 DEF OInv, TypeOK
  <2>2. CASE e = d
    <3>1. sock[e] \in Socket /\ sock'[e] = r /\ Moves(sock[e], r)
      BY <1>2, <2>1, <2>2
    <3> QED BY <3>1, QuietKept, AwaitsPeerKept, StreamsKept, AwaitsKept, DgramsKept
  <2> QED BY <2>1, <2>2
<1>4. /\ ~Idle => /\ call.s \in Sessions /\ call.todo \in Remaining(call.op) /\ call.op \in AllOps
                  /\ call.at # "connect" => call.fd \in Fds
      /\ call.at = "send" \/ call.at = "await" => ~Idle
  BY DEF OInv, CallShape, Idle
<1>5. CallDialogue'
  <2>1. call.at = "send" => Quiet(sock'[call.fd])
    BY <1>3, <1>4 DEF DInv, CallDialogue
  <2>2. ASSUME call.at = "await", call.op # "receive"
        PROVE  IF Head(call.todo) = "acceptA" THEN AwaitsPeer(sock'[call.fd])
               ELSE Awaits(Head(call.todo), sock'[call.fd], ses[call.s].style)
    <3>1. Head(call.todo) \in Commands \cup {"acceptA"}
      BY <1>4, <2>2, Scripts DEF Ends, Lines
    <3>2. ses[call.s].style \in {"dgram", "stream"} /\ call.fd \in Fds
      BY <1>4, <2>2 DEF OInv, TypeOK, Session
    <3> QED BY <1>3, <2>2, <3>1, <3>2 DEF DInv, CallDialogue
  <2> QED BY <1>2, <2>1, <2>2 DEF CallDialogue
<1>6. SesDialogue'
  <2>1. ASSUME NEW s \in Sessions, call.at # "crashed", Receives(s)
        PROVE  Dgrams(sock'[ses[s].fd], InPayload(s))
    <3>1. InPayload(s) \in BOOLEAN /\ ses[s].fd \in Fds
      BY <2>1, ReceivingSession DEF InPayload
    <3> QED BY <1>3, <2>1, <3>1 DEF DInv, SesDialogue
  <2> QED BY <1>2, <2>1 DEF SesDialogue, Receives, CreatesFor, InPayload, Idle
<1>7. ConnDialogue'
  <2>1. \A s \in Sessions : \A c \in ConnsOf(s) : Streams(sock'[conn[c].fd])
    BY <1>3, ListedConn DEF DInv, ConnDialogue
  <2> QED BY <1>2, <2>1 DEF ConnDialogue, ConnsOf
<1>8. CallFits'
  BY <1>2 DEF DInv, CallFits, Idle
<1> QED BY <1>5, <1>6, <1>7, <1>8 DEF DInv

\* Between calls nothing is awaited.
LEMMA IdleDialogue ==
  ASSUME OInv, OInv', DInv, Idle', SocksKept, call.at # "crashed",
         \A t \in Sessions : Receives(t)' =>
           /\ Receives(t) /\ ses'[t].fd = ses[t].fd
           /\ Idle \/ call.op # "receive" \/ call.s # t,
         \A t \in Sessions : \A c \in ConnsOf(t)' :
           /\ c \in ConnsOf(t) /\ conn'[c].fd = conn[c].fd
  PROVE  DInv'
<1>1. CallDialogue' /\ CallFits'
  BY DEF CallDialogue, CallFits, Idle
<1>2. \A t \in Sessions : ~InPayload(t)'
  BY DEF InPayload
<1>3. SesDialogue'
  BY <1>2, SesKept DEF DInv
<1>4. ConnDialogue'
  BY ConnsKept DEF DInv, ConnDialogue
<1> QED BY <1>1, <1>3, <1>4 DEF DInv

\* A call that starts has not got a socket, or is a receive.
LEMMA EnterDialogue ==
  ASSUME OInv, OInv', DInv, Idle, SocksKept, NEW op \in AllOps, NEW s \in Sessions,
         NEW c, NEW at, NEW fd, Enter(op, s, c, at, fd),
         op # "receive" => at = "connect",
         op = "receive" => at = "await" /\ ~ses'[s].error,
         op \in {"connect", "accept", "forward"} => ses'[s].style = "stream",
         \A t \in Sessions : Receives(t)' => Receives(t) /\ ses'[t].fd = ses[t].fd,
         \A t \in Sessions : \A b \in ConnsOf(t)' :
           /\ b \in ConnsOf(t) /\ conn'[b].fd = conn[b].fd
  PROVE  DInv'
<1>1. call'.op = op /\ call'.s = s /\ call'.at = at /\ call'.todo = Script(op)
  BY DEF Enter
<1>2. CallDialogue' /\ CallFits'
  BY <1>1 DEF CallDialogue, CallFits, Idle
<1>3. call.at # "crashed" /\ \A t \in Sessions : ~InPayload(t)'
  <2>1. Head(Script("receive")) # "payload"
    BY DEF Script
  <2> QED BY <1>1, <2>1 DEF InPayload, Idle
<1>4. SesDialogue'
  BY <1>3, SesKept DEF DInv
<1>5. ConnDialogue'
  BY ConnsKept DEF DInv, ConnDialogue
<1> QED BY <1>2, <1>4, <1>5 DEF DInv

-----------------------------------------------------------------------------
\* The calls of the library.

\* A call that is refused leaves the session its message, and is over.
LEMMA ToldDialogue ==
  ASSUME OInv, OInv', DInv, Idle, Idle', NEW s \in Sessions, NEW e \in BOOLEAN, Error(s, e),
         ~e => Receives(s) \/ ses[s].style # "dgram", UNCHANGED <<conn, fds, sock>>
  PROVE  DInv'
<1>1. /\ \A t \in Sessions : SameButError(ses'[t], ses[t])
      /\ \A t \in Sessions : ses'[t].error = IF t = s THEN e ELSE ses[t].error
  BY ErrorFields DEF OInv
<1>2. \A t \in Sessions : Receives(t)' => Receives(t) /\ ses'[t].fd = ses[t].fd
  BY <1>1 DEF Receives, CreatesFor, SameButError
<1>3. \A t \in Sessions : \A b \in ConnsOf(t)' :
        /\ b \in ConnsOf(t) /\ conn'[b].fd = conn[b].fd
  BY <1>1 DEF ConnsOf, SameButError
<1> QED BY <1>2, <1>3, IdleDialogue DEF SocksKept, Idle

\* A call refused for its arguments changes no dialogue (strcpyerr and return -1).
LEMMA RefusedDialogue ==
  ASSUME OInv, OInv', DInv, Idle, NEW op \in AllOps, NEW s \in Sessions, Refused(op, s)
  PROVE  DInv'
BY ToldDialogue DEF Refused, Idle

\* sam3CreateSession starts with no socket, or is refused.
LEMMA CreateDialogue ==
  ASSUME OInv, OInv', DInv, NEW op \in AllOps, NEW s \in Sessions, sam3CreateSession(op, s)
  PROVE  DInv'
<1>1. Idle /\ Creating(op) /\ UNCHANGED <<conn, fds, sock>> /\ ses[s].mem # "live"
  BY DEF sam3CreateSession
<1>2. /\ \A t \in Sessions : t # s => ses'[t] = ses[t]
      /\ ses'[s].connlist = <<>>
      /\ \/ Enter(op, s, "none", "connect", None)
         \/ Idle' /\ ses'[s].mem = "closed"
  <2>1. CASE ses' = [ses EXCEPT ![s] = Fresh(Style(op))] /\ Enter(op, s, "none", "connect", None)
    BY <2>1, FreshType DEF OInv, TypeOK, Style
  <2>2. CASE /\ ses' = [ses EXCEPT ![s] = Closed]
             /\ call' = [op |-> op, s |-> s, c |-> "none", fd |-> None,
                         at |-> "idle", todo |-> <<>>, res |-> "failed"]
    BY <2>2, ClosedType DEF OInv, TypeOK, Idle
  <2> QED BY <2>1, <2>2 DEF sam3CreateSession
<1>3. \A t \in Sessions : \A b \in ConnsOf(t)' :
        /\ b \in ConnsOf(t) /\ conn'[b].fd = conn[b].fd
  <2>1. ConnsOf(s)' = {}
    BY <1>2 DEF ConnsOf
  <2>2. \A t \in Sessions : t # s => ConnsOf(t)' = ConnsOf(t) /\ ses'[t] = ses[t]
    BY <1>2 DEF ConnsOf
  <2> QED BY <1>1, <2>1, <2>2
<1>4. CASE Enter(op, s, "none", "connect", None)
  <2>1. CreatesFor(s)'
    BY <1>1, <1>4 DEF Enter, CreatesFor, Idle
  <2>2. \A t \in Sessions : Receives(t)' => Receives(t) /\ ses'[t].fd = ses[t].fd
    BY <1>1, <1>2, <2>1 DEF Receives, CreatesFor
  <2>3. op \notin {"receive", "connect", "accept", "forward"}
    BY <1>1 DEF Creating
  <2> QED BY <1>1, <1>3, <1>4, <2>2, <2>3, EnterDialogue DEF SocksKept
<1>5. CASE Idle' /\ ses'[s].mem = "closed"
  <2>1. \A t \in Sessions : Receives(t)' => Receives(t) /\ ses'[t].fd = ses[t].fd
    BY <1>1, <1>2, <1>5 DEF Receives, CreatesFor
  <2> QED BY <1>1, <1>3, <1>5, <2>1, IdleDialogue DEF SocksKept, Idle
<1> QED BY <1>2, <1>4, <1>5

\* sam3StreamConnect and sam3StreamAccept start with no socket, or are refused.
LEMMA OpenDialogue ==
  ASSUME OInv, OInv', DInv, NEW op \in AllOps, NEW s \in Sessions, NEW c \in Conns,
         OpenConnection(op, s, c)
  PROVE  DInv'
<1>1. Idle /\ op \in {"connect", "accept"} /\ conn[c].mem = "none"
  BY DEF OpenConnection
<1>2. CASE Refused(op, s)
  BY <1>1, <1>2, RefusedDialogue
<1>3. CASE /\ ses[s].style = "stream"
           /\ conn' = [conn EXCEPT ![c] = [mem |-> "live", ses |-> s, fd |-> None]]
           /\ Enter(op, s, c, "connect", None)
           /\ UNCHANGED <<ses, fds, sock>>
  <2>1. \A b \in Conns : b # c => conn'[b] = conn[b]
    BY <1>3 DEF OInv, TypeOK
  <2>2. \A t \in Sessions : \A b \in ConnsOf(t) : b \in Conns /\ b # c
    BY <1>1, ListedConn, ZenonT(60)
  <2>3. \A t \in Sessions : \A b \in ConnsOf(t)' :
          /\ b \in ConnsOf(t) /\ conn'[b].fd = conn[b].fd
    BY <1>3, <2>1, <2>2 DEF ConnsOf
  <2>4. \A t \in Sessions : Receives(t)' => Receives(t) /\ ses'[t].fd = ses[t].fd
    BY <1>1, <1>3 DEF Receives, CreatesFor
  <2> QED BY <1>1, <1>3, <2>3, <2>4, EnterDialogue DEF SocksKept
<1> QED BY <1>2, <1>3 DEF OpenConnection

\* A call that fills no new struct enters its dialogue.
LEMMA BeginDialogue ==
  ASSUME OInv, OInv', DInv, Idle, NEW op \in {"forward", "keyGen", "lookup", "receive"},
         NEW s \in Sessions, NEW at, NEW fd,
         Enter(op, s, "none", at, fd), UNCHANGED <<ses, conn, fds, sock>>,
         op = "forward" => ses[s].style = "stream",
         op = "receive" => at = "await" /\ ~ses[s].error,
         op # "receive" => at = "connect"
  PROVE  DInv'
<1>1. \A t \in Sessions : Receives(t)' => Receives(t) /\ ses'[t].fd = ses[t].fd
  BY DEF Receives, CreatesFor
<1>2. \A t \in Sessions : \A b \in ConnsOf(t)' :
        /\ b \in ConnsOf(t) /\ conn'[b].fd = conn[b].fd
  BY DEF ConnsOf
<1>3. op \in AllOps
  BY DEF AllOps
<1> QED BY <1>1, <1>2, <1>3, EnterDialogue DEF SocksKept

\* Every other call of the library enters its dialogue, or is refused.
LEMMA CallsDialogue ==
  ASSUME OInv, OInv', DInv, NEW s \in Sessions,
         \/ sam3StreamForward(s) \/ sam3GenerateKeys(s) \/ sam3NameLookup(s)
         \/ sam3DatagramReceive(s) \/ sam3DatagramSend(s)
  PROVE  DInv'
<1>1. ses[s] \in Session /\ ses[s].style \in {"dgram", "stream"}
  BY DEF OInv, TypeOK, Session
<1>2. CASE sam3StreamForward(s)
  <2>1. CASE Refused("forward", s)
    BY <1>2, <2>1, RefusedDialogue DEF sam3StreamForward, AllOps
  <2>2. CASE /\ Enter("forward", s, "none", "connect", None)
             /\ UNCHANGED <<ses, conn, fds, sock>> /\ ses[s].style = "stream"
    BY <1>2, <2>2, BeginDialogue DEF sam3StreamForward
  <2> QED BY <1>2, <2>1, <2>2 DEF sam3StreamForward
<1>3. CASE sam3GenerateKeys(s) \/ sam3NameLookup(s)
  <2>1. CASE \E op \in {"keyGen", "lookup"} :
               Idle /\ Enter(op, s, "none", "connect", None) /\ UNCHANGED <<ses, conn, fds, sock>>
    BY <2>1, BeginDialogue
  <2>2. CASE Idle /\ Rejected(s)
    <3>1. Idle' /\ call.at # "crashed" /\ SocksKept
      BY <2>2 DEF Rejected, Idle, SocksKept
    <3>2. \A t \in Sessions : Receives(t)' => Receives(t) /\ ses'[t].fd = ses[t].fd
      BY <2>2 DEF Rejected, Receives, CreatesFor
    <3>3. \A t \in Sessions : \A c \in ConnsOf(t)' : c \in ConnsOf(t) /\ conn'[c].fd = conn[c].fd
      BY <2>2 DEF Rejected, ConnsOf
    <3> QED BY <2>2, <3>1, <3>2, <3>3, IdleDialogue
  <2> QED BY <1>3, <2>1, <2>2 DEF sam3GenerateKeys, sam3NameLookup, Once, Rejected
<1>4. CASE sam3DatagramReceive(s)
  <2>1. CASE Refused("receive", s)
    BY <1>4, <2>1, RefusedDialogue DEF sam3DatagramReceive, AllOps
  <2>2. CASE /\ Enter("receive", s, "none", "await", ses[s].fd)
             /\ UNCHANGED <<ses, conn, fds, sock>> /\ ses[s].style # "stream"
    <3>1. Idle /\ ~ses[s].error
      BY <1>4, <2>2 DEF sam3DatagramReceive, Usable
    <3> QED BY <2>2, <3>1, BeginDialogue
  <2> QED BY <1>4, <2>1, <2>2 DEF sam3DatagramReceive
<1>5. CASE sam3DatagramSend(s)
  <2>1. PICK sent \in BOOLEAN :
          /\ sent => ses[s].style # "stream"
          /\ Error(s, ~sent)
          /\ call' = [op |-> "send", s |-> s, c |-> "none", fd |-> None,
                      at |-> "idle", todo |-> <<>>, res |-> IF sent THEN "ok" ELSE "failed"]
    BY <1>5 DEF sam3DatagramSend
  <2>2. Idle /\ Idle' /\ UNCHANGED <<conn, fds, sock>> /\ Usable(s)
    BY <1>5, <2>1 DEF sam3DatagramSend, Idle
  <2>3. sent => Receives(s)
    BY <1>1, <2>1, <2>2 DEF Usable, Receives, CreatesFor
  <2> QED BY <2>1, <2>2, <2>3, ToldDialogue
<1> QED BY <1>2, <1>3, <1>4, <1>5

\* sam3CloseSession takes the session and its connections out of every dialogue.
LEMMA CloseSessionDialogue ==
  ASSUME OInv, OInv', DInv, NEW s \in Sessions, sam3CloseSession(s)
  PROVE  DInv'
<1>1. Idle /\ Idle' /\ call.at # "crashed"
  BY DEF sam3CloseSession, Closing, Idle
<1>2. /\ \A t \in Sessions : t # s => ses'[t] = ses[t]
      /\ ses'[s].mem = "closed" /\ ses'[s].connlist = <<>>
  BY ClosedType DEF sam3CloseSession, Release, OInv, TypeOK
<1>3. SocksKept
  BY DEF SocksKept, sam3CloseSession, Release, Close
<1>4. \A t \in Sessions : Receives(t)' => Receives(t) /\ ses'[t].fd = ses[t].fd
  BY <1>1, <1>2 DEF Receives, CreatesFor
<1>5. \A t \in Sessions : \A b \in ConnsOf(t)' :
        /\ b \in ConnsOf(t) /\ conn'[b].fd = conn[b].fd
  <2>1. ConnsOf(s)' = {}
    BY <1>2 DEF ConnsOf
  <2>2. ASSUME NEW t \in Sessions, t # s
        PROVE  /\ ConnsOf(t)' = ConnsOf(t) /\ ses'[t] = ses[t]
               /\ \A b \in ConnsOf(t) : b \in Conns /\ b \notin ConnsOf(s)
    <3>1. ConnsOf(t)' = ConnsOf(t) /\ ses'[t] = ses[t]
      BY <1>2, <2>2 DEF ConnsOf
    <3>2. /\ \A b \in ConnsOf(t) : b \in Conns /\ conn[b].ses = t
          /\ \A b \in ConnsOf(s) : conn[b].ses = s
      BY ListedConn
    <3> QED BY <2>2, <3>1, <3>2
  <2>3. \A b \in Conns : b \notin ConnsOf(s) => conn'[b] = conn[b]
    BY DEF sam3CloseSession, Release, FreeConns
  <2> QED BY <2>1, <2>2, <2>3
<1> QED BY <1>1, <1>3, <1>4, <1>5, IdleDialogue

\* sam3CloseConnection takes one connection out, and leaves the others alone.
LEMMA CloseConnectionDialogue ==
  ASSUME OInv, OInv', DInv, NEW c \in Conns, sam3CloseConnection(c)
  PROVE  DInv'
<1>1. Idle /\ Idle' /\ call.at # "crashed" /\ conn[c].mem = "live"
  BY DEF sam3CloseConnection, Closing, Idle
<1>2. PICK s \in Sessions : conn[c].ses = s
  BY <1>1 DEF OInv, Settled
<1>3. c \in ConnsOf(s)
  BY <1>1, <1>2 DEF OInv, ConnlistIntegrity
<1>4. PICK rest \in Seq(Conns) :
        /\ rest = Unlink(ses[s].connlist, c)
        /\ {rest[i] : i \in DOMAIN rest} = ConnsOf(s) \ {c}
  BY <1>3, UnlinkedConns DEF OInv
<1>5. ses' = [ses EXCEPT ![s] = [ses[s] EXCEPT !["connlist"] = rest]]
  BY <1>2, <1>4, Zenon DEF sam3CloseConnection
<1>6. /\ \A t \in Sessions : t # s => ses'[t] = ses[t]
      /\ ses'[s].connlist = rest /\ ses'[s].mem = ses[s].mem /\ ses'[s].fd = ses[s].fd
      /\ ses'[s].style = ses[s].style /\ ses'[s].error = ses[s].error
      /\ ses'[s].silent = ses[s].silent
  BY <1>4, <1>5 DEF OInv, TypeOK, Session
<1>7. SocksKept
  BY DEF SocksKept, sam3CloseConnection, Close
<1>8. \A t \in Sessions : Receives(t)' => Receives(t) /\ ses'[t].fd = ses[t].fd
  BY <1>1, <1>6 DEF Receives, CreatesFor
<1>9. \A t \in Sessions : \A b \in ConnsOf(t)' :
        /\ b \in ConnsOf(t) /\ conn'[b].fd = conn[b].fd
  <2>1. ConnsOf(s)' = {rest[i] : i \in DOMAIN rest}
    BY <1>6 DEF ConnsOf
  <2>2. ASSUME NEW t \in Sessions, t # s
        PROVE  ConnsOf(t)' = ConnsOf(t) /\ \A b \in ConnsOf(t) : b # c
    <3>1. ConnsOf(t)' = ConnsOf(t)
      BY <1>6, <2>2 DEF ConnsOf
    <3>2. \A b \in ConnsOf(t) : conn[b].ses = t
      BY ListedConn
    <3> QED BY <1>2, <2>2, <3>1, <3>2
  <2>3. \A b \in Conns : b # c => conn'[b] = conn[b]
    BY DEF sam3CloseConnection, FreeConns
  <2>4. \A t \in Sessions : \A b \in ConnsOf(t) : b \in Conns
    BY ListedConn
  <2> QED BY <1>4, <1>6, <2>1, <2>2, <2>3, <2>4
<1> QED BY <1>1, <1>7, <1>8, <1>9, IdleDialogue

-----------------------------------------------------------------------------
\* Reads, crashes and failures.

\* A read touches one socket.
LEMMA ReadSock ==
  ASSUME TypeOK, NEW d \in Fds, sock[d].inbox # <<>>,
         NEW left, left = [sock EXCEPT ![d].inbox = Tail(@)]
  PROVE  /\ Reads(sock[d], left[d])
         /\ \A e \in Fds : e # d => left[e] = sock[e]
<1> DEFINE r == [sock[d] EXCEPT !["inbox"] = Tail(sock[d].inbox)]
<1>1. left = [sock EXCEPT ![d] = r]
  BY Zenon
<1>2. Reads(sock[d], r)
  BY SocketFields DEF TypeOK, Reads
<1> HIDE DEF r
<1> QED BY <1>1, <1>2 DEF TypeOK

\* The application reads bytes from the socket of a connection, and leaves a stream.
LEMMA AppReceiveDialogue ==
  ASSUME OInv, DInv, NEW c \in Conns, AppReceive(c)
  PROVE  DInv'
<1> DEFINE d == conn[c].fd
<1>1. /\ Idle /\ conn[c].mem = "live" /\ sock[d].inbox # <<>>
      /\ sock' = [sock EXCEPT ![d].inbox = Tail(@)]
      /\ UNCHANGED <<ses, conn, call, fds>>
  BY DEF AppReceive
<1>2. d \in Fds /\ <<"conn", c>> \in Owners /\ OwnFd(<<"conn", c>>) = d
  BY <1>1 DEF OInv, Settled, OpensFor, Owners, OwnFd, ConnFd
<1> HIDE DEF d
<1>3. Reads(sock[d], sock'[d]) /\ \A e \in Fds : e # d => sock'[e] = sock[e]
  BY <1>1, <1>2, ReadSock DEF OInv
<1>4. CallDialogue' /\ CallFits'
  BY <1>1 DEF CallDialogue, CallFits, Idle
<1>5. ASSUME NEW t \in Sessions, Receives(t)
      PROVE  Dgrams(sock'[ses[t].fd], InPayload(t))
  <2>1. ses[t].fd \in Fds /\ <<"ses", t>> \in Owners /\ OwnFd(<<"ses", t>>) = ses[t].fd
    BY <1>5, ReceivingSession
  <2>2. <<"ses", t>> # <<"conn", c>>
    OBVIOUS
  <2>3. ses[t].fd # d
    BY <1>2, <2>1, <2>2 DEF OInv, Owned
  <2> QED BY <1>1, <1>3, <1>5, <2>1, <2>3 DEF DInv, SesDialogue, Idle
<1>6. SesDialogue'
  BY <1>1, <1>5 DEF SesDialogue, Receives, CreatesFor, InPayload, Idle
<1>7. ASSUME NEW t \in Sessions, NEW b \in ConnsOf(t)
      PROVE  Streams(sock'[conn[b].fd])
  <2>1. conn[b].fd \in Fds /\ Streams(sock[conn[b].fd])
    BY <1>7, ListedConn DEF DInv, ConnDialogue
  <2>2. sock[d] \in Socket
    BY <1>2 DEF OInv, TypeOK
  <2> QED BY <1>3, <2>1, <2>2, StreamsRead
<1>8. ConnDialogue'
  BY <1>1, <1>7 DEF ConnDialogue, ConnsOf
<1> QED BY <1>4, <1>6, <1>8 DEF DInv

\* A call that crashes the program ends every dialogue but that of the streams.
LEMMA CrashDialogue ==
  ASSUME OInv, OInv', DInv, ~Idle, NEW left, Crash(left),
         \A e \in Fds : e # call.fd => left[e] = sock[e]
  PROVE  DInv'
<1>1. /\ call'.at = "crashed" /\ call'.op = call.op /\ call'.s = call.s
      /\ sock' = left /\ UNCHANGED <<ses, conn, fds>>
  BY DEF Crash, OInv, TypeOK, CallRec
<1>2. CallDialogue' /\ SesDialogue' /\ CallFits'
  BY <1>1 DEF CallDialogue, SesDialogue, CallFits, DInv, Idle
<1>3. SocksKept
  BY <1>1 DEF SocksKept
<1>4. ConnDialogue'
  <2>1. ASSUME NEW t \in Sessions, NEW c \in ConnsOf(t)'
        PROVE  Streams(sock'[conn'[c].fd])
    <3>1. c \in ConnsOf(t)
      BY <1>1 DEF ConnsOf
    <3> QED BY <1>1, <1>3, <3>1, ConnsKept DEF DInv
  <2> QED BY <2>1 DEF ConnDialogue
<1> QED BY <1>2, <1>4 DEF DInv

\* A call that fails shuts its socket, or leaves the session with its error.
LEMMA FailDialogue ==
  ASSUME OInv, OInv', DInv, ~Idle, call.at # "crashed", NEW left \in [Fds -> Socket], Fail(left),
         \A e \in Fds : e # call.fd => left[e] = sock[e]
  PROVE  DInv'
<1>1. TypeOK /\ call.s \in Sessions /\ call.op \in AllOps
  BY DEF OInv, CallShape
<1>2. CASE Creating(call.op) /\ FailCreate(call.s, left)
  <2>1. PICK s \in Sessions : call.s = s
    BY <1>1
  <2>2. /\ Return("failed") /\ ses' = [ses EXCEPT ![s] = Closed]
        /\ FreeConns(ConnsOf(s)) /\ Close(HeldBy(s) \cup {call.fd}, left)
    BY <1>2, <2>1 DEF FailCreate
  <2>3. /\ \A t \in Sessions : t # s => ses'[t] = ses[t]
        /\ ses'[s].mem = "closed" /\ ses'[s].connlist = <<>>
    BY <1>1, <2>2, ClosedType DEF TypeOK
  <2>4. Idle'
    BY <1>1, <2>2, ReturnFields DEF Idle
  <2>5. SocksKept
    BY <2>2 DEF SocksKept, Close
  <2>6. \A t \in Sessions : Receives(t)' =>
          /\ Receives(t) /\ ses'[t].fd = ses[t].fd
          /\ Idle \/ call.op # "receive" \/ call.s # t
    BY <2>1, <2>3 DEF Receives, CreatesFor
  <2>7. \A t \in Sessions : \A b \in ConnsOf(t)' :
          /\ b \in ConnsOf(t) /\ conn'[b].fd = conn[b].fd
    <3>1. ses[s].connlist = <<>>
      BY <1>2, <2>1 DEF OInv, Holding
    <3>2. ConnsOf(s)' = {} /\ ConnsOf(s) = {}
      BY <2>3, <3>1 DEF ConnsOf
    <3>3. \A t \in Sessions : t # s => ConnsOf(t)' = ConnsOf(t) /\ ses'[t] = ses[t]
      BY <2>3 DEF ConnsOf
    <3>4. \A b \in Conns : conn'[b] = conn[b]
      BY <2>2, <3>2 DEF FreeConns
    <3>5. \A t \in Sessions : \A b \in ConnsOf(t) : b \in Conns
      BY ListedConn
    <3> QED BY <3>2, <3>3, <3>4, <3>5
  <2> QED BY <2>4, <2>5, <2>6, <2>7, IdleDialogue
<1>3. CASE Crash(left)
  BY <1>3, CrashDialogue
<1>4. CASE Error(call.s, TRUE) /\ Return("failed") /\ ~Creating(call.op)
  <2>1. Idle'
    BY <1>1, <1>4, ReturnFields DEF Idle
  <2>2. /\ \A t \in Sessions : SameButError(ses'[t], ses[t])
        /\ \A t \in Sessions : ses'[t].error = IF t = call.s THEN TRUE ELSE ses[t].error
    BY <1>1, <1>4, ErrorFields
  <2>3. SocksKept
    BY <1>4 DEF Fail, FailOpen, FailForward, FailOnce, FailReceive, Crash, SocksKept, Close
  <2>4. \A t \in Sessions : Receives(t)' =>
          /\ Receives(t) /\ ses'[t].fd = ses[t].fd
          /\ Idle \/ call.op # "receive" \/ call.s # t
    BY <1>4, <2>2 DEF Receives, CreatesFor, SameButError
  <2>5. \A b \in Conns : b # call.c => conn'[b] = conn[b]
    BY <1>4 DEF Fail, FailOpen, FailForward, FailOnce, FailReceive, Crash, FreeConns
  <2>6. \A t \in Sessions : \A b \in ConnsOf(t)' :
          /\ b \in ConnsOf(t) /\ conn'[b].fd = conn[b].fd
    <3>1. \A t \in Sessions : ConnsOf(t)' = ConnsOf(t) /\ ses'[t].silent = ses[t].silent
      BY <2>2 DEF ConnsOf, SameButError
    <3>2. \A t \in Sessions : \A b \in ConnsOf(t) : b \in Conns /\ b # call.c
      BY ListedConn, ZenonT(60)
    <3> QED BY <2>5, <3>1, <3>2
  <2> QED BY <2>1, <2>3, <2>4, <2>6, IdleDialogue
<1> QED BY <1>2, <1>3, <1>4 DEF Fail, FailOpen, FailForward, FailOnce, FailReceive, Creating

-----------------------------------------------------------------------------
\* Connecting and sending.

\* A call that is connected starts on a quiet socket.
LEMMA ConnectDialogue ==
  ASSUME OInv, OInv', DInv, Connect
  PROVE  DInv'
<1>1. TypeOK /\ ~Idle /\ call.at = "connect" /\ call.op # "receive" /\ sock \in [Fds -> Socket]
  BY DEF OInv, Connect, Idle, CallShape, TypeOK
<1>2. CASE Fail(sock)
  BY <1>1, <1>2, FailDialogue
<1>3. CASE /\ Free # {} /\ fds' = [fds EXCEPT ![LowestFree] = "lib"]
           /\ sock' = [sock EXCEPT ![LowestFree] = NewSocket]
           /\ call' = [call EXCEPT !.at = "send", !.fd = LowestFree]
           /\ UNCHANGED <<ses, conn>>
  <2>1. PICK d \in Free : d = LowestFree
    BY <1>1, <1>3, LeastFd
  <2>2. /\ d \in Fds /\ fds[d] = "free" /\ sock' = [sock EXCEPT ![d] = NewSocket]
    BY <1>3, <2>1 DEF Free
  <2>3. /\ call'.at = "send" /\ call'.fd = d /\ call'.op = call.op /\ call'.s = call.s
        /\ call'.todo = call.todo
    BY <1>1, <1>3, <2>1 DEF TypeOK, CallRec
  <2>4. CallDialogue' /\ CallFits'
    <3>1. Quiet(sock'[d])
      BY <1>1, <2>2 DEF Quiet, NewSocket
    <3> QED BY <1>1, <1>3, <2>3, <3>1 DEF CallDialogue, CallFits, DInv, Idle
  <2>5. SocksKept
    BY <1>1, <2>2 DEF SocksKept
  <2>6. \A t \in Sessions : Receives(t)' =>
          /\ Receives(t) /\ ses'[t].fd = ses[t].fd /\ ~InPayload(t)'
          /\ Idle \/ call.op # "receive" \/ call.s # t
    BY <1>1, <1>3, <2>3 DEF Receives, CreatesFor, InPayload, Idle
  <2>7. SesDialogue'
    BY <1>1, <2>5, <2>6, SesKept DEF DInv
  <2>8. ConnDialogue'
    <3>1. ASSUME NEW t \in Sessions, NEW c \in ConnsOf(t)'
          PROVE  Streams(sock'[conn'[c].fd])
      <4>1. c \in ConnsOf(t)
        BY <1>3 DEF ConnsOf
      <4> QED BY <1>3, <2>5, <4>1, ConnsKept DEF DInv
    <3> QED BY <3>1 DEF ConnDialogue
  <2> QED BY <2>4, <2>7, <2>8 DEF DInv
<1> QED BY <1>2, <1>3 DEF Connect

\* The command is on its way, or the bridge is not there any more.
LEMMA CommandSent ==
  ASSUME NEW q \in Socket, Quiet(q), NEW k \in Commands, NEW style \in {"dgram", "stream"},
         NEW r, IF q.hang = "open" THEN r = [[q EXCEPT !["req"] = k] EXCEPT !["style"] = style]
                ELSE r = q
  PROVE  Awaits(k, r, style)
<1>1. CASE q.hang = "open"
  <2>1. r.req = k /\ r.style = style /\ r.inbox = q.inbox
    BY <1>1 DEF Socket
  <2> QED BY <2>1 DEF Awaits, Quiet
<1>2. CASE q.hang # "open"
  BY <1>2 DEF Awaits
<1> QED BY <1>1, <1>2

\* A command is sent on a quiet socket, and its answer is what is awaited next.
LEMMA SendDialogue ==
  ASSUME OInv, OInv', DInv, Send
  PROVE  DInv'
<1>1. /\ TypeOK /\ ~Idle /\ call.at = "send" /\ call.op # "receive" /\ sock \in [Fds -> Socket]
      /\ call.fd \in Fds /\ Head(call.todo) \in Commands /\ Head(call.todo) # "acceptA"
      /\ call.op \in AllOps
  BY ItemFacts DEF OInv, Send, Idle, CallShape, TypeOK
<1>2. PICK s \in Sessions : call.s = s
  BY <1>1 DEF OInv, CallShape
<1> DEFINE d == call.fd
           k == Head(call.todo)
<1>3. Quiet(sock[d]) /\ sock[d] \in Socket /\ ses[s].style \in {"dgram", "stream"}
  BY <1>1 DEF DInv, CallDialogue, TypeOK, Session
<1>4. CASE Fail(sock)
  BY <1>1, <1>4, FailDialogue
<1>5. CASE ~Fail(sock)
  <2>1. /\ call' = [call EXCEPT !.at = "await"] /\ UNCHANGED <<conn, fds>>
        /\ \/ /\ UNCHANGED ses
              /\ sock' = IF sock[d].hang = "open"
                           THEN [sock EXCEPT ![d].req = k, ![d].style = ses[s].style]
                           ELSE sock
           \/ /\ UNCHANGED sock /\ Error(s, TRUE) /\ sock[d].hang # "open" /\ k = "keyGen"
    BY <1>2, <1>5 DEF Send
  <2>2. /\ call'.at = "await" /\ call'.op = call.op /\ call'.s = s /\ call'.fd = d
        /\ call'.todo = call.todo /\ ~Idle'
    BY <1>1, <1>2, <2>1 DEF TypeOK, CallRec, Idle
  <2>3. /\ \A t \in Sessions : /\ ses'[t].mem = ses[t].mem /\ ses'[t].style = ses[t].style
                               /\ ses'[t].fd = ses[t].fd /\ ses'[t].silent = ses[t].silent
                               /\ ses'[t].connlist = ses[t].connlist
                               /\ ses[t].error => ses'[t].error
    <3>1. CASE UNCHANGED ses
      BY <3>1
    <3>2. CASE Error(s, TRUE)
      BY <1>1, <3>2, ErrorFields DEF SameButError
    <3> QED BY <2>1, <3>1, <3>2
  <2> DEFINE r == sock'[d]
  <2>4. /\ IF sock[d].hang = "open"
             THEN r = [[sock[d] EXCEPT !["req"] = k] EXCEPT !["style"] = ses[s].style]
             ELSE r = sock[d]
        /\ \A e \in Fds : e # d => sock'[e] = sock[e]
    <3>1. CASE UNCHANGED sock /\ sock[d].hang # "open"
      BY <3>1
    <3>2. CASE /\ sock[d].hang = "open"
               /\ sock' = [sock EXCEPT ![d].req = k, ![d].style = ses[s].style]
      <4>1. sock' = [sock EXCEPT ![d] = [[sock[d] EXCEPT !["req"] = k] EXCEPT !["style"] = ses[s].style]]
        BY <1>1, <3>2
      <4> QED BY <1>1, <3>2, <4>1
    <3> QED BY <2>1, <3>1, <3>2
  <2>5. Awaits(k, r, ses[s].style)
    <3> HIDE DEF d, k, r
    <3>1. k \in Commands
      BY <1>1 DEF k
    <3> QED BY <1>3, <2>4, <3>1, CommandSent
  <2>6. CallDialogue'
    BY <1>1, <2>2, <2>3, <2>5 DEF CallDialogue
  <2>7. CallFits'
    <3>1. call.op \in {"connect", "accept", "forward"} => ses[s].style = "stream"
      BY <1>1, <1>2 DEF DInv, CallFits
    <3> QED BY <1>1, <2>2, <2>3, <3>1 DEF CallFits
  <2>8. SocksKept
    BY <1>1, <2>4 DEF SocksKept
  <2>9. \A t \in Sessions : Receives(t)' =>
          /\ Receives(t) /\ ses'[t].fd = ses[t].fd /\ ~InPayload(t)'
          /\ Idle \/ call.op # "receive" \/ call.s # t
    BY <1>1, <1>2, <2>2, <2>3 DEF Receives, CreatesFor, InPayload
  <2>10. SesDialogue'
    BY <1>1, <2>8, <2>9, SesKept DEF DInv
  <2>11. ConnDialogue'
    <3>1. ASSUME NEW t \in Sessions, NEW c \in ConnsOf(t)'
          PROVE  Streams(sock'[conn'[c].fd])
      <4>1. c \in ConnsOf(t)
        BY <2>3 DEF ConnsOf
      <4> QED BY <2>1, <2>3, <2>8, <4>1, ConnsKept DEF DInv
    <3> QED BY <3>1 DEF ConnDialogue
  <2> QED BY <2>6, <2>7, <2>10, <2>11 DEF DInv
<1> QED BY <1>4, <1>5

-----------------------------------------------------------------------------
\* Awaiting: the first item on the socket of the call.

\* A receive in progress is on a session of datagrams, on its socket.
LEMMA ReceiveInProgress ==
  ASSUME OInv, DInv, call.at = "await", call.op = "receive"
  PROVE  /\ ~Idle /\ call.s \in Sessions /\ Receives(call.s) /\ ses[call.s].fd = call.fd
         /\ Dgrams(sock[call.fd], Head(call.todo) = "payload")
<1>1. ~Idle /\ call.at # "crashed"
  BY DEF Idle
<1>2. /\ call.s \in Sessions /\ ses[call.s].mem = "live" /\ ses[call.s].style = "dgram"
      /\ ses[call.s].fd = call.fd /\ ~ses[call.s].error
  BY <1>1 DEF OInv, CallShape, Holding, DInv, CallFits
<1>3. Receives(call.s)
  BY <1>2 DEF Receives, CreatesFor, Creating
<1>4. InPayload(call.s) = (Head(call.todo) = "payload")
  BY <1>1 DEF InPayload
<1>5. Dgrams(sock[ses[call.s].fd], InPayload(call.s))
  BY <1>1, <1>2, <1>3 DEF DInv, SesDialogue
<1> QED BY <1>1, <1>2, <1>3, <1>4, <1>5

\* What an await reads is the first item on the socket of the call.
LEMMA AwaitReads ==
  ASSUME OInv, call.at = "await", sock[call.fd].inbox # <<>>,
         NEW left, left = [sock EXCEPT ![call.fd].inbox = Tail(@)]
  PROVE  /\ TypeOK /\ ~Idle /\ call.fd \in Fds /\ call.s \in Sessions /\ call.op \in AllOps
         /\ call.todo \in Remaining(call.op) /\ Ends(call.op, call.todo)
         /\ sock[call.fd] \in Socket /\ left \in [Fds -> Socket]
         /\ Reads(sock[call.fd], left[call.fd])
         /\ \A e \in Fds : e # call.fd => left[e] = sock[e]
         /\ Head(sock[call.fd].inbox) = sock[call.fd].inbox[1]
<1>1. /\ TypeOK /\ ~Idle /\ call.fd \in Fds /\ call.s \in Sessions /\ call.op \in AllOps
      /\ call.todo \in Remaining(call.op)
  BY DEF OInv, CallShape, Idle
<1>2. Ends(call.op, call.todo)
  BY <1>1, Scripts
<1>3. sock[call.fd] \in Socket
  BY <1>1 DEF TypeOK
<1>4. left \in [Fds -> Socket]
  BY AwaitLeft
<1>5. Reads(sock[call.fd], left[call.fd]) /\ \A e \in Fds : e # call.fd => left[e] = sock[e]
  BY <1>1, ReadSock
<1>6. Head(sock[call.fd].inbox) = sock[call.fd].inbox[1]
  OBVIOUS
<1> QED BY <1>1, <1>2, <1>3, <1>4, <1>5, <1>6

\* Half of a line read: the call waits for the rest.
LEMMA PartDialogue ==
  ASSUME OInv, OInv', DInv, call.at = "await", sock[call.fd].inbox # <<>>,
         Head(sock[call.fd].inbox) = Part,
         sock' = [sock EXCEPT ![call.fd].inbox = Tail(@)], UNCHANGED <<ses, conn, call, fds>>
  PROVE  DInv'
<1> DEFINE q == sock[call.fd]
<1>1. /\ ~Idle /\ call.fd \in Fds /\ q \in Socket /\ Reads(q, sock'[call.fd])
      /\ \A e \in Fds : e # call.fd => sock'[e] = sock[e]
      /\ q.inbox[1] = Part /\ Ends(call.op, call.todo)
  BY AwaitReads
<1>2. Part # Data /\ Part.to # "dgram" /\ Part.to # "acceptA"
  BY ItemFacts
<1>3. call.op # "receive"
  <2>1. ASSUME call.op = "receive" PROVE FALSE
    <3>1. Dgrams(q, Head(call.todo) = "payload")
      BY <2>1, ReceiveInProgress
    <3>2. IF Head(call.todo) = "payload" THEN q.inbox[1] = Data ELSE q.inbox[1].to = "dgram"
      <4>1. \A p \in BOOLEAN : Dgrams(q, p) => IF p THEN q.inbox[1] = Data ELSE q.inbox[1].to = "dgram"
        BY <1>1, DgramRead
      <4>2. (Head(call.todo) = "payload") \in BOOLEAN
        OBVIOUS
      <4> HIDE DEF q
      <4> QED BY <3>1, <4>1, <4>2
    <3> QED BY <1>1, <1>2, <3>2
  <2> QED BY <2>1
<1>4. CallDialogue'
  <2>1. CASE Head(call.todo) = "acceptA"
    <3>1. AwaitsPeer(q)
      BY <1>3, <2>1 DEF DInv, CallDialogue
    <3> QED BY <1>1, <1>2, <3>1, PeerRead
  <2>2. CASE Head(call.todo) # "acceptA"
    <3>1. Head(call.todo) \in Commands /\ Awaits(Head(call.todo), q, ses[call.s].style)
      BY <1>1, <1>3, <2>2 DEF Ends, Lines, DInv, CallDialogue
    <3>2. Awaits(Head(call.todo), sock'[call.fd], ses[call.s].style)
      BY <1>1, <3>1, PartRead
    <3> QED BY <2>2, <3>2 DEF CallDialogue
  <2> QED BY <2>1, <2>2
<1>5. CallFits'
  BY DEF DInv, CallFits, Idle
<1>6. SocksKept
  BY <1>1 DEF SocksKept
<1>7. SesDialogue'
  <2>1. \A t \in Sessions : Receives(t)' =>
          /\ Receives(t) /\ ses'[t].fd = ses[t].fd /\ ~InPayload(t)'
          /\ Idle \/ call.op # "receive" \/ call.s # t
    BY <1>3 DEF Receives, CreatesFor, InPayload, Idle
  <2> QED BY <1>6, <2>1, SesKept DEF DInv
<1>8. ConnDialogue'
  <2>1. ASSUME NEW t \in Sessions, NEW c \in ConnsOf(t)'
        PROVE  Streams(sock'[conn'[c].fd])
    <3>1. c \in ConnsOf(t)
      BY DEF ConnsOf
    <3> QED BY <1>6, <3>1, ConnsKept DEF DInv
  <2> QED BY <2>1 DEF ConnDialogue
<1> QED BY <1>4, <1>5, <1>7, <1>8 DEF DInv

-----------------------------------------------------------------------------
\* A reply that is hoped for, and not the last.

\* What is left on the socket after a line that was hoped for.
LEMMA AcceptedLine ==
  ASSUME OInv, DInv, call.at = "await", call.op # "receive", sock[call.fd].inbox # <<>>,
         Head(sock[call.fd].inbox) # Part, Accepted(Head(sock[call.fd].inbox)),
         NEW left, left = [sock EXCEPT ![call.fd].inbox = Tail(@)],
         NEW k, k = Head(call.todo)
  PROVE  /\ k \in {"connect", "acceptA"} => Streams(left[call.fd])
         /\ k = "accept" => AwaitsPeer(left[call.fd])
         /\ k = "nameMe" /\ ses[call.s].style # "stream" => Dgrams(left[call.fd], FALSE)
         /\ k \notin {"connect", "accept", "nameMe", "acceptA"} => Quiet(left[call.fd])
<1> DEFINE q == sock[call.fd]
           r == left[call.fd]
           style == ses[call.s].style
<1>1. /\ q \in Socket /\ Reads(q, r) /\ q.inbox # <<>> /\ Head(q.inbox) = q.inbox[1]
      /\ Ends(call.op, call.todo)
  BY AwaitReads
<1>2. k \in Commands \cup {"acceptA"}
  BY <1>1 DEF Ends, Lines
<1>3. CASE k = "acceptA"
  <2>1. AwaitsPeer(q)
    BY <1>3 DEF DInv, CallDialogue
  <2>2. Streams(r)
    BY <1>1, <2>1, PeerRead
  <2> QED BY <1>3, <2>2
<1>4. CASE k # "acceptA"
  <2>1. k \in Commands /\ Awaits(k, q, style)
    BY <1>2, <1>4 DEF DInv, CallDialogue
  <2>2. k = "nameMe" => q.inbox[1] = [to |-> "nameMe", is |-> "ok"]
    <3>1. q.inbox[1] \in Item
      BY <1>1, ReadItems, ElementOfSeq
    <3>2. k = "nameMe" => Good(q.inbox[1], "nameMe")
      BY <1>1 DEF Accepted
    <3>3. Good(q.inbox[1], "nameMe") => q.inbox[1].to = "nameMe" /\ q.inbox[1].is = "ok"
      BY DEF Good
    <3>4. q.inbox[1].to = "nameMe" => q.inbox[1] \in Reply
      BY <3>1, ItemFacts DEF Item, Part, Data
    <3>5. q.inbox[1] \in Reply /\ q.inbox[1].to = "nameMe" /\ q.inbox[1].is = "ok" =>
            q.inbox[1] = [to |-> "nameMe", is |-> "ok"]
      BY DEF Reply
    <3> QED BY <3>2, <3>3, <3>4, <3>5
  <2>3. k = "nameMe" => q.inbox[1].to # "dgram"
    BY <2>2
  <2>4. Answered(k, q.req, style, q.inbox)
    BY <1>1, <2>1, <2>3, ReplyRead
  <2> HIDE DEF q, r, style
  <2>5. k = "connect" => Streams(r)
    BY <1>1, <2>4, ConnectRead
  <2>6. k = "accept" => AwaitsPeer(r)
    BY <1>1, <2>4, AcceptRead
  <2>7. k = "nameMe" /\ style # "stream" => Dgrams(r, FALSE)
    BY <1>1, <2>2, <2>4, NameMeRead
  <2>8. k \notin {"connect", "accept", "nameMe"} => Quiet(r)
    BY <1>1, <2>1, <2>4, QuietRead
  <2> QED BY <1>4, <2>5, <2>6, <2>7, <2>8 DEF q, r, style
<1> QED BY <1>3, <1>4

\* The socket of a dialogue goes into its struct.
LEMMA HoldFields ==
  ASSUME OInv, ~Idle, call.fd \in Fds, Hold, NEW s \in Sessions, call.s = s
  PROVE  /\ \A t \in Sessions :
              /\ ses'[t].mem = ses[t].mem /\ ses'[t].style = ses[t].style
              /\ ses'[t].error = ses[t].error /\ ses'[t].silent = ses[t].silent
              /\ ses'[t].connlist = ses[t].connlist
              /\ (t # s \/ ~Creating(call.op)) => ses'[t].fd = ses[t].fd
         /\ \A c \in Conns : c # call.c => conn'[c] = conn[c]
<1>1. TypeOK /\ ses[s] \in Session /\ call.op \in AllOps
  BY DEF OInv, TypeOK, CallShape
<1>2. CASE UNCHANGED <<ses, conn>>
  BY <1>2
<1>3. CASE conn' = [conn EXCEPT ![call.c].fd = call.fd] /\ UNCHANGED ses
  BY <1>1, <1>3 DEF TypeOK
<1>4. CASE /\ call.op = "forward" /\ ses' = [ses EXCEPT ![s].fwd_fd = call.fd]
           /\ UNCHANGED conn
  <2>1. ses' = [ses EXCEPT ![s] = [ses[s] EXCEPT !["fwd_fd"] = call.fd]]
    BY <1>4, Zenon
  <2> QED BY <1>1, <1>4, <2>1 DEF TypeOK, Session
<1>5. CASE /\ call.op \notin {"connect", "accept", "forward", "keyGen", "lookup"}
           /\ InHandshake
           /\ ses' = [ses EXCEPT ![s].fd = call.fd] /\ UNCHANGED conn
  <2>1. ses' = [ses EXCEPT ![s] = [ses[s] EXCEPT !["fd"] = call.fd]]
    BY <1>5, Zenon
  <2>2. Creating(call.op)
    <3>1. call.op # "receive"
      BY <1>1, <1>5, Scripts DEF OInv, CallShape, Ends, InHandshake
    <3> QED BY <1>1, <1>5, <3>1 DEF AllOps, Creating
  <2> QED BY <1>1, <1>5, <2>1, <2>2 DEF TypeOK, Session
<1> QED BY <1>2, <1>3, <1>4, <1>5 DEF Hold, InHandshake

\* The lines that others follow in the scripts, and those that end them.
ScriptOrder(op, r) ==
  /\ Tail(r) # <<>> /\ op = "receive" => Head(r) = "dgram" /\ Head(Tail(r)) = "payload"
  /\ Tail(r) # <<>> /\ op # "receive" =>
       /\ Head(r) \in {"hello", "create", "accept"}
       /\ Head(Tail(r)) \in {"create", "nameMe", "keyGen", "nameRes", "connect", "accept",
                             "forward", "acceptA"}
       /\ Head(r) = "accept" <=> Head(Tail(r)) = "acceptA"
  /\ Tail(r) = <<>> =>
       /\ op = "connect" => Head(r) = "connect"
       /\ op = "accept" => Head(r) = "acceptA"
       /\ op = "receive" => Head(r) = "payload"
       /\ Creating(op) => Head(r) = "nameMe"

\* The replies a call hopes for come in the order of its script.
LEMMA ScriptOrders ==
  ASSUME NEW op \in AllOps, NEW r \in Remaining(op)
  PROVE  ScriptOrder(op, r)
<1>1. CASE op = "connect"
  <2>1. CASE r = <<"hello", "connect">>
    BY <1>1, <2>1 DEF ScriptOrder
  <2>2. CASE r = <<"connect">>
    BY <1>1, <2>2 DEF ScriptOrder, Creating
  <2> QED BY <1>1, <2>1, <2>2 DEF Remaining
<1>2. CASE op = "accept"
  <2>1. CASE r = <<"hello", "accept", "acceptA">>
    BY <1>2, <2>1 DEF ScriptOrder
  <2>2. CASE r = <<"accept", "acceptA">>
    BY <1>2, <2>2 DEF ScriptOrder
  <2>3. CASE r = <<"acceptA">>
    BY <1>2, <2>3 DEF ScriptOrder, Creating
  <2> QED BY <1>2, <2>1, <2>2, <2>3 DEF Remaining
<1>3. CASE op = "forward"
  <2>1. CASE r = <<"hello", "forward">>
    BY <1>3, <2>1 DEF ScriptOrder
  <2>2. CASE r = <<"forward">>
    BY <1>3, <2>2 DEF ScriptOrder, Creating
  <2> QED BY <1>3, <2>1, <2>2 DEF Remaining
<1>4. CASE op = "keyGen"
  <2>1. CASE r = <<"hello", "keyGen">>
    BY <1>4, <2>1 DEF ScriptOrder
  <2>2. CASE r = <<"keyGen">>
    BY <1>4, <2>2 DEF ScriptOrder, Creating
  <2> QED BY <1>4, <2>1, <2>2 DEF Remaining
<1>5. CASE op = "lookup"
  <2>1. CASE r = <<"hello", "nameRes">>
    BY <1>5, <2>1 DEF ScriptOrder
  <2>2. CASE r = <<"nameRes">>
    BY <1>5, <2>2 DEF ScriptOrder, Creating
  <2> QED BY <1>5, <2>1, <2>2 DEF Remaining
<1>6. CASE op = "receive"
  <2>1. CASE r = <<"dgram", "payload">>
    BY <1>6, <2>1 DEF ScriptOrder
  <2>2. CASE r = <<"payload">>
    BY <1>6, <2>2 DEF ScriptOrder, Creating
  <2> QED BY <1>6, <2>1, <2>2 DEF Remaining
<1>7. CASE Creating(op)
  <2>1. CASE r = <<"hello", "create", "nameMe">>
    BY <1>7, <2>1 DEF ScriptOrder, Creating
  <2>2. CASE r = <<"create", "nameMe">>
    BY <1>7, <2>2 DEF ScriptOrder, Creating
  <2>3. CASE r = <<"nameMe">>
    BY <1>7, <2>3 DEF ScriptOrder, Creating
  <2> QED BY <1>7, <2>1, <2>2, <2>3 DEF Remaining, Creating
<1> QED BY <1>1, <1>2, <1>3, <1>4, <1>5, <1>6, <1>7 DEF AllOps, Creating

\* The connection that a call opens is in no list yet.
LEMMA ListedElsewhere ==
  ASSUME OInv, ~Idle
  PROVE  \A t \in Sessions : \A b \in ConnsOf(t) : b \in Conns /\ b # call.c
BY ListedConn

\* A reply that is hoped for, and not the last: the next command is sent on a quiet
\* socket, or the peer is awaited, or the payload.
LEMMA NextDialogue ==
  ASSUME OInv, OInv', DInv, call.at = "await", sock[call.fd].inbox # <<>>,
         NEW left, left = [sock EXCEPT ![call.fd].inbox = Tail(@)],
         Head(sock[call.fd].inbox) # Part, Accepted(Head(sock[call.fd].inbox)),
         Head(call.todo) # "payload", Advance(left), Tail(call.todo) # <<>>
  PROVE  DInv'
<1> DEFINE d == call.fd
           rest == Tail(call.todo)
<1>1. /\ ~Idle /\ d \in Fds /\ call.s \in Sessions /\ call.op \in AllOps
      /\ call.todo \in Remaining(call.op) /\ Ends(call.op, call.todo)
      /\ sock[d] \in Socket /\ Reads(sock[d], left[d]) /\ TypeOK
      /\ \A e \in Fds : e # d => left[e] = sock[e]
      /\ ScriptOrder(call.op, call.todo)
  BY AwaitReads, ScriptOrders
<1>2. PICK s \in Sessions : call.s = s
  BY <1>1
<1>3. /\ call'.op = call.op /\ call'.s = s /\ call'.fd = d /\ call'.todo = rest
      /\ call'.at = IF Head(rest) \in Commands THEN "send" ELSE "await"
      /\ ~Idle' /\ Hold /\ sock' = left /\ UNCHANGED fds
  BY <1>1, <1>2 DEF Advance, TypeOK, CallRec, Idle
<1>4. /\ \A t \in Sessions :
           /\ ses'[t].mem = ses[t].mem /\ ses'[t].style = ses[t].style
           /\ ses'[t].error = ses[t].error /\ ses'[t].silent = ses[t].silent
           /\ ses'[t].connlist = ses[t].connlist
           /\ (t # s \/ ~Creating(call.op)) => ses'[t].fd = ses[t].fd
      /\ \A c \in Conns : c # call.c => conn'[c] = conn[c]
  BY <1>1, <1>2, <1>3, HoldFields
<1>5. SocksKept
  BY <1>1, <1>3 DEF SocksKept
<1>6. call.op # "receive" => CallDialogue'
  <2> SUFFICES ASSUME call.op # "receive" PROVE CallDialogue'
    OBVIOUS
  <2>1. /\ Head(call.todo) \in {"hello", "create", "accept"}
        /\ Head(rest) \in Commands \cup {"acceptA"}
        /\ Head(call.todo) = "accept" <=> Head(rest) = "acceptA"
    BY <1>1 DEF ScriptOrder, Commands
  <2>2. /\ Head(call.todo) = "accept" => AwaitsPeer(left[d])
        /\ Head(call.todo) # "accept" => Quiet(left[d])
    BY <2>1, AcceptedLine
  <2>3. "acceptA" \notin Commands
    BY ItemFacts
  <2>4. Head(rest) = "acceptA" => call'.at = "await" /\ AwaitsPeer(sock'[d])
    BY <1>3, <2>1, <2>2, <2>3
  <2>5. Head(rest) # "acceptA" => call'.at = "send" /\ Quiet(sock'[d])
    BY <1>3, <2>1, <2>2
  <2> HIDE DEF rest
  <2> QED BY <1>3, <2>4, <2>5 DEF CallDialogue
<1>7. CallDialogue'
  <2>1. CASE call.op = "receive"
    <3>1. Head(rest) = "payload"
      BY <1>1, <2>1 DEF ScriptOrder
    <3>2. call'.at = "await"
      BY <1>3, <3>1, ItemFacts
    <3> QED BY <1>3, <2>1, <3>2 DEF CallDialogue
  <2> QED BY <1>6, <2>1
<1>8. CallFits'
  BY <1>1, <1>2, <1>3, <1>4 DEF DInv, CallFits, Idle
<1>9. ASSUME NEW t \in Sessions, Receives(t)'
      PROVE  Dgrams(sock'[ses'[t].fd], InPayload(t)')
  <2>1. Receives(t) /\ ses'[t].fd = ses[t].fd
    BY <1>1, <1>2, <1>3, <1>4, <1>9 DEF Receives, CreatesFor
  <2>2. CASE call.op = "receive" /\ t = s
    <3>1. Head(rest) = "payload" /\ Head(call.todo) = "dgram"
      BY <1>1, <2>2 DEF ScriptOrder
    <3>2. ses[s].fd = d /\ Dgrams(sock[d], FALSE)
      <4>1. (Head(call.todo) = "payload") = FALSE
        OBVIOUS
      <4>2. Dgrams(sock[d], Head(call.todo) = "payload") /\ ses[s].fd = d
        BY <1>2, <2>2, ReceiveInProgress
      <4> QED BY <4>1, <4>2
    <3>3. Dgrams(left[d], TRUE)
      <4>1. \A p \in BOOLEAN : Dgrams(sock[d], p) => Dgrams(left[d], ~p)
        BY <1>1, DgramRead
      <4>2. Dgrams(left[d], ~FALSE)
        BY <3>2, <4>1
      <4> QED BY <4>2
    <3>4. InPayload(t)' = TRUE
      BY <1>3, <2>2, <3>1 DEF InPayload
    <3> QED BY <1>3, <2>1, <2>2, <3>2, <3>3, <3>4
  <2>3. CASE call.op # "receive" \/ t # s
    <3>1. ~InPayload(t)'
      BY <1>3, <2>3 DEF InPayload
    <3>2. call.op # "receive" \/ call.s # t
      BY <1>2, <2>3
    <3> QED BY <1>5, <1>9, <2>1, <3>1, <3>2, SessionKept DEF DInv
  <2> QED BY <2>2, <2>3
<1>10. SesDialogue'
  BY <1>9 DEF SesDialogue
<1>11. ConnDialogue'
  <2>1. \A t \in Sessions : \A b \in ConnsOf(t) : b \in Conns /\ b # call.c
    BY <1>1, ListedElsewhere
  <2>2. ASSUME NEW t \in Sessions, NEW c \in ConnsOf(t)'
        PROVE  Streams(sock'[conn'[c].fd])
    <3>1. c \in ConnsOf(t)
      BY <1>4 DEF ConnsOf
    <3>2. c \in Conns /\ c # call.c
      BY <2>1, <3>1
    <3> QED BY <1>4, <1>5, <3>1, <3>2, ConnsKept DEF DInv
  <2> QED BY <2>2 DEF ConnDialogue
<1> QED BY <1>7, <1>8, <1>10, <1>11 DEF DInv

-----------------------------------------------------------------------------
\* The end of sam3StreamConnect and sam3StreamAccept.

\* A connection that is linked, with the message of sam3StreamConnect or
\* sam3StreamAccept.
LEMMA LinkFields ==
  ASSUME TypeOK, NEW s \in Sessions, NEW c \in Conns,
         \A i \in DOMAIN ses[s].connlist : ses[s].connlist[i] # c,
         \A i, j \in DOMAIN ses[s].connlist :
           ses[s].connlist[i] = ses[s].connlist[j] => i = j,
         NEW e, ses' = [ses EXCEPT ![s].connlist = <<c>> \o @, ![s].error = e]
  PROVE  /\ ses'[s].mem = ses[s].mem /\ ses'[s].style = ses[s].style
         /\ ses'[s].fd = ses[s].fd /\ ses'[s].silent = ses[s].silent
         /\ \A t \in Sessions : t # s => ses'[t] = ses[t]
         /\ ConnsOf(s)' = ConnsOf(s) \cup {c}
<1> DEFINE list == ses[s].connlist
           longer == <<c>> \o list
           q == [[ses[s] EXCEPT !["connlist"] = longer] EXCEPT !["error"] = e]
<1>1. ses[s] \in Session /\ list \in Seq(Conns) /\ ConnsOf(s) = {list[i] : i \in DOMAIN list}
  BY DEF TypeOK, Session, ConnsOf
<1>2. ses' = [ses EXCEPT ![s] = q]
  BY Zenon DEF TypeOK
<1>3. {longer[i] : i \in DOMAIN longer} = ConnsOf(s) \cup {c}
  <2>1. \A i \in DOMAIN list : list[i] # c
    OBVIOUS
  <2>2. \A i, j \in DOMAIN list : list[i] = list[j] => i = j
    OBVIOUS
  <2> HIDE DEF list
  <2>3. {longer[i] : i \in DOMAIN longer} = {list[i] : i \in DOMAIN list} \cup {c}
    BY <1>1, <2>1, <2>2, Linked
  <2> QED BY <1>1, <2>3
<1>4. /\ q.mem = ses[s].mem /\ q.style = ses[s].style /\ q.fd = ses[s].fd
      /\ q.silent = ses[s].silent /\ q.connlist = longer
  <2> HIDE DEF list, longer
  <2> QED BY <1>1 DEF Session
<1> HIDE DEF q, list, longer
<1>5. ses'[s] = q /\ \A t \in Sessions : t # s => ses'[t] = ses[t]
  BY <1>2 DEF TypeOK
<1>6. ConnsOf(s)' = {longer[i] : i \in DOMAIN longer}
  <2>1. ConnsOf(s)' = {ses'[s].connlist[i] : i \in DOMAIN ses'[s].connlist}
    BY DEF ConnsOf
  <2>2. ses'[s].connlist = longer
    BY <1>4, <1>5
  <2> QED BY <2>1, <2>2, Zenon
<1> QED BY <1>3, <1>4, <1>5, <1>6

\* A call that ends well and gives its socket to a connection.
LEMMA OpenedDialogue ==
  ASSUME OInv, OInv', DInv, call.at = "await", call.fd \in Fds,
         call.op \in {"connect", "accept"},
         ~InHandshake, NEW left, Streams(left[call.fd]), NEW s \in Sessions, call.s = s,
         Succeed(s, left), \A e \in Fds : e # call.fd => left[e] = sock[e]
  PROVE  DInv'
<1>1. /\ TypeOK /\ ~Idle /\ call.op \in AllOps /\ call.c \in Conns /\ conn[call.c].fd = call.fd
      /\ conn[call.c].mem = "live" /\ conn[call.c].ses = s
      /\ ses[s] \in Session /\ call.op \notin {"keyGen", "lookup", "receive"} /\ ~Creating(call.op)
  BY DEF OInv, Idle, Holding, Held, TypeOK, AllOps, Creating
<1>2. PICK e : /\ Return("ok") /\ UNCHANGED <<conn, fds>> /\ sock' = left
               /\ ses' = [ses EXCEPT ![s].connlist = <<call.c>> \o @, ![s].error = e]
  <2>1. /\ Return("ok") /\ UNCHANGED <<conn, fds>> /\ sock' = left
        /\ ses' = [ses EXCEPT ![s].connlist = <<call.c>> \o @,
                              ![s].error = @ /\ call.op = "connect" /\ ses[s].silent]
    BY <1>1 DEF Succeed, Creating
  <2> DEFINE old == [ses EXCEPT ![s].connlist = <<call.c>> \o @][s].error
             e == old /\ call.op = "connect" /\ ses[s].silent
  <2>2. ses' = [ses EXCEPT ![s].connlist = <<call.c>> \o @, ![s].error = e]
    BY <2>1, Zenon DEF TypeOK
  <2> HIDE DEF e
  <2> QED BY <2>1, <2>2
<1>3. Idle'
  BY <1>1, <1>2, ReturnFields DEF Idle
<1>4. PICK c \in Conns : c = call.c
  BY <1>1
<1>5. /\ ses'[s].mem = ses[s].mem /\ ses'[s].style = ses[s].style
      /\ ses'[s].fd = ses[s].fd /\ ses'[s].silent = ses[s].silent
      /\ \A t \in Sessions : t # s => ses'[t] = ses[t]
      /\ ConnsOf(s)' = ConnsOf(s) \cup {c}
  <2>1. \A i \in DOMAIN ses[s].connlist : ses[s].connlist[i] # c
    BY <1>1, <1>4 DEF OInv, ConnlistIntegrity, ConnsOf
  <2>2. \A i, j \in DOMAIN ses[s].connlist :
          ses[s].connlist[i] = ses[s].connlist[j] => i = j
    BY DEF OInv, ConnlistIntegrity
  <2>3. ses' = [ses EXCEPT ![s].connlist = <<c>> \o @, ![s].error = e]
    BY <1>2, <1>4
  <2> QED BY <1>1, <2>1, <2>2, <2>3, LinkFields
<1>6. SocksKept
  BY <1>1, <1>2 DEF SocksKept
<1>7. CallDialogue' /\ CallFits'
  BY <1>3 DEF CallDialogue, CallFits, Idle
<1>8. ses[s].style = "stream"
  BY <1>1 DEF DInv, CallFits
<1>9. SesDialogue'
  <2>1. \A t \in Sessions : Receives(t)' =>
          /\ Receives(t) /\ ses'[t].fd = ses[t].fd /\ ~InPayload(t)'
          /\ Idle \/ call.op # "receive" \/ call.s # t
    BY <1>1, <1>3, <1>5, <1>8 DEF Receives, CreatesFor, InPayload
  <2> QED BY <1>6, <2>1, SesKept DEF DInv
<1>10. ConnDialogue'
  <2>1. ASSUME NEW t \in Sessions, NEW b \in ConnsOf(t)'
        PROVE  Streams(sock'[conn'[b].fd])
    <3>1. CASE t = s /\ b = c
      <4>1. Streams(sock'[conn'[b].fd])
        BY <1>1, <1>2, <1>4, <3>1
      <4> QED BY <4>1
    <3>2. CASE ~(t = s /\ b = c)
      <4>1. b \in ConnsOf(t) /\ ses'[t].silent = ses[t].silent
        <5>1. CASE t = s
          BY <1>5, <2>1, <3>2, <5>1
        <5>2. CASE t # s
          BY <1>5, <2>1, <5>2 DEF ConnsOf
        <5> QED BY <5>1, <5>2
      <4> QED BY <1>2, <1>6, <2>1, <4>1, ConnsKept DEF DInv
    <3> QED BY <3>1, <3>2
  <2> QED BY <2>1 DEF ConnDialogue
<1> QED BY <1>7, <1>9, <1>10 DEF DInv

-----------------------------------------------------------------------------
\* The end of the other calls.

\* What a call that ends well, and opens no connection, writes into sessions.
LEMMA EndFields ==
  ASSUME OInv, ~Idle, call.op \notin {"connect", "accept"}, NEW s \in Sessions, call.s = s,
         NEW left, Succeed(s, left)
  PROVE  \A t \in Sessions :
           /\ ses'[t].mem = ses[t].mem /\ ses'[t].style = ses[t].style
           /\ ses'[t].fd = ses[t].fd /\ ses'[t].connlist = ses[t].connlist
           /\ t # s => ses'[t].error = ses[t].error
<1>1. TypeOK /\ ses[s] \in Session /\ call.op \in AllOps
  BY DEF OInv, TypeOK, CallShape
<1>2. \/ Error(s, FALSE) \/ UNCHANGED ses
      \/ ses' = [ses EXCEPT ![s].silent = TRUE]
  BY DEF Succeed
<1>3. CASE UNCHANGED ses
  BY <1>3
<1>4. CASE Error(s, FALSE)
  BY <1>1, <1>4, ErrorFields DEF SameButError
<1>5. CASE ses' = [ses EXCEPT ![s].silent = TRUE]
  <2>1. ses' = [ses EXCEPT ![s] = [ses[s] EXCEPT !["silent"] = TRUE]]
    BY <1>5, Zenon
  <2> QED BY <1>1, <2>1 DEF TypeOK, Session
<1> QED BY <1>2, <1>3, <1>4, <1>5

\* The last reply of a call: the sessions and connections it leaves behind are in
\* step with the bridge.
LEMMA SucceedDialogue ==
  ASSUME OInv, OInv', DInv, call.at = "await", sock[call.fd].inbox # <<>>,
         NEW left, left = [sock EXCEPT ![call.fd].inbox = Tail(@)],
         \/ Head(call.todo) = "payload"
         \/ Head(sock[call.fd].inbox) # Part /\ Accepted(Head(sock[call.fd].inbox)),
         Advance(left), Tail(call.todo) = <<>>
  PROVE  DInv'
<1> DEFINE d == call.fd
<1>1. /\ ~Idle /\ d \in Fds /\ call.s \in Sessions /\ call.op \in AllOps
      /\ sock[d] \in Socket /\ Reads(sock[d], left[d]) /\ TypeOK
      /\ \A e \in Fds : e # d => left[e] = sock[e]
      /\ Ends(call.op, call.todo) /\ ScriptOrder(call.op, call.todo)
  BY AwaitReads, ScriptOrders
<1>2. PICK s \in Sessions : call.s = s
  BY <1>1
<1>3. Succeed(s, left) /\ Return("ok") /\ UNCHANGED conn
  BY <1>2 DEF Advance, Succeed
<1>4. Idle'
  BY <1>1, <1>3, ReturnFields DEF Idle
<1>5. CASE call.op \in {"connect", "accept"}
  <2>1. Head(call.todo) \in {"connect", "acceptA"}
    BY <1>1, <1>5 DEF ScriptOrder
  <2>2. Streams(left[d])
    BY <1>5, <2>1, AcceptedLine
  <2>3. ~InHandshake
    BY <2>1 DEF InHandshake
  <2> QED BY <1>1, <1>2, <1>3, <1>5, <2>2, <2>3, OpenedDialogue
<1>6. CASE call.op \notin {"connect", "accept"}
  <2>1. \A t \in Sessions :
          /\ ses'[t].mem = ses[t].mem /\ ses'[t].style = ses[t].style
          /\ ses'[t].fd = ses[t].fd /\ ses'[t].connlist = ses[t].connlist
          /\ t # s => ses'[t].error = ses[t].error
    BY <1>1, <1>2, <1>3, <1>6, EndFields
  <2>2. SocksKept
    BY <1>1, <1>3 DEF SocksKept, Succeed, Close
  <2>3. CallDialogue' /\ CallFits'
    BY <1>4 DEF CallDialogue, CallFits, Idle
  <2>4. \A t \in Sessions : InPayload(t)' = FALSE
    BY <1>4 DEF InPayload
  <2>5. ASSUME Receives(s)'
        PROVE  Dgrams(sock'[ses'[s].fd], FALSE)
    <3>1. ses[s].mem = "live" /\ ses[s].style = "dgram"
      BY <2>1, <2>5 DEF Receives
    <3>2. call.op \in {"createDgram", "receive"}
      BY <1>1, <1>2, <1>6, <3>1 DEF OInv, Holding, DInv, CallFits, AllOps, Creating, Style
    <3>3. sock' = left
      BY <1>3, <3>2 DEF Succeed
    <3>4. CASE call.op = "createDgram"
      <4>1. Head(call.todo) = "nameMe" /\ ~InHandshake
        BY <1>1, <3>4 DEF ScriptOrder, Creating, InHandshake
      <4>2. Dgrams(left[d], FALSE)
        BY <1>2, <3>1, <3>4, <4>1, AcceptedLine
      <4>3. ses[s].fd = d
        BY <1>1, <1>2, <3>4, <4>1 DEF OInv, Holding, Held, Creating
      <4> QED BY <2>1, <3>3, <4>2, <4>3
    <3>5. CASE call.op = "receive"
      <4>1. Dgrams(sock[d], Head(call.todo) = "payload") /\ ses[s].fd = d
        BY <1>2, <3>5, ReceiveInProgress
      <4>2. (Head(call.todo) = "payload") = TRUE
        BY <1>1, <3>5 DEF ScriptOrder
      <4>3. \A p \in BOOLEAN : Dgrams(sock[d], p) => Dgrams(left[d], ~p)
        BY <1>1, DgramRead
      <4>4. Dgrams(sock[d], TRUE)
        BY <4>1, <4>2
      <4>5. Dgrams(left[d], ~TRUE)
        BY <4>3, <4>4
      <4> QED BY <2>1, <3>3, <4>1, <4>5
    <3> QED BY <3>2, <3>4, <3>5
  <2>6. ASSUME NEW t \in Sessions, t # s, Receives(t)'
        PROVE  Dgrams(sock'[ses'[t].fd], InPayload(t)')
    <3>1. Receives(t)
      BY <1>2, <2>1, <2>6 DEF Receives, CreatesFor
    <3> QED BY <1>2, <2>1, <2>2, <2>4, <2>6, <3>1, SessionKept DEF DInv
  <2>7. SesDialogue'
    BY <2>4, <2>5, <2>6 DEF SesDialogue
  <2>8. ConnDialogue'
    <3>1. ASSUME NEW t \in Sessions, NEW c \in ConnsOf(t)'
          PROVE  Streams(sock'[conn'[c].fd])
      <4>1. c \in ConnsOf(t)
        BY <2>1 DEF ConnsOf
      <4> QED BY <1>3, <2>1, <2>2, <4>1, ConnsKept DEF DInv
    <3> QED BY <3>1 DEF ConnDialogue
  <2> QED BY <2>3, <2>7, <2>8 DEF DInv
<1> QED BY <1>5, <1>6

\* Whatever a call reads, the dialogue goes on, or the call ends and its socket is shut
\* or in step.
LEMMA AwaitDialogue ==
  ASSUME OInv, OInv', DInv, Await
  PROVE  DInv'
<1> DEFINE q == sock[call.fd]
           left == [sock EXCEPT ![call.fd].inbox = Tail(@)]
<1>1. call.at = "await" /\ TypeOK /\ ~Idle /\ sock \in [Fds -> Socket]
  BY DEF Await, OInv, Idle, TypeOK
<1>2. q.inbox # <<>> => left \in [Fds -> Socket] /\ \A e \in Fds : e # call.fd => left[e] = sock[e]
  BY <1>1, AwaitReads
<1>3. CASE q.inbox # <<>> /\ Head(q.inbox) = Part /\ sock' = left /\ UNCHANGED <<ses, conn, call, fds>>
  BY <1>1, <1>3, PartDialogue
<1>4. CASE /\ q.inbox # <<>> /\ Advance(left)
           /\ \/ Head(call.todo) = "payload"
              \/ Head(q.inbox) # Part /\ Accepted(Head(q.inbox)) /\ Head(call.todo) # "payload"
  <2>1. CASE Tail(call.todo) = <<>>
    BY <1>1, <1>4, <2>1, SucceedDialogue
  <2>2. CASE Tail(call.todo) # <<>>
    <3>1. Head(call.todo) # "payload"
      <4>1. ScriptOrder(call.op, call.todo)
        BY <1>1, ScriptOrders DEF OInv, CallShape
      <4> QED BY <2>2, <4>1 DEF ScriptOrder
    <3> QED BY <1>1, <1>4, <2>2, <3>1, NextDialogue
  <2> QED BY <2>1, <2>2
<1>5. CASE q.inbox # <<>> /\ Crash(left)
  BY <1>1, <1>2, <1>5, CrashDialogue
<1>6. CASE q.inbox # <<>> /\ Fail(left)
  BY <1>1, <1>2, <1>6, FailDialogue
<1>7. CASE Fail(sock)
  BY <1>1, <1>7, FailDialogue
<1>8. CASE UNCHANGED vars
  BY <1>8 DEF vars, DInv, CallDialogue, SesDialogue, ConnDialogue, CallFits, Idle,
              Receives, CreatesFor, InPayload, ConnsOf
<1> QED BY <1>3, <1>4, <1>5, <1>6, <1>7, <1>8 DEF Await

-----------------------------------------------------------------------------
\* The invariant and the theorems.

\* At the start there is no call, no session and no connection.
LEMMA InitDInv == Init => DInv
<1> SUFFICES ASSUME Init PROVE DInv
  OBVIOUS
<1>1. Idle /\ call.at # "send" /\ call.at # "await"
  BY DEF Init, Idle
<1>2. \A s \in Sessions : ses[s].mem = "none" /\ ses[s].connlist = <<>>
  <2>1. [Closed EXCEPT !.mem = "none"].mem = "none" /\ [Closed EXCEPT !.mem = "none"].connlist = <<>>
    BY ClosedType DEF Session
  <2> QED BY <2>1 DEF Init
<1>3. CallDialogue /\ CallFits
  BY <1>1 DEF CallDialogue, CallFits
<1>4. SesDialogue
  BY <1>2 DEF SesDialogue, Receives
<1>5. ConnDialogue
  <2>1. \A s \in Sessions : ConnsOf(s) = {}
    BY <1>2 DEF ConnsOf
  <2> QED BY <2>1 DEF ConnDialogue
<1> QED BY <1>3, <1>4, <1>5 DEF DInv

\* Every step keeps the dialogue invariant.
LEMMA NextDInv == OInv /\ OInv' /\ DInv /\ [Next]_vars => DInv'
<1> SUFFICES ASSUME OInv, OInv', DInv, [Next]_vars PROVE DInv'
  OBVIOUS
<1>1. CASE Calls
  <2>1. PICK s \in Sessions :
          \/ \E op \in AllOps : sam3CreateSession(op, s)
          \/ \E c \in Conns, op \in AllOps : OpenConnection(op, s, c)
          \/ sam3StreamForward(s) \/ sam3GenerateKeys(s) \/ sam3NameLookup(s)
          \/ sam3DatagramReceive(s) \/ sam3DatagramSend(s)
          \/ sam3CloseSession(s)
    BY <1>1 DEF Calls
  <2> QED BY <2>1, CreateDialogue, OpenDialogue, CallsDialogue, CloseSessionDialogue
<1>2. CASE ConnCalls
  BY <1>2, CloseConnectionDialogue, AppReceiveDialogue DEF ConnCalls
<1>3. CASE CallStep
  BY <1>3, ConnectDialogue, SendDialogue, AwaitDialogue DEF CallStep
<1>4. CASE Bridge
  BY <1>4, BridgeDialogue
<1>5. CASE UNCHANGED vars
  BY <1>5 DEF vars, DInv, CallDialogue, SesDialogue, ConnDialogue, CallFits, Idle,
              Receives, CreatesFor, InPayload, ConnsOf
<1> QED BY <1>1, <1>2, <1>3, <1>4, <1>5 DEF Next, Crashed

\* The line a call reads is for the command it has sent, or is a part, or is no reply at
\* all, or is the datagram that overtook the reply to NAMING LOOKUP.
LEMMA LineForCall ==
  ASSUME OInv, DInv, call.at = "await", sock[call.fd].inbox # <<>>,
         NEW k, k = Head(call.todo), NEW r, r = Head(sock[call.fd].inbox)
  PROVE  IF k = "payload" THEN r = Data
         ELSE \/ r = Part
              \/ r.to \in {k, "other"}
              \/ "early" \in Faults /\ k = "nameMe" /\ r.to = "dgram"
<1> DEFINE q == sock[call.fd]
<1>1. /\ q \in Socket /\ Ends(call.op, call.todo) /\ ScriptOrder(call.op, call.todo)
      /\ r = q.inbox[1] /\ q.inbox # <<>> /\ call.s \in Sessions
      /\ q.inbox \in Seq(Item) /\ Len(q.inbox) \in Nat /\ Len(q.inbox) >= 1
  <2>1. /\ q \in Socket /\ Ends(call.op, call.todo) /\ call.op \in AllOps /\ call.s \in Sessions
        /\ call.todo \in Remaining(call.op)
    BY Scripts DEF OInv, CallShape, Idle, TypeOK
  <2>2. ScriptOrder(call.op, call.todo)
    BY <2>1, ScriptOrders
  <2>3. q.inbox \in Seq(Item)
    BY <2>1, SocketFields
  <2>4. Len(q.inbox) \in Nat /\ Len(q.inbox) >= 1
    BY <2>3, EmptySeq, LenProperties
  <2> QED BY <2>1, <2>2, <2>3, <2>4
<1>2. CASE call.op = "receive"
  <2>1. Dgrams(q, k = "payload")
    BY <1>2, ReceiveInProgress
  <2>2. k \in {"dgram", "payload"}
    BY <1>1, <1>2 DEF Ends
  <2>3. IF (1 % 2 = 0) <=> (k = "payload") THEN r.to = "dgram" ELSE r = Data
    BY <1>1, <2>1 DEF Dgrams
  <2> QED BY <2>2, <2>3, ItemFacts
<1>3. CASE call.op # "receive" /\ k = "acceptA"
  <2>1. AwaitsPeer(q)
    BY <1>3 DEF DInv, CallDialogue
  <2> QED BY <1>1, <1>3, <2>1 DEF AwaitsPeer
<1>4. CASE call.op # "receive" /\ k # "acceptA"
  <2>0. k # "payload"
    BY <1>1, <1>4 DEF Ends
  <2>1. Awaits(k, q, ses[call.s].style)
    BY <1>4 DEF DInv, CallDialogue
  <2>2. CASE q.hang # "open" /\ Quiet(q)
    BY <1>1, <2>2 DEF Quiet
  <2>3. CASE q.inbox = <<Part>>
    <3>1. <<Part>>[1] = Part
      OBVIOUS
    <3> QED BY <1>1, <2>0, <2>3, <3>1
  <2>4. CASE \/ Answered(k, q.req, ses[call.s].style, q.inbox)
             \/ q.inbox[1] = Part
    BY <1>1, <2>0, <2>4 DEF Answered
  <2>5. CASE Overtaken(k, q.inbox)
    BY <1>1, <2>0, <2>5 DEF Overtaken
  <2> HIDE DEF q
  <2> QED BY <1>1, <2>1, <2>2, <2>3, <2>4, <2>5 DEF Awaits
<1> QED BY <1>2, <1>3, <1>4

\* InStep is what the dialogue invariant says at the moment of a send and of a read.
LEMMA DialogueInStep == OInv /\ DInv => InStep
<1> SUFFICES ASSUME OInv, DInv PROVE InStep
  OBVIOUS
<1>1. call.at = "send" => sock[call.fd].req = "none" /\ sock[call.fd].inbox = <<>>
  BY DEF DInv, CallDialogue, Quiet
<1>2. ASSUME NEW s \in Sessions, NEW c \in ConnsOf(s), NEW i \in DOMAIN sock[conn[c].fd].inbox
      PROVE  sock[conn[c].fd].inbox[i] = Data
  <2>1. conn[c].fd \in Fds
    BY ListedConn
  <2>2. sock[conn[c].fd].inbox \in Seq(Item)
    BY <2>1, SocketFields DEF OInv, TypeOK
  <2>3. i \in 1..Len(sock[conn[c].fd].inbox)
    BY <2>2, LenProperties
  <2> QED BY <2>3 DEF DInv, ConnDialogue, Streams
<1>3. \A k, r : k = "nameMe" /\ r.to = "dgram" => ~Good(r, k)
  BY DEF Good
<1> QED BY <1>1, <1>2, <1>3, LineForCall DEF InStep

\* In every reachable state each socket carries what the call, the session or the
\* connection that owns it is going to read, and no reply to another command: the
\* library sends a command only when the last is answered, on a socket of its own
\* (src/libsam3/libsam3.c: sam3HandshakeInternal, sam3CreateSession,
\* sam3StreamConnect, sam3StreamAccept, sam3StreamForward, sam3DatagramReceive).
THEOREM Dialogue == Spec => []DInv
<1>1. OInv /\ DInv /\ [Next]_vars => OInv' /\ DInv'
  BY NextOInv, NextDInv
<1>2. Init => OInv /\ DInv
  BY InitOInv, InitDInv
<1>3. Spec => [](OInv /\ DInv)
  BY <1>1, <1>2, PTL DEF Spec
<1> QED BY <1>3, PTL

\* For any sessions, connections, descriptors, faults and calls: a command is sent when
\* nothing is owed and nothing unread, a reply is read by the call whose command it
\* answers (but for a datagram that overtakes the answer to NAMING LOOKUP), and the
\* application gets the bytes of its stream and no line of the bridge.
THEOREM SyncInStep == Spec => []InStep
BY Ownership, Dialogue, DialogueInStep, PTL

=============================================================================
