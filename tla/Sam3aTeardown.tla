--------------------------- MODULE Sam3aTeardown ---------------------------
(***************************************************************************)
(* How the library ends things: disconnecting, failing and closing a       *)
(* session or a connection (libsam3a.c:768-814, 1118-1140, 1722-1754).     *)
(* Every one of these calls the application in the middle of its work.     *)
(***************************************************************************)
EXTENDS Sam3aState

\* Mutants: the send queue is counted down where it is dropped; the processors
\* stay installed.
QuietUnderflows(s) == [s EXCEPT !.procR = "null", !.procW = "null",
                                !.aio = "null", !.check = "null",
                                !.out = @ - 1]
QuietKeepsProcessors(s) == [s EXCEPT !.aio = "null", !.check = "null",
                                     !.out = 0]

\* What both disconnect functions do first, on an active and on an already
\* cancelled object alike: no processors, no buffer.  (The C struct keeps its
\* reply checker, which only a processor would call.)
Quiet(s) == [s EXCEPT !.procR = "null", !.procW = "null", !.aio = "null",
                      !.check = "null", !.out = 0]

\* Mutant: the test of conn->cancelled is missing.
connDisconnectAgain(c) ==
  /\ At("connDisconnect", c)
  /\ Shutdown(c, obj[c])
  /\ Run(c, Cancelled(Quiet(obj[c])),
         IF obj[c].callDisc THEN <<F("cbDisconnected", c)>> ELSE <<>>)
  /\ UNCHANGED <<connlist, rds, wrs>>

connDisconnect(c) ==
  /\ At("connDisconnect", c)
  /\ IF IsActive(obj[c])
       THEN /\ Shutdown(c, obj[c])
            /\ Run(c, Cancelled(Quiet(obj[c])),
                   IF obj[c].callDisc THEN <<F("cbDisconnected", c)>> ELSE <<>>)
       ELSE UNCHANGED <<desc, net>> /\ Run(c, Quiet(obj[c]), <<>>)
  /\ UNCHANGED <<connlist, rds, wrs>>

\* Mutant: without the test of sam3aIsActiveSession.
sesDisconnectAgain ==
  /\ At("sesDisconnect", Ses)
  /\ Shutdown(Ses, obj[Ses])
  /\ Run(Ses, Cancelled(Quiet(obj[Ses])), <<F("cascade", Ses)>>)
  /\ UNCHANGED <<connlist, rds, wrs>>

\* sesDisconnect up to its loop over the connections
sesDisconnect ==
  /\ At("sesDisconnect", Ses)
  /\ IF IsActive(obj[Ses])
       THEN /\ Shutdown(Ses, obj[Ses])
            /\ Run(Ses, Cancelled(Quiet(obj[Ses])),
                   <<F("cascade", Ses)>>)
       ELSE UNCHANGED <<desc, net>> /\ Run(Ses, Quiet(obj[Ses]), <<>>)
  /\ UNCHANGED <<connlist, rds, wrs>>

\* Mutant: only the head of the list is disconnected.
sesDisconnectLoopOnce(o) ==
  /\ At("cascade", o)
  /\ Run(Ses, obj[Ses],
         IF o = Ses /\ connlist # <<>>
           THEN <<F("connDisconnect", Head(connlist)), F("cascade", Head(connlist))>>
         ELSE IF obj[Ses].callDisc THEN <<F("cbDisconnected", Ses)>> ELSE <<>>)
  /\ UNCHANGED <<connlist, rds, wrs, desc, net>>

\* c = c->next is read after the callbacks of c have returned
sesDisconnectLoop(o) ==
  /\ At("cascade", o)
  /\ Run(Ses, obj[Ses],
         IF HasNext(o)
           THEN <<F("connDisconnect", Successor(o)), F("cascade", Successor(o))>>
         ELSE IF obj[Ses].callDisc THEN <<F("cbDisconnected", Ses)>>
         ELSE <<>>)
  /\ UNCHANGED <<connlist, rds, wrs, desc, net>>

-----------------------------------------------------------------------------
(* sam3aCloseConnection and sam3aCloseSession, in three pieces each: the   *)
(* cancel, cbDestroy, and what follows the callback.                       *)

\* Mutant: the connection is not cancelled first.
CloseConnFramesNoCancel(c) == <<F("destroyConn", c)>>

CloseConnFrames(c) == <<F("connDisconnect", c), F("destroyConn", c)>>

\* Mutant: freed before cbDestroy.
destroyConnFreesFirst(c) ==
  /\ At("destroyConn", c)
  /\ Run(c, obj[c], <<F("freeConn", c), F("cbDestroy", c)>>)
  /\ UNCHANGED <<connlist, rds, wrs, desc, net>>

destroyConn(c) ==
  /\ At("destroyConn", c)
  /\ Run(c, obj[c], <<F("cbDestroy", c), F("freeConn", c)>>)
  /\ UNCHANGED <<connlist, rds, wrs, desc, net>>

\* Mutant: ses->connlist = c->next wherever c stands.
UnlinkTruncates(c) == SubSeq(connlist, Pos(c) + 1, Len(connlist))

Unlink(c) == IF Listed(c)
               THEN SubSeq(connlist, 1, Pos(c) - 1)
                    \o SubSeq(connlist, Pos(c) + 1, Len(connlist))
               ELSE connlist

\* unlink from ses->connlist, memset, free
freeConn(c) ==
  /\ At("freeConn", c)
  /\ Run(c, Zeroed, <<>>)
  /\ connlist' = Unlink(c)
  /\ UNCHANGED <<rds, wrs, desc, net>>

\* Mutant: if (ses->connlist != NULL), and the function returns.
closeSessionNoLoop ==
  /\ At("closeSession", Ses)
  /\ Run(Ses, obj[Ses],
         IF connlist # <<>> THEN CloseConnFrames(Head(connlist))
         ELSE <<F("cbDestroy", Ses), F("freeSession", Ses)>>)
  /\ UNCHANGED <<connlist, rds, wrs, desc, net>>

\* while (ses->connlist != NULL) sam3aCloseConnection(ses->connlist), then
\* cbDestroy unless a close inside a callback has zeroed ses->cb already
closeSession ==
  /\ At("closeSession", Ses)
  /\ Run(Ses, obj[Ses],
         IF connlist # <<>>
           THEN CloseConnFrames(Head(connlist)) \o <<F("closeSession", Ses)>>
         ELSE IF obj[Ses].mem = "live"
           THEN <<F("cbDestroy", Ses), F("freeSession", Ses)>>
         ELSE <<F("freeSession", Ses)>>)
  /\ UNCHANGED <<connlist, rds, wrs, desc, net>>

freeSession ==
  /\ At("freeSession", Ses)
  /\ Run(Ses, Zeroed, <<>>)
  /\ UNCHANGED <<connlist, rds, wrs, desc, net>>

Teardown == \/ sesDisconnect \/ closeSession \/ freeSession
            \/ \E o \in Obj : sesDisconnectLoop(o)
            \/ \E c \in Conns : connDisconnect(c) \/ destroyConn(c)
                                \/ freeConn(c)
=============================================================================
