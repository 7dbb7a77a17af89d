------------------------------ MODULE SamBridge ------------------------------
(***************************************************************************)
(* The SAM bridge and the TCP connections to it, as far as the library can *)
(* tell: external to src/, modelled from the commands libsam3a.c sends and *)
(* the replies its checkers expect.  The bridge answers one command at a   *)
(* time, and every socket separately; Faults says how it may misbehave.    *)
(***************************************************************************)
EXTENDS Sam3aState

\* Nothing more arrives on a socket after shutdown() or after the peer left.
\* What arrives while library code runs is seen as arriving when it next gives
\* control away: in a callback, or when it has returned.
Open(o) == AppRuns /\ desc[o] = "open" /\ net[o].hang = "open"

BridgeChanges(o, s) ==
  /\ net' = [net EXCEPT ![o] = s]
  /\ UNCHANGED <<obj, connlist, stack, told, rds, wrs, desc>>

\* The TCP handshake that sam3aConnect started ends.
TcpConnect(o) ==
  /\ Open(o) /\ net[o].link = "connecting"
  /\ \E l \in {"up"} \cup (IF "refuse" \in Faults THEN {"refused"} ELSE {}) :
       BridgeChanges(o, [net[o] EXCEPT !.link = l])

Answer(o) ==
  /\ Open(o) /\ net[o].req \in Commands
  /\ \E r \in Replies(net[o].req) :
       BridgeChanges(o, [net[o] EXCEPT !.req = NextRequest(@, r),
                                       !.half = FALSE,
                                       !.inbox = Append(@, r)])

\* A peer connects to the pending accept: the bridge sends its destination.
PeerArrives(o) ==
  /\ Open(o) /\ net[o].req = "peer"
  /\ \E is \in {"ok"} \cup (IF "garbage" \in Faults THEN {"bad"} ELSE {}) :
       BridgeChanges(o, [net[o] EXCEPT
                           !.req = "stream",
                           !.half = FALSE,
                           !.inbox = Append(@, [to |-> "acceptA", is |-> is])])

\* The first TCP segment of a line that is cut in two.
AnswerPart(o) ==
  /\ "part" \in Faults
  /\ Open(o) /\ net[o].req \in Commands \cup {"peer"} /\ ~net[o].half
  /\ BridgeChanges(o, [net[o] EXCEPT !.half = TRUE,
                                     !.inbox = Append(@, Part)])

SendData(o) ==
  /\ Open(o) /\ net[o].req = "stream" /\ Len(net[o].inbox) < MaxIn
  /\ BridgeChanges(o, [net[o] EXCEPT !.inbox = Append(@, Data)])

Hangup(o) ==
  /\ Open(o) /\ net[o].link = "up"
  /\ \E h \in (IF "hangup" \in Faults THEN {"fin"} ELSE {})
              \cup (IF "reset" \in Faults THEN {"rst"} ELSE {}) :
       BridgeChanges(o, [net[o] EXCEPT !.hang = h])

\* The steps of a bridge that answers, and those it may leave out.
Responds(o) == TcpConnect(o) \/ Answer(o)

Bridge == \E o \in Obj : \/ TcpConnect(o) \/ Answer(o) \/ AnswerPart(o)
                         \/ PeerArrives(o) \/ SendData(o) \/ Hangup(o)
=============================================================================
