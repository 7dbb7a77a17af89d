--------------------------- MODULE Sam3Properties ---------------------------
(***************************************************************************)
(* What makes the synchronous library correct, over the model of Sam3.     *)
(***************************************************************************)
EXTENDS Sam3

-----------------------------------------------------------------------------
(* Safety.                                                                 *)

\* The socket of the call in progress that no struct holds yet, or ever will.
InHand == IF Idle \/ call.fd = None \/ call.op = "receive" THEN {}
          ELSE IF call.op \in {"keyGen", "lookup"} \/ InHandshake THEN {call.fd}
          ELSE {}

Owners == {<<"ses", s>> : s \in Sessions} \cup {<<"fwd", s>> : s \in Sessions}
          \cup {<<"conn", c>> : c \in Conns} \cup {<<"call", "call">>}

Owns(w, d) == \/ w[1] = "ses"  /\ ses[w[2]].mem = "live" /\ ses[w[2]].fd = d
              \/ w[1] = "fwd"  /\ ses[w[2]].mem = "live" /\ ses[w[2]].fwd_fd = d
              \/ w[1] = "conn" /\ conn[w[2]].mem = "live" /\ conn[w[2]].fd = d
              \/ w[1] = "call" /\ d \in InHand

\* No descriptor is lost and none is closed under a struct that still uses it:
\* each socket of the library belongs to one session, forward, connection or
\* call in progress, and each of these has an open socket, whatever failed at
\* whatever step (libsam3.c:137-160, 704-719, 826-869, 970-974, 1018-1043).
OneOwner ==
  \A d \in Fds : Cardinality({w \in Owners : Owns(w, d)})
                   = IF fds[d] = "lib" THEN 1 ELSE 0

\* The library never closes a descriptor it has not opened
\* (libsam3.c:201-208, 860-866).
OnlyOwnFds == fds[Stdin] = "app"

\* connlist of a session holds each of its connections once
\* (libsam3.c:836-845, 856-860, 1035-1036, 1103-1104).
ConnlistIntegrity ==
  \A s \in Sessions :
    /\ \A i, j \in DOMAIN ses[s].connlist :
         ses[s].connlist[i] = ses[s].connlist[j] => i = j
    /\ ConnsOf(s) = {c \in Conns : /\ conn[c].mem = "live" /\ conn[c].ses = s
                                   /\ ~(~Idle /\ call.c = c)}

\* The library and the bridge stay in step: a command is sent when nothing is
\* owed and nothing unread; what is read then is a line that answers the command
\* (well or badly, or a stray line of the bridge), and never stream data, a
\* datagram's payload or a reply to an earlier command; a payload is read where
\* the header before it says so; and no line of the bridge is left for the
\* application to read as stream data (libsam3.c:307-349).  The header of a
\* datagram that comes before NAMING REPLY stands in its place, and is turned
\* away: the session is given up (libsam3.c:947-958).
InStep ==
  /\ call.at = "send" => /\ sock[call.fd].req = "none"
                         /\ sock[call.fd].inbox = <<>>
  /\ call.at = "await" /\ sock[call.fd].inbox # <<>> =>
       LET r == Head(sock[call.fd].inbox)
           k == Head(call.todo)
       IN IF k = "payload" THEN r = Data
          ELSE \/ r = Part
               \/ r.to \in {k, "other"}
               \/ "early" \in Faults /\ k = "nameMe" /\ r.to = "dgram" /\ ~Good(r, k)
  /\ \A s \in Sessions : \A c \in ConnsOf(s) :
       \A i \in DOMAIN sock[conn[c].fd].inbox : sock[conn[c].fd].inbox[i] = Data

\* The application learns how a call went: a connect, accept, forward, lookup or
\* datagram call that failed leaves a message in ses->error, one that went well
\* leaves none, but for the connect of a silent session, which leaves the field
\* alone (libsam3.h:238, 247, 256, 284, 296, 306; libsam3.c:1017-1029).  Of a
\* lookup that does not even begin LookupSetsError speaks.
ErrorTold ==
  Idle /\ call.op \in {"connect", "accept", "forward", "lookup", "receive", "send"} =>
    /\ call.res = "failed" => ses[call.s].error
    /\ call.res = "ok" /\ ~(call.op = "connect" /\ ses[call.s].silent) => ~ses[call.s].error

-----------------------------------------------------------------------------
(* Liveness, under FairSpec.                                               *)

\* The line reader at the end of a stream that was closed in order.
Spinning == /\ call.at = "await"
            /\ sock[call.fd].hang = "fin" /\ sock[call.fd].inbox = <<>>

\* Every function returns, with a bridge that answers or breaks the connection
\* off at any step, but for the reader that HangupEndsRead is about, and a null
\* pointer.  (An accept waits for a peer, and a receive for a datagram.)
CallReturns ==
  (~Idle /\ call.op \notin {"accept", "receive"})
    ~> (Idle \/ Spinning \/ call.at = "crashed")

-----------------------------------------------------------------------------
(* What the documentation says and the code does not do.                   *)

\* libsam3.c:329 "error or connection closed; alas": the line reader ends, with
\* an error, when the bridge has closed the connection
HangupEndsRead ==
  (call.at = "await" /\ sock[call.fd].hang # "open"
     /\ sock[call.fd].inbox = <<>>) ~> call.at # "await"

\* libsam3.h:284 "will set 'error' field": so it does when the lookup does not
\* begin.
LookupSetsError ==
  Idle /\ call.op = "lookup" /\ call.res \in {"failed", "rejected"} => ses[call.s].error
=============================================================================
