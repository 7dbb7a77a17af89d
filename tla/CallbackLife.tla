---------------------------- MODULE CallbackLife ----------------------------
(***************************************************************************)
(* What libsam3a.h:100-160 promises an application about the callbacks of  *)
(* one session or connection, whatever it does inside them: cbError and    *)
(* the "it is open" callback come at most once, and no opening follows an  *)
(* error; the one answer of a key generation or a name lookup is its end;  *)
(* data flows only while the object is open; cbDisconnected comes once and *)
(* only after the opening; cbDestroy is the last of all, and what was open *)
(* has been reported closed before it.                                     *)
(***************************************************************************)
EXTENDS Naturals, Sequences

CONSTANT Objects  \* sessions and connections

VARIABLE log        \* the callbacks each of them has had, in order

Had(o, e) == \E i \in DOMAIN log[o] : log[o][i] = e

Tell(o, e) == log' = [log EXCEPT ![o] = Append(@, e)]

Over(o) == \E e \in {"error", "answer", "disconnected", "destroy"} : Had(o, e)

Error(o) == ~Over(o) /\ Tell(o, "error")

Up(o) == ~Over(o) /\ ~Had(o, "up") /\ Tell(o, "up")

Answer(o) == ~Over(o) /\ ~Had(o, "up") /\ Tell(o, "answer")

Traffic(o) == ~Over(o) /\ Had(o, "up") /\ Tell(o, "traffic")

Disconnected(o) == /\ Had(o, "up")
                   /\ ~Had(o, "disconnected") /\ ~Had(o, "destroy")
                   /\ Tell(o, "disconnected")

Destroy(o) == /\ ~Had(o, "destroy")
              /\ Had(o, "up") => Had(o, "disconnected")
              /\ Tell(o, "destroy")

Init == log = [o \in Objects |-> <<>>]

Next == \E o \in Objects : \/ Error(o) \/ Up(o) \/ Answer(o) \/ Traffic(o)
                           \/ Disconnected(o) \/ Destroy(o)

Spec == Init /\ [][Next]_log
=============================================================================
