-------------------------- MODULE Sam3aStackProofs --------------------------
(***************************************************************************)
(* The asynchronous library is re-entrant: callbacks call it back in the   *)
(* middle of its own functions.  For any number of connections, whatever   *)
(* the application calls and the bridge answers, no function works on a    *)
(* freed connection, connlist stays whole, the end of a session reaches    *)
(* every connection, an error ends its object, nothing in use is left      *)
(* without a processor, and no foreign descriptor is shut.                 *)
(*                                                                         *)
(* The invariant, SInv, is about the call stack.  Nested is local: what    *)
(* runs on top of the code of a connection is that connection's (which is  *)
(* why one that is in none of its callbacks has no code running at all,    *)
(* and may be freed).  Dying says who may rely on an object's being        *)
(* cancelled, Cascading how far the loop of sesDisconnect has come, and    *)
(* Ending that whoever has been told of its end, or waits for nothing any  *)
(* more, has its disconnect still to run.                                  *)
(*                                                                         *)
(* All of it holds for an application that closes its session outside of   *)
(* callbacks; with CloseInSessionCallbacks it does not, as the run         *)
(* CloseInCallback shows.                                                  *)
(***************************************************************************)
EXTENDS Sam3aTypeProofs, FiniteSetTheorems, WellFoundedInduction

-----------------------------------------------------------------------------
(* The invariant.                                                          *)

\* The code of a connection, as opposed to the application's callbacks for it.
IsConnCode(f) == f.o \in Conns /\ f.pc \notin Callbacks

\* sesDisconnect or connDisconnect of o.
Disc(o) == F(IF o = Ses THEN "sesDisconnect" ELSE "connDisconnect", o)

\* f may be what runs on top of g.
Above(f, g) ==
  /\ f.pc \notin {"walk", "closeSession", "freeSession"}
  /\ IsConnCode(g) => f.o = g.o /\ f.pc # "cascade"

Nested(st) == \A i \in 1..(Len(st) - 1) : Above(st[i], st[i + 1])

\* sam3aCloseConnection is the last that is done for a connection.
Lasts(st) == \A i, j \in 1..Len(st) :
  st[i].pc \in {"destroyConn", "freeConn"} /\ i < j => st[j].o # st[i].o

\* What closes or has been through an object finds it cancelled, when the
\* disconnect that it waits for has returned.
Dying(ob, st) == \A i \in 1..Len(st) :
  /\ st[i].pc \in {"destroyConn", "closeSession", "cascade"} =>
       ob[st[i].o].cancelled \/ (i > 1 /\ st[i - 1] = Disc(st[i].o))
  /\ st[i].pc \in {"freeConn", "freeSession"} => ob[st[i].o].cancelled

Working(ob, st) == \A i \in 1..Len(st) : ob[st[i].o].mem = "live"

Frames == Nested(stack) /\ Lasts(stack) /\ Dying(obj, stack) /\ Working(obj, stack)

Structs == \A o \in Obj :
  /\ obj[o].mem = "live" => obj[o].fd = "own"
  /\ obj[o].mem = "none" => obj[o] = Unused /\ told[o] = <<>>
  /\ obj[o].mem = "closed" => obj[o] = Zeroed

Closing == \A i \in 1..Len(stack) :
  stack[i].pc \in {"closeSession", "freeSession"} =>
    stack[i].o = Ses /\ (stack[i].pc = "freeSession" => connlist = <<>>)

Listing == /\ ListIntegrity
           /\ connlist # <<>> => obj[Ses].mem = "live"

Shutting == /\ OnlyOwnDescriptors /\ SocketsShut

\* The loop of sesDisconnect has been through what stands before o.
Cascading ==
  /\ CascadeComplete
  /\ \A i \in 1..Len(stack) : stack[i].pc = "cascade" =>
       /\ obj[Ses].cancelled
       /\ \A p, q \in 1..Len(connlist) :
            p < q /\ connlist[q] = stack[i].o => obj[connlist[p]].cancelled

Doomed(o) == \E i \in 1..Len(stack) : stack[i] = Disc(o)

Over(o) == InLog(o, "error") \/ InLog(o, "answer")
Deaf(o, s) == s.procR = "null" /\ s.procW = "null" /\ ~(o = Ses /\ s.callDisc)

Ending == \A o \in Obj :
  obj[o].mem = "live" /\ ~obj[o].cancelled /\ (Over(o) \/ Deaf(o, obj[o])) => Doomed(o)

SInv == TInv /\ Frames /\ Structs /\ Closing /\ Listing /\ Shutting /\ Cascading /\ Ending

-----------------------------------------------------------------------------
(* Frames on frames.                                                       *)

\* Frames on top of frames: which frame stands where.
LEMMA Stacked ==
  ASSUME NEW fs \in Seq(Frame), NEW r \in Seq(Frame), NEW st, st = fs \o r
  PROVE  /\ st \in Seq(Frame) /\ Len(fs) \in Nat /\ Len(r) \in Nat
         /\ Len(st) = Len(fs) + Len(r)
         /\ \A i \in 1..Len(fs) : st[i] = fs[i]
         /\ \A i \in 1..Len(r) : st[Len(fs) + i] = r[i]
         /\ \A i \in 1..Len(st) : i > Len(fs) =>
              i - Len(fs) \in 1..Len(r) /\ st[i] = r[i - Len(fs)]
         /\ fs = <<>> <=> Len(fs) = 0
         /\ r = <<>> <=> Len(r) = 0
<1>1. st \in Seq(Frame) /\ Len(fs) \in Nat /\ Len(r) \in Nat /\ Len(st) = Len(fs) + Len(r)
  BY ConcatProperties, LenProperties
<1>2. \A i \in 1..Len(st) : st[i] = IF i <= Len(fs) THEN fs[i] ELSE r[i - Len(fs)]
  BY ConcatProperties
<1>3. \A i \in 1..Len(fs) : st[i] = fs[i]
  BY <1>1, <1>2
<1>4. \A i \in 1..Len(r) : st[Len(fs) + i] = r[i]
  BY <1>1, <1>2
<1>5. \A i \in 1..Len(st) : i > Len(fs) => i - Len(fs) \in 1..Len(r) /\ st[i] = r[i - Len(fs)]
  BY <1>1, <1>2
<1>6. (fs = <<>> <=> Len(fs) = 0) /\ (r = <<>> <=> Len(r) = 0)
  BY EmptySeq
<1> QED BY <1>1, <1>3, <1>4, <1>5, <1>6

\* What stands below the innermost frame.
LEMMA Popped ==
  ASSUME NEW st \in Seq(Frame), st # <<>>
  PROVE  /\ Tail(st) \in Seq(Frame) /\ Len(st) \in Nat \ {0} /\ Len(Tail(st)) = Len(st) - 1
         /\ Head(st) = st[1] /\ st[1] \in Frame
         /\ \A i \in 1..Len(Tail(st)) : Tail(st)[i] = st[i + 1]
         /\ \A i \in 1..Len(st) : i > 1 => i - 1 \in 1..Len(Tail(st)) /\ st[i] = Tail(st)[i - 1]
<1>1. Tail(st) \in Seq(Frame) /\ Len(Tail(st)) = Len(st) - 1
      /\ \A i \in 1..Len(Tail(st)) : Tail(st)[i] = st[i + 1]
  BY HeadTailProperties
<1>2. Len(st) \in Nat \ {0} /\ Head(st) = st[1]
  BY EmptySeq, LenProperties
<1> QED BY <1>1, <1>2

\* A shape of frames that is closed under returning from the innermost.
LEMMA PoppedFrames ==
  ASSUME NEW st \in Seq(Frame), st # <<>>, NEW ob,
         Nested(st), Lasts(st), Dying(ob, st), Working(ob, st)
  PROVE  /\ Nested(Tail(st)) /\ Lasts(Tail(st)) /\ Working(ob, Tail(st))
         /\ Len(st) > 1 => Above(st[1], Tail(st)[1])
         /\ \A j \in 1..Len(Tail(st)) :
              st[1].pc \in {"destroyConn", "freeConn"} => Tail(st)[j].o # st[1].o
<1> DEFINE t == Tail(st)
<1>1. /\ t \in Seq(Frame) /\ Len(st) \in Nat \ {0} /\ Len(t) = Len(st) - 1
      /\ \A i \in 1..Len(t) : t[i] = st[i + 1]
  BY Popped
<1> HIDE DEF t
<1>2. Nested(t)
  BY <1>1 DEF Nested
<1>3. Lasts(t)
  <2> SUFFICES ASSUME NEW i \in 1..Len(t), NEW j \in 1..Len(t),
                      t[i].pc \in {"destroyConn", "freeConn"}, i < j
               PROVE  t[j].o # t[i].o
    BY DEF Lasts
  <2>1. i + 1 \in 1..Len(st) /\ j + 1 \in 1..Len(st) /\ i + 1 < j + 1
    BY <1>1
  <2> QED BY <1>1, <2>1 DEF Lasts
<1>4. Working(ob, t)
  BY <1>1 DEF Working
<1>5. Len(st) > 1 => Above(st[1], t[1])
  BY <1>1 DEF Nested
<1>6. ASSUME NEW j \in 1..Len(t), st[1].pc \in {"destroyConn", "freeConn"}
      PROVE  t[j].o # st[1].o
  <2>1. 1 \in 1..Len(st) /\ j + 1 \in 1..Len(st) /\ 1 < j + 1 /\ t[j] = st[j + 1]
    BY <1>1
  <2> QED BY <1>6, <2>1 DEF Lasts
<1> QED BY <1>2, <1>3, <1>4, <1>5, <1>6 DEF t

\* Objects are not created or given back, and none is revived.
Keeps(ob, nb) == \A o \in Obj :
  /\ ob[o].mem = "live" => nb[o].mem = "live"
  /\ ob[o].cancelled => nb[o].cancelled

\* Frames that wait for a disconnect on top of them wait no longer when it
\* returns, for the object is cancelled then.
LEMMA PoppedDying ==
  ASSUME NEW st \in Seq(Frame), st # <<>>, NEW ob, NEW nb, Keeps(ob, nb), Dying(ob, st),
         \A o \in Obj : st[1] = Disc(o) => nb[o].cancelled
  PROVE  Dying(nb, Tail(st))
<1> DEFINE t == Tail(st)
<1>1. /\ t \in Seq(Frame) /\ Len(st) \in Nat \ {0} /\ Len(t) = Len(st) - 1
      /\ \A i \in 1..Len(t) : t[i] = st[i + 1]
  BY Popped
<1> HIDE DEF t
<1>2. SUFFICES ASSUME NEW i \in 1..Len(t)
               PROVE  /\ t[i].pc \in {"destroyConn", "closeSession", "cascade"} =>
                           nb[t[i].o].cancelled \/ (i > 1 /\ t[i - 1] = Disc(t[i].o))
                      /\ t[i].pc \in {"freeConn", "freeSession"} => nb[t[i].o].cancelled
  BY DEF Dying, t
<1>3. i + 1 \in 1..Len(st) /\ t[i] = st[i + 1] /\ t[i].o \in Obj /\ (i + 1) - 1 = i
  <2>1. t[i] \in Frame /\ i + 1 \in 1..Len(st) /\ (i + 1) - 1 = i
    BY <1>1
  <2> QED BY <1>1, <2>1 DEF Frame
<1>4. /\ t[i].pc \in {"destroyConn", "closeSession", "cascade"} =>
           ob[t[i].o].cancelled \/ st[i] = Disc(t[i].o)
      /\ t[i].pc \in {"freeConn", "freeSession"} => ob[t[i].o].cancelled
  BY <1>3 DEF Dying
<1>5. CASE i = 1
  BY <1>3, <1>4, <1>5 DEF Keeps
<1>6. CASE i > 1
  <2>1. i - 1 \in 1..Len(t) /\ st[i] = t[i - 1]
    BY <1>1, <1>6
  <2> QED BY <1>3, <1>4, <1>6, <2>1 DEF Keeps
<1> QED BY <1>5, <1>6

\* Frames pushed on frames.
LEMMA Pushed ==
  ASSUME NEW fs \in Seq(Frame), NEW r \in Seq(Frame), NEW ob, NEW st, st = fs \o r,
         Nested(fs), Lasts(fs), Dying(ob, fs), Working(ob, fs),
         Nested(r), Lasts(r), Dying(ob, r), Working(ob, r),
         fs # <<>> /\ r # <<>> => Above(fs[Len(fs)], r[1]),
         \A i \in 1..Len(fs), j \in 1..Len(r) :
           fs[i].pc \in {"destroyConn", "freeConn"} => r[j].o # fs[i].o
  PROVE  st \in Seq(Frame) /\ Nested(st) /\ Lasts(st) /\ Dying(ob, st) /\ Working(ob, st)
<1>1. /\ st \in Seq(Frame) /\ Len(fs) \in Nat /\ Len(r) \in Nat
      /\ Len(st) = Len(fs) + Len(r)
      /\ \A i \in 1..Len(fs) : st[i] = fs[i]
      /\ \A i \in 1..Len(st) : i > Len(fs) => i - Len(fs) \in 1..Len(r) /\ st[i] = r[i - Len(fs)]
      /\ fs = <<>> <=> Len(fs) = 0
      /\ r = <<>> <=> Len(r) = 0
  BY Stacked
<1>2. Nested(st)
  <2> SUFFICES ASSUME NEW i \in 1..(Len(st) - 1) PROVE Above(st[i], st[i + 1])
    BY DEF Nested
  <2>1. CASE i < Len(fs)
    BY <1>1, <2>1 DEF Nested
  <2>2. CASE i = Len(fs)
    BY <1>1, <2>2
  <2>3. CASE i > Len(fs)
    <3>1. i - Len(fs) \in 1..(Len(r) - 1) /\ st[i] = r[i - Len(fs)]
          /\ st[i + 1] = r[(i - Len(fs)) + 1]
      BY <1>1, <2>3
    <3> QED BY <3>1 DEF Nested
  <2> QED BY <1>1, <2>1, <2>2, <2>3
<1>3. Lasts(st)
  <2> SUFFICES ASSUME NEW i \in 1..Len(st), NEW j \in 1..Len(st),
                      st[i].pc \in {"destroyConn", "freeConn"}, i < j
               PROVE  st[j].o # st[i].o
    BY DEF Lasts
  <2>1. CASE j <= Len(fs)
    BY <1>1, <2>1 DEF Lasts
  <2>2. CASE i <= Len(fs) /\ j > Len(fs)
    BY <1>1, <2>2
  <2>3. CASE i > Len(fs)
    <3>1. /\ i - Len(fs) \in 1..Len(r) /\ j - Len(fs) \in 1..Len(r) /\ i - Len(fs) < j - Len(fs)
          /\ st[i] = r[i - Len(fs)] /\ st[j] = r[j - Len(fs)]
      BY <1>1, <2>3
    <3> QED BY <3>1 DEF Lasts
  <2> QED BY <1>1, <2>1, <2>2, <2>3
<1>4. Working(ob, st)
  <2> SUFFICES ASSUME NEW i \in 1..Len(st) PROVE ob[st[i].o].mem = "live"
    BY DEF Working
  <2>1. CASE i <= Len(fs)
    BY <1>1, <2>1 DEF Working
  <2>2. CASE i > Len(fs)
    BY <1>1, <2>2 DEF Working
  <2> QED BY <1>1, <2>1, <2>2
<1>5. Dying(ob, st)
  <2> SUFFICES ASSUME NEW i \in 1..Len(st)
               PROVE  /\ st[i].pc \in {"destroyConn", "closeSession", "cascade"} =>
                           ob[st[i].o].cancelled \/ (i > 1 /\ st[i - 1] = Disc(st[i].o))
                      /\ st[i].pc \in {"freeConn", "freeSession"} => ob[st[i].o].cancelled
    BY DEF Dying
  <2>1. CASE i <= Len(fs)
    <3>1. i \in 1..Len(fs) /\ st[i] = fs[i] /\ (i > 1 => st[i - 1] = fs[i - 1])
      BY <1>1, <2>1
    <3> QED BY <3>1 DEF Dying
  <2>2. CASE i > Len(fs)
    <3>1. /\ i - Len(fs) \in 1..Len(r) /\ st[i] = r[i - Len(fs)]
          /\ i - Len(fs) > 1 => i > 1 /\ st[i - 1] = r[(i - Len(fs)) - 1]
      BY <1>1, <2>2
    <3> QED BY <3>1 DEF Dying
  <2> QED BY <1>1, <2>1, <2>2
<1> QED BY <1>1, <1>2, <1>3, <1>4, <1>5

-----------------------------------------------------------------------------
(* Where frames come from, and what a step tells.                          *)

\* The disconnect of o is among the frames.
HasDisc(o, fs) == \E i \in 1..Len(fs) : fs[i] = Disc(o)

\* A callback that tells an object of its end.
TellsEnd(o, fs) == fs # <<>> /\ Head(fs).o = o /\ Head(fs).pc \in {"cbError", "cbAnswer"}

\* sesDisconnect and connDisconnect are functions of the object they end.
LEMMA DiscFrame ==
  ASSUME NEW o \in Obj
  PROVE  Disc(o) \in Frame /\ Disc(o).o = o /\ Disc(o).pc \in {"sesDisconnect", "connDisconnect"}
BY DEF Disc, F, Frame, Pcs

\* Whose history a step writes.
LEMMA Telling ==
  ASSUME TypeOK, NEW fs \in Seq(Frame), NEW x \in Obj
  PROVE  \/ Told(fs)[x] = told[x]
         \/ /\ fs # <<>> /\ Head(fs).o = x /\ Head(fs).pc \in Callbacks
            /\ Told(fs)[x] = Record(told[x], Event[Head(fs).pc])
<1>1. CASE fs # <<>> /\ Head(fs).pc \in Callbacks
  <2>1. Head(fs) \in Frame
    BY <1>1
  <2>2. Head(fs).o \in Obj
    BY <2>1 DEF Frame
  <2> QED BY <1>1, <2>2 DEF Told, TypeOK
<1>2. CASE ~(fs # <<>> /\ Head(fs).pc \in Callbacks)
  BY <1>2 DEF Told
<1> QED BY <1>1, <1>2

\* Record adds one event at most.
LEMMA Recorded ==
  ASSUME NEW h \in Seq(Events), NEW e \in Events, NEW v,
         NEW i \in DOMAIN Record(h, e), Record(h, e)[i] = v
  PROVE  v = e \/ \E j \in DOMAIN h : h[j] = v
<1>1. CASE Record(h, e) = h
  BY <1>1
<1>2. CASE Record(h, e) = Append(h, e)
  <2>1. DOMAIN h = 1..Len(h) /\ Len(h) \in Nat /\ DOMAIN Append(h, e) = 1..(Len(h) + 1)
        /\ \A j \in 1..Len(h) : Append(h, e)[j] = h[j]
        /\ Append(h, e)[Len(h) + 1] = e
    BY AppendProperties, LenProperties
  <2>2. CASE i = Len(h) + 1
    BY <1>2, <2>1, <2>2
  <2>3. CASE i # Len(h) + 1
    <3>1. i \in 1..Len(h)
      BY <1>2, <2>1, <2>3
    <3> QED BY <1>2, <2>1, <3>1
  <2> QED BY <2>2, <2>3
<1> QED BY <1>1, <1>2 DEF Record

\* cbError and cbAnswer are the callbacks that tell of an end.
LEMMA Heard ==
  ASSUME NEW pc \in Callbacks
  PROVE  Event[pc] \in Events /\ (Event[pc] \in {"error", "answer"} <=> pc \in {"cbError", "cbAnswer"})
<1> SUFFICES \A p \in Callbacks : Event[p] \in Events /\ (Event[p] \in {"error", "answer"} <=> p \in {"cbError", "cbAnswer"})
  OBVIOUS
<1> QED BY DEF Event, Events, Callbacks

\* An object is told of its end by one callback, or was before.
LEMMA ToldOver ==
  ASSUME TypeOK, NEW fs \in Seq(Frame), told' = Told(fs), NEW x \in Obj, Over(x)'
  PROVE  Over(x) \/ TellsEnd(x, fs)
<1>1. CASE told'[x] = told[x]
  BY <1>1 DEF Over, InLog
<1>2. CASE /\ fs # <<>> /\ Head(fs).o = x /\ Head(fs).pc \in Callbacks
           /\ told'[x] = Record(told[x], Event[Head(fs).pc])
  <2>1. told[x] \in Seq(Events)
    BY DEF TypeOK
  <2>2. Event[Head(fs).pc] \in Events
        /\ (Event[Head(fs).pc] \in {"error", "answer"} <=> Head(fs).pc \in {"cbError", "cbAnswer"})
    BY <1>2, Heard
  <2>3. ASSUME NEW v \in {"error", "answer"}, NEW i \in DOMAIN told'[x], told'[x][i] = v
        PROVE  InLog(x, v) \/ Event[Head(fs).pc] = v
    BY <1>2, <2>1, <2>2, <2>3, Recorded DEF InLog
  <2> QED BY <1>2, <2>2, <2>3 DEF Over, InLog, TellsEnd
<1> QED BY <1>1, <1>2, Telling

\* What a step does to the frames: it pushes fs on r.
Steps(fs, r) ==
  /\ fs \in Seq(Frame) /\ r \in Seq(Frame)
  /\ r = stack \/ (stack # <<>> /\ r = Tail(stack))
  /\ stack' = fs \o r /\ told' = Told(fs)

\* Who is at its end and not cancelled has its disconnect on the stack.
LEMMA EndingKept ==
  ASSUME TypeOK, Ending, NEW fs, NEW r, Steps(fs, r),
         \A x \in Obj : obj'[x].mem = "live" /\ ~obj'[x].cancelled =>
           \/ HasDisc(x, fs)
           \/ /\ obj[x].mem = "live" /\ ~obj[x].cancelled
              /\ Deaf(x, obj'[x]) => Deaf(x, obj[x])
              /\ ~TellsEnd(x, fs)
              /\ r = stack \/ stack[1] # Disc(x)
  PROVE  Ending'
<1> SUFFICES ASSUME NEW x \in Obj, obj'[x].mem = "live", ~obj'[x].cancelled,
                    Over(x)' \/ Deaf(x, obj'[x])
             PROVE  Doomed(x)'
  BY DEF Ending
<1>1. /\ Len(fs) \in Nat /\ Len(stack') = Len(fs) + Len(r) /\ Len(r) \in Nat
      /\ \A i \in 1..Len(fs) : stack'[i] = fs[i]
      /\ \A i \in 1..Len(r) : stack'[Len(fs) + i] = r[i]
  BY Stacked DEF Steps
<1>2. CASE HasDisc(x, fs)
  <2>1. PICK i \in 1..Len(fs) : fs[i] = Disc(x)
    BY <1>2 DEF HasDisc
  <2>2. i \in 1..Len(stack') /\ stack'[i] = Disc(x)
    BY <1>1, <2>1
  <2> QED BY <2>2 DEF Doomed, Disc
<1>3. CASE ~HasDisc(x, fs)
  <2>1. /\ obj[x].mem = "live" /\ ~obj[x].cancelled
        /\ Deaf(x, obj'[x]) => Deaf(x, obj[x])
        /\ ~TellsEnd(x, fs) /\ (r = stack \/ stack[1] # Disc(x))
    BY <1>3
  <2>2. Over(x) \/ Deaf(x, obj[x])
    BY <2>1, ToldOver DEF Steps
  <2>3. Doomed(x)
    BY <2>1, <2>2 DEF Ending
  <2>4. PICK i \in 1..Len(stack) : stack[i] = Disc(x)
    BY <2>3 DEF Doomed
  <2>5. \E k \in 1..Len(r) : r[k] = Disc(x)
    <3>1. CASE r = stack
      BY <2>4, <3>1
    <3>2. CASE stack # <<>> /\ r = Tail(stack) /\ stack[1] # Disc(x)
      <4>1. stack \in Seq(Frame)
        BY DEF TypeOK
      <4>2. i > 1 => i - 1 \in 1..Len(r) /\ stack[i] = r[i - 1]
        BY <3>2, <4>1, <2>4, Popped
      <4>3. Len(stack) \in Nat
        BY <4>1, LenProperties
      <4>4. i > 1
        BY <2>4, <3>2, <4>3
      <4>5. i - 1 \in 1..Len(r) /\ r[i - 1] = Disc(x)
        BY <2>4, <4>2, <4>4
      <4> QED BY <4>5
    <3> QED BY <2>1, <3>1, <3>2 DEF Steps
  <2>6. PICK k \in 1..Len(r) : r[k] = Disc(x)
    BY <2>5
  <2>7. Len(fs) + k \in 1..Len(stack') /\ stack'[Len(fs) + k] = Disc(x)
    BY <1>1, <2>6
  <2> QED BY <2>7 DEF Doomed, Disc
<1> QED BY <1>2, <1>3

\* Where a frame comes from: pushed, or there before.
LEMMA FrameFrom ==
  ASSUME TypeOK, NEW fs, NEW r, Steps(fs, r), NEW i \in 1..Len(stack')
  PROVE  \/ \E k \in 1..Len(fs) : stack'[i] = fs[k]
         \/ \E k \in 1..Len(stack) : stack'[i] = stack[k] /\ (k > 1 \/ r = stack)
<1>1. /\ Len(fs) \in Nat /\ Len(stack') = Len(fs) + Len(r) /\ Len(r) \in Nat
      /\ \A j \in 1..Len(fs) : stack'[j] = fs[j]
      /\ \A j \in 1..Len(stack') : j > Len(fs) =>
           j - Len(fs) \in 1..Len(r) /\ stack'[j] = r[j - Len(fs)]
  BY Stacked DEF Steps
<1>2. CASE i <= Len(fs)
  BY <1>1, <1>2
<1>3. CASE i > Len(fs)
  <2>1. PICK k \in 1..Len(r) : stack'[i] = r[k]
    BY <1>1, <1>3
  <2>2. CASE r = stack
    BY <2>1, <2>2
  <2>3. CASE stack # <<>> /\ r = Tail(stack)
    <3>1. stack \in Seq(Frame)
      BY DEF TypeOK
    <3>2. Len(Tail(stack)) = Len(stack) - 1 /\ Len(stack) \in Nat \ {0} /\ Tail(stack)[k] = stack[k + 1]
      BY <2>1, <2>3, <3>1, Popped
    <3>3. k + 1 \in 1..Len(stack) /\ stack'[i] = stack[k + 1] /\ k + 1 > 1
      BY <2>1, <2>3, <3>2
    <3> QED BY <3>3
  <2> QED BY <2>2, <2>3 DEF Steps
<1> QED BY <1>1, <1>2, <1>3

\* ... and where it is afterwards.
LEMMA FrameTo ==
  ASSUME TypeOK, NEW fs, NEW r, Steps(fs, r), NEW k \in 1..Len(stack), k > 1 \/ r = stack
  PROVE  \E i \in 1..Len(stack') : stack'[i] = stack[k]
<1>1. /\ Len(fs) \in Nat /\ Len(stack') = Len(fs) + Len(r) /\ Len(r) \in Nat
      /\ \A j \in 1..Len(r) : stack'[Len(fs) + j] = r[j]
  BY Stacked DEF Steps
<1>2. \E j \in 1..Len(r) : r[j] = stack[k]
  <2>1. CASE r = stack
    BY <2>1
  <2>2. CASE stack # <<>> /\ r = Tail(stack) /\ k > 1
    <3>1. stack \in Seq(Frame)
      BY DEF TypeOK
    <3>2. k - 1 \in 1..Len(r) /\ stack[k] = r[k - 1]
      BY <2>2, <3>1, Popped
    <3> QED BY <3>2
  <2> QED BY <2>1, <2>2 DEF Steps
<1>3. PICK j \in 1..Len(r) : r[j] = stack[k]
  BY <1>2
<1>4. Len(fs) + j \in 1..Len(stack') /\ stack'[Len(fs) + j] = stack[k]
  BY <1>1, <1>3
<1> QED BY <1>4

\* A step outside of the loop of sesDisconnect leaves it where it was.
LEMMA CascadingKept ==
  ASSUME TypeOK, Cascading, NEW fs, NEW r, Steps(fs, r), connlist' = connlist,
         Keeps(obj, obj'), \A i \in 1..Len(fs) : fs[i].pc # "cascade",
         r = stack \/ stack[1].pc # "cascade",
         obj'[Ses].cancelled => obj[Ses].cancelled,
         obj'[Ses].mem = "live" => obj[Ses].mem = "live"
  PROVE  Cascading'
<1>0. Len(stack) \in Nat /\ DOMAIN stack = 1..Len(stack) /\ connlist \in Seq(Conns)
      /\ DOMAIN connlist = 1..Len(connlist)
  BY LenProperties DEF TypeOK
<1>9. stack' \in Seq(Frame) /\ DOMAIN stack' = 1..Len(stack')
  <2>1. stack' \in Seq(Frame)
    BY Stacked DEF Steps
  <2> QED BY <2>1, LenProperties
<1>1. ASSUME NEW c \in Conns, obj[c].cancelled PROVE obj'[c].cancelled
  BY <1>1 DEF Keeps, Obj
<1>2. \A i \in 1..Len(connlist) : connlist[i] \in Conns
  BY <1>0
<1>3. CascadeComplete'
  <2> SUFFICES ASSUME obj'[Ses].mem = "live", obj'[Ses].cancelled, ~OnStack({"cascade"})',
                      NEW j \in 1..Len(connlist)
               PROVE  obj'[connlist[j]].cancelled
    BY <1>0 DEF CascadeComplete
  <2>1. ~OnStack({"cascade"})
    <3> SUFFICES ASSUME NEW k \in 1..Len(stack), stack[k].pc = "cascade" PROVE FALSE
      BY <1>0 DEF OnStack
    <3>1. k > 1 \/ r = stack
      OBVIOUS
    <3>2. PICK i \in 1..Len(stack') : stack'[i] = stack[k]
      BY <3>1, FrameTo
    <3> QED BY <3>2, <1>9 DEF OnStack
  <2>2. obj[connlist[j]].cancelled
    BY <2>1, <1>0 DEF Cascading, CascadeComplete
  <2> QED BY <1>1, <1>2, <2>2
<1>4. ASSUME NEW i \in 1..Len(stack'), stack'[i].pc = "cascade"
      PROVE  /\ obj'[Ses].cancelled
             /\ \A p, q \in 1..Len(connlist) :
                  p < q /\ connlist[q] = stack'[i].o => obj'[connlist[p]].cancelled
  <2>1. PICK k \in 1..Len(stack) : stack'[i] = stack[k]
    BY <1>4, FrameFrom
  <2>2. /\ obj[Ses].cancelled
        /\ \A p, q \in 1..Len(connlist) :
             p < q /\ connlist[q] = stack'[i].o => obj[connlist[p]].cancelled
    BY <1>4, <2>1 DEF Cascading
  <2>3. obj'[Ses].cancelled
    BY <2>2 DEF Keeps, Obj
  <2> QED BY <1>1, <1>2, <2>2, <2>3
<1> QED BY <1>3, <1>4 DEF Cascading

-----------------------------------------------------------------------------
(* What keeps each part of the invariant.                                  *)

\* What a function does in the name of one object, and leaves for it to do.
WorkPcs == Pcs \ {"walk", "closeSession", "freeSession", "destroyConn", "freeConn", "cascade"}

Work(o, fs) == /\ fs \in Seq(Frame)
               /\ \A i \in 1..Len(fs) : fs[i].o = o /\ fs[i].pc \in WorkPcs

\* What a function leaves to do for its object has the shape of a call stack.
LEMMA WorkShape ==
  ASSUME NEW o \in Obj, NEW fs, Work(o, fs)
  PROVE  /\ Nested(fs) /\ Lasts(fs) /\ \A ob : Dying(ob, fs)
         /\ \A ob : ob[o].mem = "live" => Working(ob, fs)
         /\ \A i \in 1..Len(fs) : fs[i].pc # "cascade"
         /\ \A i \in 1..Len(fs) : fs[i].pc \notin {"closeSession", "freeSession"}
<1>1. Len(fs) \in Nat
  BY LenProperties DEF Work
<1>2. Nested(fs)
  BY <1>1 DEF Nested, Above, Work, WorkPcs
<1> QED BY <1>1, <1>2 DEF Lasts, Dying, Working, Work, WorkPcs

\* A frame is a function of some object.
LEMMA FrameOwner ==
  ASSUME NEW st \in Seq(Frame), NEW i \in 1..Len(st)
  PROVE  st[i] \in Frame /\ st[i].o \in Obj /\ st[i].pc \in Pcs
<1>1. st[i] \in Frame
  OBVIOUS
<1> QED BY <1>1 DEF Frame

\* A step that pushes well-shaped frames, and returns from a disconnect only when
\* its object is cancelled, keeps the shape of the call stack.
LEMMA FramesKept ==
  ASSUME TypeOK, Frames, NEW fs, NEW r, Steps(fs, r), Keeps(obj, obj'),
         r = stack \/ \A o \in Obj : stack[1] = Disc(o) => obj'[o].cancelled,
         Nested(fs), Lasts(fs), Dying(obj', fs), Working(obj', fs),
         fs # <<>> /\ r # <<>> => Above(fs[Len(fs)], r[1]),
         \A i \in 1..Len(fs), j \in 1..Len(r) :
           fs[i].pc \in {"destroyConn", "freeConn"} => r[j].o # fs[i].o
  PROVE  Frames'
<1>0. stack \in Seq(Frame) /\ \A i \in 1..Len(stack) : stack[i].o \in Obj
  BY FrameOwner DEF TypeOK
<1>1. CASE r = stack
  <2>1. Working(obj', r)
    BY <1>0, <1>1 DEF Frames, Working, Keeps
  <2>2. Dying(obj', r)
    <3> SUFFICES ASSUME NEW i \in 1..Len(stack)
                 PROVE  /\ stack[i].pc \in {"destroyConn", "closeSession", "cascade"} =>
                             obj'[stack[i].o].cancelled \/ (i > 1 /\ stack[i - 1] = Disc(stack[i].o))
                        /\ stack[i].pc \in {"freeConn", "freeSession"} => obj'[stack[i].o].cancelled
      BY <1>1 DEF Dying
    <3>1. /\ stack[i].pc \in {"destroyConn", "closeSession", "cascade"} =>
               obj[stack[i].o].cancelled \/ (i > 1 /\ stack[i - 1] = Disc(stack[i].o))
          /\ stack[i].pc \in {"freeConn", "freeSession"} => obj[stack[i].o].cancelled
      BY DEF Frames, Dying
    <3> QED BY <1>0, <3>1 DEF Keeps
  <2>3. Nested(r) /\ Lasts(r)
    BY <1>1 DEF Frames
  <2>4. Nested(stack') /\ Lasts(stack') /\ Dying(obj', stack') /\ Working(obj', stack')
    BY <2>1, <2>2, <2>3, Pushed DEF Steps
  <2> QED BY <2>4 DEF Frames, Nested, Lasts, Dying, Working, Above, IsConnCode, Disc
<1>2. CASE stack # <<>> /\ r = Tail(stack) /\ r # stack
  <2>1. Nested(r) /\ Lasts(r) /\ Working(obj, r)
    BY <1>0, <1>2, PoppedFrames DEF Frames
  <2>2. Dying(obj', r)
    BY <1>0, <1>2, PoppedDying DEF Frames
  <2>3. Working(obj', r)
    <3>1. \A i \in 1..Len(r) : r[i].o \in Obj
      BY FrameOwner DEF Steps
    <3> QED BY <2>1, <3>1 DEF Working, Keeps
  <2>4. Nested(stack') /\ Lasts(stack') /\ Dying(obj', stack') /\ Working(obj', stack')
    BY <2>1, <2>2, <2>3, Pushed DEF Steps
  <2> QED BY <2>4 DEF Frames, Nested, Lasts, Dying, Working, Above, IsConnCode, Disc
<1> QED BY <1>1, <1>2 DEF Steps

\* The frame of a function, replaced by work for the same object.
LEMMA WorkFrames ==
  ASSUME TypeOK, Frames, stack # <<>>, NEW o \in Obj, stack[1].o = o, NEW fs, Work(o, fs),
         Steps(fs, Tail(stack)), Keeps(obj, obj'), stack[1] = Disc(o) => obj'[o].cancelled
  PROVE  Frames'
<1>0. stack \in Seq(Frame)
  BY DEF TypeOK
<1>1. /\ Nested(fs) /\ Lasts(fs) /\ Dying(obj', fs)
      /\ \A i \in 1..Len(fs) : fs[i].pc \in WorkPcs /\ fs[i].o = o
  BY WorkShape DEF Work
<1>2. obj[o].mem = "live"
  <2>1. 1 \in 1..Len(stack)
    BY <1>0, Popped
  <2> QED BY <2>1 DEF Frames, Working
<1>3. Working(obj', fs)
  BY <1>2, WorkShape DEF Keeps
<1>4. \A x \in Obj : stack[1] = Disc(x) => obj'[x].cancelled
  BY DiscFrame
<1>5. ASSUME fs # <<>>, Tail(stack) # <<>> PROVE Above(fs[Len(fs)], Tail(stack)[1])
  <2>1. Len(fs) \in 1..Len(fs)
    BY <1>5, EmptySeq, LenProperties DEF Steps
  <2>2. Len(stack) > 1
    <3>1. Len(Tail(stack)) # 0 /\ Len(Tail(stack)) = Len(stack) - 1 /\ Len(stack) \in Nat \ {0}
      BY <1>0, <1>5, Popped, EmptySeq
    <3> QED BY <3>1
  <2>3. Above(stack[1], Tail(stack)[1])
    BY <1>0, <2>2, PoppedFrames DEF Frames
  <2> QED BY <1>1, <2>1, <2>3 DEF Above, WorkPcs
<1>6. \A i \in 1..Len(fs) : fs[i].pc \notin {"destroyConn", "freeConn"}
  BY <1>1 DEF WorkPcs
<1> QED BY <1>1, <1>3, <1>4, <1>5, <1>6, FramesKept

\* A step that opens, closes and frees nothing.
LEMMA StructsKept ==
  ASSUME TypeOK, Structs, NEW fs, NEW r, Steps(fs, r),
         \A o \in Obj : obj'[o] = obj[o] \/ (obj[o].mem = "live" /\ obj'[o].mem = "live" /\ obj'[o].fd = "own"),
         \A i \in 1..Len(fs) : obj[fs[i].o].mem = "live"
  PROVE  Structs'
<1> SUFFICES ASSUME NEW o \in Obj
             PROVE  /\ obj'[o].mem = "live" => obj'[o].fd = "own"
                    /\ obj'[o].mem = "none" => obj'[o] = Unused /\ told'[o] = <<>>
                    /\ obj'[o].mem = "closed" => obj'[o] = Zeroed
  BY DEF Structs, Unused, Zeroed
<1>1. obj[o].mem = "none" => told'[o] = told[o]
  <2> SUFFICES ASSUME obj[o].mem = "none", told'[o] # told[o] PROVE FALSE
    OBVIOUS
  <2>1. fs # <<>> /\ Head(fs).o = o
    BY Telling DEF Steps
  <2>2. 1 \in 1..Len(fs) /\ Head(fs) = fs[1]
    BY <2>1, Popped DEF Steps
  <2> QED BY <2>1, <2>2
<1> QED BY <1>1 DEF Structs

\* sam3aCloseSession frees the session when connlist is empty.
LEMMA ClosingKept ==
  ASSUME TypeOK, Closing, NEW fs, NEW r, Steps(fs, r), connlist' = connlist,
         \A i \in 1..Len(fs) : fs[i].pc \in {"closeSession", "freeSession"} =>
           fs[i].o = Ses /\ (fs[i].pc = "freeSession" => connlist = <<>>)
  PROVE  Closing'
<1> SUFFICES ASSUME NEW i \in 1..Len(stack'), stack'[i].pc \in {"closeSession", "freeSession"}
             PROVE  stack'[i].o = Ses /\ (stack'[i].pc = "freeSession" => connlist = <<>>)
  BY DEF Closing
<1>1. CASE \E k \in 1..Len(fs) : stack'[i] = fs[k]
  BY <1>1
<1>2. CASE \E k \in 1..Len(stack) : stack'[i] = stack[k]
  BY <1>2 DEF Closing
<1> QED BY <1>1, <1>2, FrameFrom

\* connlist changes when a connection is opened or freed, and not else.
LEMMA ListingKept ==
  ASSUME Listing, connlist' = connlist,
         \A o \in Obj : obj'[o].mem = obj[o].mem
  PROVE  Listing'
BY DEF Listing, ListIntegrity, Obj

\* What is cancelled or freed has its own descriptor shut, and no other is.
LEMMA ShuttingKept ==
  ASSUME TypeOK, Shutting,
         \A o \in Obj : obj'[o].mem = "closed" \/ obj'[o].cancelled =>
           desc'[o] = "shut" \/ (desc'[o] = desc[o] /\ (obj[o].mem = "closed" \/ obj[o].cancelled)),
         desc'[Foreign] = desc[Foreign]
  PROVE  Shutting'
BY DEF Shutting, OnlyOwnDescriptors, SocketsShut

-----------------------------------------------------------------------------
(* A function that runs for one object.                                    *)

\* The parts of the invariant but for the types.
Parts == Frames /\ Structs /\ Closing /\ Listing /\ Shutting /\ Cascading /\ Ending

\* The life of an object is not touched.
SameLife(s, t) == t.mem = s.mem /\ t.fd = s.fd /\ t.cancelled = s.cancelled

\* What a function returns with, when it leaves s in the struct of o.
Purpose(o, s, fs) ==
  /\ Deaf(o, s) => Deaf(o, obj[o]) \/ HasDisc(o, fs)
  /\ TellsEnd(o, fs) => HasDisc(o, fs)

\* Run replaces the innermost frame and the struct of its object.
LEMMA RunSteps ==
  ASSUME TypeOK, stack # <<>>, NEW o \in Obj, NEW s, NEW fs \in Seq(Frame), Run(o, s, fs)
  PROVE  /\ Steps(fs, Tail(stack)) /\ obj'[o] = s
         /\ \A x \in Obj : x # o => obj'[x] = obj[x]
         /\ Head(stack) = stack[1]
<1>1. stack \in Seq(Frame) /\ obj \in [Obj -> Struct]
  BY DEF TypeOK
<1>2. Tail(stack) \in Seq(Frame) /\ Head(stack) = stack[1]
  BY <1>1, Popped
<1> QED BY <1>1, <1>2 DEF Run, Steps

\* A function that runs on top of the stack, and the struct that it leaves.
LEMMA FunctionKeeps ==
  ASSUME SInv, stack # <<>>, NEW o \in Obj, Head(stack).o = o, Head(stack).pc # "cascade",
         NEW s, NEW fs, Work(o, fs), Run(o, s, fs), connlist' = connlist,
         s.mem = "live", s.fd = "own", obj[o].cancelled => s.cancelled,
         o = Ses /\ s.cancelled => obj[o].cancelled,
         Head(stack) = Disc(o) => s.cancelled,
         \/ desc' = desc /\ s.cancelled = obj[o].cancelled
         \/ desc' = [desc EXCEPT ![o] = "shut"],
         s.cancelled \/ Purpose(o, s, fs)
  PROVE  Parts'
<1>0. TypeOK /\ Frames /\ Structs /\ Closing /\ Listing /\ Shutting /\ Cascading /\ Ending
  BY DEF SInv, TInv
<1>1. /\ Steps(fs, Tail(stack)) /\ obj'[o] = s /\ Head(stack) = stack[1]
      /\ \A x \in Obj : x # o => obj'[x] = obj[x]
  BY <1>0, RunSteps DEF Work
<1>2. obj[o].mem = "live"
  <2>1. stack \in Seq(Frame)
    BY <1>0 DEF TypeOK
  <2>2. 1 \in 1..Len(stack)
    BY <2>1, Popped
  <2> QED BY <1>0, <1>1, <2>2 DEF Frames, Working
<1>3. Keeps(obj, obj')
  BY <1>1, <1>2 DEF Keeps
<1>4. Frames'
  BY <1>0, <1>1, <1>3, WorkFrames
<1>5. \A i \in 1..Len(fs) : fs[i].o = o /\ fs[i].pc # "cascade"
                            /\ fs[i].pc \notin {"closeSession", "freeSession"}
  BY DEF Work, WorkPcs
<1>6. Structs'
  BY <1>0, <1>1, <1>2, <1>5, StructsKept
<1>7. Closing'
  BY <1>0, <1>1, <1>5, ClosingKept
<1>8. Listing'
  BY <1>0, <1>1, <1>2, ListingKept
<1>9. Shutting'
  <2>1. Foreign \in Descriptors /\ o \in Descriptors /\ desc \in [Descriptors -> DescState]
    BY <1>0 DEF Descriptors, TypeOK
  <2>2. desc[Foreign] = "open"
    BY <1>0 DEF Shutting, OnlyOwnDescriptors
  <2>3. CASE desc' = desc /\ s.cancelled = obj[o].cancelled
    BY <1>0, <1>1, <1>2, <2>3, ShuttingKept
  <2>4. CASE desc' = [desc EXCEPT ![o] = "shut"] /\ o # Foreign
    <3>1. desc'[o] = "shut" /\ desc'[Foreign] = desc[Foreign]
          /\ \A x \in Obj : x # o => desc'[x] = desc[x]
      BY <2>1, <2>4 DEF Descriptors
    <3> QED BY <1>0, <1>1, <3>1, ShuttingKept
  <2>5. o # Foreign
    BY ConstantsAssumption DEF Obj, Foreign
  <2> QED BY <2>3, <2>4, <2>5
<1>10. Cascading'
  <2>1. (obj'[Ses].cancelled => obj[Ses].cancelled) /\ (obj'[Ses].mem = "live" => obj[Ses].mem = "live")
    BY <1>1, <1>2 DEF Obj
  <2>2. stack[1].pc # "cascade"
    BY <1>1
  <2> QED BY <1>0, <1>1, <1>3, <1>5, <2>1, <2>2, CascadingKept
<1>11. Ending'
  <2> SUFFICES ASSUME NEW x \in Obj, obj'[x].mem = "live", ~obj'[x].cancelled
               PROVE  \/ HasDisc(x, fs)
                      \/ /\ obj[x].mem = "live" /\ ~obj[x].cancelled
                         /\ Deaf(x, obj'[x]) => Deaf(x, obj[x])
                         /\ ~TellsEnd(x, fs)
                         /\ stack[1] # Disc(x)
    BY <1>0, <1>1, EndingKept
  <2>1. CASE x = o
    BY <1>1, <1>2, <2>1 DEF Purpose
  <2>2. CASE x # o
    <3>1. stack[1] # Disc(x)
      BY <1>1, <2>2, DiscFrame
    <3>2. ~TellsEnd(x, fs)
      <4> SUFFICES ASSUME fs # <<>>, Head(fs).o = x PROVE FALSE
        BY DEF TellsEnd
      <4>1. 1 \in 1..Len(fs) /\ Head(fs) = fs[1]
        BY Popped DEF Work
      <4> QED BY <1>5, <2>2, <4>1
    <3> QED BY <1>1, <2>2, <3>1, <3>2
  <2> QED BY <2>1, <2>2
<1> QED BY <1>4, <1>6, <1>7, <1>8, <1>9, <1>10, <1>11 DEF Parts

-----------------------------------------------------------------------------
(* The handlers, as such functions.                                        *)

\* None of the changes that handlers make touches the life of a struct.
LEMMA HandlersKeepLife ==
  ASSUME NEW s \in Struct, NEW o
  PROVE  /\ SameLife(s, Idle(s)) /\ Idle(s) \in Struct
         /\ \A b \in Buffers : /\ SameLife(s, Buffer(s, b)) /\ Buffer(s, b) \in Struct
                               /\ Deaf(o, Buffer(s, b)) => Deaf(o, s)
         /\ \A n : SameLife(s, Queue(s, n)) /\ (Deaf(o, Queue(s, n)) => Deaf(o, s))
         /\ \A k : /\ SameLife(s, SendingCommand(s, k)) /\ ~Deaf(o, SendingCommand(s, k))
                   /\ SameLife(s, AwaitingLine(s, k)) /\ ~Deaf(o, AwaitingLine(s, k))
         /\ SameLife(s, Created(s)) /\ ~Deaf(Ses, Created(s))
         /\ SameLife(s, Streaming(s)) /\ ~Deaf(o, Streaming(s))
<1> USE DEF Struct, SameLife, Deaf
<1>1. SameLife(s, Idle(s)) /\ Idle(s) \in Struct
  <2>1. Idle(s) = [s EXCEPT !["procR"] = "null", !["procW"] = "null"]
    BY Zenon DEF Idle
  <2> QED BY <2>1 DEF Readers, Writers
<1>2. ASSUME NEW b \in Buffers
      PROVE  SameLife(s, Buffer(s, b)) /\ Buffer(s, b) \in Struct /\ (Deaf(o, Buffer(s, b)) => Deaf(o, s))
  <2>1. Buffer(s, b) = [s EXCEPT !["aio"] = b]
    BY Zenon DEF Buffer
  <2> QED BY <2>1
<1>3. ASSUME NEW n PROVE SameLife(s, Queue(s, n)) /\ (Deaf(o, Queue(s, n)) => Deaf(o, s))
  <2>1. Queue(s, n) = [s EXCEPT !["out"] = n]
    BY Zenon DEF Queue
  <2> QED BY <2>1
<1>4. ASSUME NEW k PROVE SameLife(s, SendingCommand(s, k)) /\ ~Deaf(o, SendingCommand(s, k))
  <2>1. SendingCommand(s, k) = [s EXCEPT !["procR"] = "null", !["procW"] = "cmdSender",
                                         !["check"] = k, !["aio"] = "cmd"]
    BY Zenon DEF SendingCommand
  <2> QED BY <2>1
<1>5. ASSUME NEW k PROVE SameLife(s, AwaitingLine(s, k)) /\ ~Deaf(o, AwaitingLine(s, k))
  <2>1. AwaitingLine(s, k) = [s EXCEPT !["procR"] = "replyReader", !["procW"] = "null",
                                       !["check"] = k, !["aio"] = "fresh"]
    BY Zenon DEF AwaitingLine
  <2> QED BY <2>1
<1>6. SameLife(s, Created(s)) /\ ~Deaf(Ses, Created(s))
  <2>1. Created(s) = [s EXCEPT !["procR"] = "null", !["procW"] = "null", !["callDisc"] = TRUE]
    BY Zenon DEF Created
  <2> QED BY <2>1
<1>7. SameLife(s, Streaming(s)) /\ ~Deaf(o, Streaming(s))
  <2>1. Streaming(s) = [s EXCEPT !["procR"] = "dataReader", !["procW"] = "dataWriter",
                                 !["callDisc"] = TRUE, !["aio"] = "stream"]
    BY Zenon DEF Streaming
  <2> QED BY <2>1
<1> QED BY <1>1, <1>2, <1>3, <1>4, <1>5, <1>6, <1>7

\* What the two disconnects leave in a struct.
LEMMA DisconnectLife ==
  ASSUME NEW s \in Struct
  PROVE  /\ SameLife(s, Quiet(s))
         /\ Cancelled(Quiet(s)).mem = s.mem /\ Cancelled(Quiet(s)).fd = s.fd
         /\ Cancelled(Quiet(s)).cancelled = TRUE
<1> USE DEF Struct
<1>1. Quiet(s) = [s EXCEPT !["procR"] = "null", !["procW"] = "null", !["aio"] = "null",
                           !["check"] = "null", !["out"] = 0]
  BY Zenon DEF Quiet
<1> DEFINE q == Quiet(s)
<1>2. q.mem = s.mem /\ q.fd = s.fd /\ q.cancelled = s.cancelled
      /\ DOMAIN q = {"mem", "kind", "fd", "cancelled", "procR", "procW", "check", "callDisc", "aio", "out"}
  BY <1>1
<1> HIDE DEF q
<1>3. Cancelled(q) = [q EXCEPT !["cancelled"] = TRUE]
  BY Zenon DEF Cancelled
<1>5. Cancelled(q).mem = q.mem /\ Cancelled(q).fd = q.fd /\ Cancelled(q).cancelled = TRUE
  BY <1>2, <1>3
<1> QED BY <1>2, <1>5 DEF q, SameLife

\* A function of an object, as far as the invariant can tell.
IsFunction(o) == \E s, fs : /\ Work(o, fs) /\ Run(o, s, fs)
                            /\ SameLife(obj[o], s) /\ Purpose(o, s, fs)

\* The object that a function runs for is live.
LEMMA Runner ==
  ASSUME SInv, stack # <<>>, NEW o \in Obj, Head(stack).o = o
  PROVE  /\ obj[o].mem = "live" /\ obj[o].fd = "own" /\ obj[o] \in Struct
         /\ Head(stack) = stack[1] /\ 1 \in 1..Len(stack)
<1>0. TypeOK /\ Frames /\ Structs
  BY DEF SInv, TInv
<1>1. stack \in Seq(Frame) /\ obj[o] \in Struct
  BY <1>0 DEF TypeOK
<1>2. 1 \in 1..Len(stack) /\ Head(stack) = stack[1]
  BY <1>1, Popped
<1>3. obj[o].mem = "live"
  BY <1>0, <1>2 DEF Frames, Working
<1> QED BY <1>0, <1>1, <1>2, <1>3 DEF Structs

\* A function of the library that runs for one object keeps the parts of the
\* invariant.
LEMMA FunctionStep ==
  ASSUME SInv, stack # <<>>, NEW o \in Obj, Head(stack).o = o,
         Head(stack).pc \notin {"cascade", "sesDisconnect", "connDisconnect"},
         IsFunction(o), connlist' = connlist, desc' = desc
  PROVE  Parts'
<1>1. PICK s, fs : Work(o, fs) /\ Run(o, s, fs) /\ SameLife(obj[o], s) /\ Purpose(o, s, fs)
  BY DEF IsFunction
<1>2. s.mem = "live" /\ s.fd = "own" /\ s.cancelled = obj[o].cancelled
  BY <1>1, Runner DEF SameLife
<1>3. Head(stack) # Disc(o)
  BY DiscFrame
<1> QED BY <1>1, <1>2, <1>3, FunctionKeeps

\* Frames for one object.
LEMMA WorkFramesAre ==
  ASSUME NEW o \in Obj
  PROVE  /\ Work(o, <<>>) /\ ~TellsEnd(o, <<>>)
         /\ \A p \in WorkPcs : Work(o, <<F(p, o)>>)
         /\ \A p, q \in WorkPcs : Work(o, <<F(p, o), F(q, o)>>)
         /\ Work(o, ErrorFrames(o)) /\ HasDisc(o, ErrorFrames(o))
<1>0. \A p \in WorkPcs : F(p, o) \in Frame /\ F(p, o).o = o /\ F(p, o).pc = p
  BY DEF WorkPcs, F, Frame
<1>1. Work(o, <<>>) /\ ~TellsEnd(o, <<>>)
  BY DEF Work, TellsEnd
<1>2. ASSUME NEW p \in WorkPcs PROVE Work(o, <<F(p, o)>>)
  BY <1>0 DEF Work
<1>3. ASSUME NEW p \in WorkPcs, NEW q \in WorkPcs PROVE Work(o, <<F(p, o), F(q, o)>>)
  <2> DEFINE f == F(p, o)
             g == F(q, o)
  <2>1. f \in Frame /\ f.o = o /\ f.pc \in WorkPcs /\ g \in Frame /\ g.o = o /\ g.pc \in WorkPcs
    BY <1>0
  <2> HIDE DEF f, g
  <2>2. Work(o, <<f, g>>)
    BY <2>1 DEF Work
  <2> QED BY <2>2 DEF f, g
<1>4. "cbError" \in WorkPcs /\ (IF o = Ses THEN "sesDisconnect" ELSE "connDisconnect") \in WorkPcs
  BY DEF WorkPcs, Pcs, Callbacks
<1>5. Work(o, ErrorFrames(o))
  BY <1>3, <1>4 DEF ErrorFrames
<1>6. HasDisc(o, ErrorFrames(o))
  <2>1. ErrorFrames(o) = <<F("cbError", o), Disc(o)>>
    BY DEF ErrorFrames, Disc
  <2>2. Len(ErrorFrames(o)) = 2 /\ ErrorFrames(o)[2] = Disc(o)
    BY <2>1
  <2> QED BY <2>2 DEF HasDisc
<1> QED BY <1>1, <1>2, <1>3, <1>5, <1>6

\* sesError and connError end a function.
LEMMA FailIs ==
  ASSUME NEW o \in Obj, NEW s, SameLife(obj[o], s), Fail(o, s)
  PROVE  IsFunction(o)
BY WorkFramesAre DEF Fail, IsFunction, Purpose

\* A function that leaves nothing to do, or one callback that is no end.
LEMMA QuietIs ==
  ASSUME NEW o \in Obj, NEW s, SameLife(obj[o], s), Deaf(o, s) => Deaf(o, obj[o]),
         \/ Run(o, s, <<>>)
         \/ \E p \in WorkPcs \ {"cbError", "cbAnswer"} : Run(o, s, <<F(p, o)>>)
         \/ \E p \in WorkPcs \ {"cbError", "cbAnswer"}, q \in WorkPcs : Run(o, s, <<F(p, o), F(q, o)>>)
  PROVE  IsFunction(o)
<1>1. CASE Run(o, s, <<>>)
  BY <1>1, WorkFramesAre DEF IsFunction, Purpose
<1>2. ASSUME NEW p \in WorkPcs \ {"cbError", "cbAnswer"}, Run(o, s, <<F(p, o)>>)
      PROVE  IsFunction(o)
  <2>1. ~TellsEnd(o, <<F(p, o)>>)
    BY <1>2 DEF TellsEnd, F
  <2> QED BY <1>2, <2>1, WorkFramesAre DEF IsFunction, Purpose
<1>3. ASSUME NEW p \in WorkPcs \ {"cbError", "cbAnswer"}, NEW q \in WorkPcs,
             Run(o, s, <<F(p, o), F(q, o)>>)
      PROVE  IsFunction(o)
  <2>1. ~TellsEnd(o, <<F(p, o), F(q, o)>>)
    BY <1>3 DEF TellsEnd, F
  <2> QED BY <1>3, <2>1, WorkFramesAre DEF IsFunction, Purpose
<1> QED BY <1>1, <1>2, <1>3

\* sam3aSendCmdWaitReply: a command is installed with its sender, or it fails.
LEMMA SendIs ==
  ASSUME NEW o \in Obj, NEW s \in Struct, SameLife(obj[o], s), NEW k, SendCmdWaitReply(o, s, k)
  PROVE  IsFunction(o)
<1>1. SameLife(s, SendingCommand(s, k)) /\ ~Deaf(o, SendingCommand(s, k))
  BY HandlersKeepLife
<1>2. SameLife(obj[o], SendingCommand(s, k))
  BY <1>1 DEF SameLife
<1>3. CASE Run(o, SendingCommand(s, k), <<>>)
  BY <1>1, <1>2, <1>3, QuietIs
<1>4. CASE Fail(o, s)
  BY <1>4, FailIs
<1> QED BY <1>3, <1>4 DEF SendCmdWaitReply

-----------------------------------------------------------------------------
(* Replies, checkers and streams.                                          *)

\* The answer, and the end, of a key generation or a name lookup.
LEMMA AnswerIs ==
  ASSUME NEW s, SameLife(obj[Ses], s), Run(Ses, s, <<F("cbAnswer", Ses), F("sesDisconnect", Ses)>>)
  PROVE  IsFunction(Ses)
<1>0. Ses \in Obj
  BY DEF Obj
<1> DEFINE fs == <<F("cbAnswer", Ses), F("sesDisconnect", Ses)>>
<1>1. "cbAnswer" \in WorkPcs /\ "sesDisconnect" \in WorkPcs
  BY DEF WorkPcs, Pcs, Callbacks
<1>2. Work(Ses, fs)
  BY <1>0, <1>1, WorkFramesAre
<1>3. Len(fs) = 2 /\ fs[2] = Disc(Ses)
  BY DEF Disc
<1>4. HasDisc(Ses, fs)
  BY <1>3 DEF HasDisc
<1>5. Run(Ses, s, fs)
  OBVIOUS
<1> HIDE DEF fs
<1> QED BY <1>2, <1>4, <1>5 DEF IsFunction, Purpose

\* A function that leaves the struct alone leaves its life alone.
LEMMA SameItself == \A o : SameLife(obj[o], obj[o])
BY DEF SameLife

\* aioSesConnected and aioConnConnected.
LEMMA ConnectedIs ==
  ASSUME TypeOK, NEW o \in Obj, Connected(o)
  PROVE  IsFunction(o)
<1>1. obj[o] \in Struct /\ SameLife(obj[o], obj[o])
  BY SameItself DEF TypeOK
<1> QED BY <1>1, SendIs, FailIs DEF Connected

\* aioSesCmdSender and aioConnCmdSender.
LEMMA CmdSenderIs ==
  ASSUME TypeOK, NEW o \in Obj, CmdSender(o)
  PROVE  IsFunction(o)
<1>1. obj[o] \in Struct /\ SameLife(obj[o], obj[o])
  BY SameItself DEF TypeOK
<1>2. CASE Run(o, AwaitingLine(obj[o], obj[o].check), <<>>)
  BY <1>1, <1>2, HandlersKeepLife, QuietIs
<1>3. CASE Fail(o, obj[o])
  BY <1>1, <1>3, FailIs
<1>4. CASE Run(o, obj[o], <<>>)
  BY <1>1, <1>4, QuietIs
<1> QED BY <1>2, <1>3, <1>4 DEF CmdSender

\* A reply reader that has no whole line yet.
LEMMA NoLineIs ==
  ASSUME TypeOK, NEW o \in Obj, NoLine(o)
  PROVE  IsFunction(o)
<1>1. obj[o] \in Struct /\ SameLife(obj[o], obj[o])
  BY SameItself DEF TypeOK
<1>2. SameLife(obj[o], Buffer(obj[o], "partial")) /\ (Deaf(o, Buffer(obj[o], "partial")) => Deaf(o, obj[o]))
  BY <1>1, HandlersKeepLife DEF Buffers
<1>3. CASE Fail(o, obj[o])
  BY <1>1, <1>3, FailIs
<1>4. CASE Run(o, obj[o], <<>>)
  BY <1>1, <1>4, QuietIs
<1>5. CASE Run(o, Buffer(obj[o], "partial"), <<>>)
  BY <1>2, <1>5, QuietIs
<1> QED BY <1>3, <1>4, <1>5 DEF NoLine

\* The struct a checker gets, and what it may make of it.
LEMMA Checked ==
  ASSUME TypeOK, NEW o \in Obj, NEW s, s = Buffer(obj[o], "full")
  PROVE  /\ s \in Struct /\ SameLife(obj[o], s) /\ (Deaf(o, s) => Deaf(o, obj[o]))
         /\ Idle(s) \in Struct /\ SameLife(obj[o], Idle(s))
         /\ SameLife(obj[o], Created(s)) /\ ~Deaf(Ses, Created(s))
         /\ SameLife(obj[o], Streaming(s)) /\ ~Deaf(o, Streaming(s))
         /\ \A k : SameLife(obj[o], AwaitingLine(s, k)) /\ ~Deaf(o, AwaitingLine(s, k))
<1>1. obj[o] \in Struct /\ "full" \in Buffers
  BY DEF TypeOK, Buffers
<1>2. s \in Struct /\ SameLife(obj[o], s) /\ (Deaf(o, s) => Deaf(o, obj[o]))
  BY <1>1, HandlersKeepLife
<1>3. \A t : SameLife(s, t) => SameLife(obj[o], t)
  BY <1>2 DEF SameLife
<1> QED BY <1>2, <1>3, HandlersKeepLife

\* aioSesCmdReplyReader and the checkers of a session.
LEMMA SesReaderIs ==
  ASSUME TypeOK, aioSesCmdReplyReader
  PROVE  IsFunction(Ses)
<1>0. Ses \in Obj
  BY DEF Obj
<1>1. CASE NoLine(Ses)
  BY <1>0, <1>1, NoLineIs
<1>2. CASE ~NoLine(Ses)
  <2>1. PICK s : s = Buffer(obj[Ses], "full")
    OBVIOUS
  <2>2. PICK r : r = Line(Ses)
    OBVIOUS
  <2>3. \/ aioSesHelloChecker(s, r) \/ aioSesCreateChecker(s, r) \/ aioSesNameMeChecker(s, r)
        \/ aioSesKeyGenChecker(s, r) \/ aioSesNameResChecker(s, r)
    BY <1>2, <2>1, <2>2 DEF aioSesCmdReplyReader
  <2>4. /\ s \in Struct /\ SameLife(obj[Ses], s) /\ (Deaf(Ses, s) => Deaf(Ses, obj[Ses]))
        /\ Idle(s) \in Struct /\ SameLife(obj[Ses], Idle(s))
        /\ SameLife(obj[Ses], Created(s)) /\ ~Deaf(Ses, Created(s))
    BY <1>0, <2>1, Checked
  <2>5. CASE Fail(Ses, s)
    BY <1>0, <2>4, <2>5, FailIs
  <2>6. ASSUME NEW k, SendCmdWaitReply(Ses, s, k) \/ SendCmdWaitReply(Ses, Idle(s), k)
        PROVE  IsFunction(Ses)
    BY <1>0, <2>4, <2>6, SendIs
  <2>7. CASE aioSesHelloChecker(s, r)
    BY <2>5, <2>6, <2>7 DEF aioSesHelloChecker, aioSesHandshacked, aioSesKeyGenHandshacked,
                            aioSesNameResHandshacked, aioSesSendCmdWaitReply
  <2>8. CASE aioSesCreateChecker(s, r)
    BY <2>5, <2>6, <2>8 DEF aioSesCreateChecker, aioSesSendCmdWaitReply
  <2>9. CASE aioSesNameMeChecker(s, r)
    <3>1. CASE Run(Ses, Created(s), <<F("cbCreated", Ses)>>)
      <4>1. "cbCreated" \in WorkPcs \ {"cbError", "cbAnswer"}
        BY DEF WorkPcs, Pcs, Callbacks
      <4> QED BY <1>0, <2>4, <3>1, <4>1, QuietIs
    <3> QED BY <2>5, <2>9, <3>1 DEF aioSesNameMeChecker
  <2>10. CASE aioSesKeyGenChecker(s, r)
    BY <2>4, <2>5, <2>10, AnswerIs DEF aioSesKeyGenChecker
  <2>11. CASE aioSesNameResChecker(s, r)
    <3>1. CASE Run(Ses, s, <<>>)
      BY <1>0, <2>4, <3>1, QuietIs
    <3>2. CASE Run(Ses, s, <<F("crashed", Ses)>>)
      <4>1. "crashed" \in WorkPcs \ {"cbError", "cbAnswer"}
        BY DEF WorkPcs, Pcs, Callbacks
      <4> QED BY <1>0, <2>4, <3>2, <4>1, QuietIs
    <3>3. CASE Run(Ses, s, <<F("cbAnswer", Ses), F("sesDisconnect", Ses)>>)
      BY <2>4, <3>3, AnswerIs
    <3> QED BY <2>5, <2>11, <3>1, <3>2, <3>3 DEF aioSesNameResChecker
  <2> QED BY <2>3, <2>7, <2>8, <2>9, <2>10, <2>11
<1> QED BY <1>1, <1>2

\* aioConnCmdReplyReader and the checkers of a connection.
LEMMA ConnReaderIs ==
  ASSUME TypeOK, NEW c \in Conns, aioConnCmdReplyReader(c)
  PROVE  IsFunction(c)
<1>0. c \in Obj
  BY DEF Obj
<1>1. CASE NoLine(c)
  BY <1>0, <1>1, NoLineIs
<1>2. CASE ~NoLine(c)
  <2>1. PICK s : s = Buffer(obj[c], "full")
    OBVIOUS
  <2>2. PICK r : r = Line(c)
    OBVIOUS
  <2>3. \/ aioConnHelloChecker(c, s, r) \/ aioConnConnectChecker(c, s, r)
        \/ aioConnAcceptChecker(c, s, r) \/ aioConnAcceptCheckerA(c, s, r)
    BY <1>2, <2>1, <2>2 DEF aioConnCmdReplyReader
  <2>4. /\ s \in Struct /\ SameLife(obj[c], s)
        /\ Idle(s) \in Struct /\ SameLife(obj[c], Idle(s))
        /\ SameLife(obj[c], Streaming(s)) /\ ~Deaf(c, Streaming(s))
        /\ \A k : SameLife(obj[c], AwaitingLine(s, k)) /\ ~Deaf(c, AwaitingLine(s, k))
    BY <1>0, <2>1, Checked
  <2>5. CASE Fail(c, s)
    BY <1>0, <2>4, <2>5, FailIs
  <2>6. ASSUME NEW k, SendCmdWaitReply(c, Idle(s), k)
        PROVE  IsFunction(c)
    BY <1>0, <2>4, <2>6, SendIs
  <2>7. CASE aioConnHelloChecker(c, s, r)
    BY <2>5, <2>6, <2>7 DEF aioConnHelloChecker, aioConConnectHandshacked,
                            aioConAcceptHandshacked, aioConnSendCmdWaitReply
  <2>8. CASE \E p \in {"cbConnected", "cbAccepted"} : Run(c, Streaming(s), <<F(p, c), F("ready", c)>>)
    <3>1. {"cbConnected", "cbAccepted"} \subseteq WorkPcs \ {"cbError", "cbAnswer"}
          /\ "ready" \in WorkPcs
      BY DEF WorkPcs, Pcs, Callbacks
    <3>2. PICK p \in WorkPcs \ {"cbError", "cbAnswer"} : Run(c, Streaming(s), <<F(p, c), F("ready", c)>>)
      BY <2>8, <3>1
    <3> QED BY <1>0, <2>4, <3>1, <3>2, QuietIs
  <2>9. CASE \E k : Run(c, AwaitingLine(s, k), <<>>)
    BY <1>0, <2>4, <2>9, QuietIs
  <2> QED BY <2>3, <2>5, <2>7, <2>8, <2>9
          DEF aioConnConnectChecker, aioConnAcceptChecker, aioConnAcceptCheckerA
<1> QED BY <1>1, <1>2

\* aioConnDataReader, aioConnDataWriter, and what follows cbConnected and cbAccepted.
LEMMA StreamFunctions ==
  ASSUME TypeOK, NEW c \in Conns, ready(c) \/ aioConnDataReader(c) \/ aioConnDataWriter(c)
  PROVE  IsFunction(c)
<1>0. c \in Obj /\ obj[c] \in Struct /\ SameLife(obj[c], obj[c])
  BY SameItself DEF Obj, TypeOK
<1>1. {"cbSent", "cbRead", "connDisconnect"} \subseteq WorkPcs \ {"cbError", "cbAnswer"}
      /\ "readLoop" \in WorkPcs
  BY DEF WorkPcs, Pcs, Callbacks
<1>2. CASE Run(c, obj[c], <<>>)
  BY <1>0, <1>2, QuietIs
<1>3. CASE Fail(c, obj[c])
  BY <1>0, <1>3, FailIs
<1>4. CASE \E p \in {"cbSent", "connDisconnect"} : Run(c, obj[c], <<F(p, c)>>)
  <2>1. PICK p \in WorkPcs \ {"cbError", "cbAnswer"} : Run(c, obj[c], <<F(p, c)>>)
    BY <1>1, <1>4
  <2> QED BY <1>0, <2>1, QuietIs
<1>5. CASE Run(c, obj[c], <<F("cbRead", c), F("readLoop", c)>>)
  <2>1. PICK p \in WorkPcs \ {"cbError", "cbAnswer"} : Run(c, obj[c], <<F(p, c), F("readLoop", c)>>)
    BY <1>1, <1>5
  <2> QED BY <1>0, <1>1, <2>1, QuietIs
<1>6. ASSUME NEW n, Run(c, Queue(obj[c], n), <<>>) \/ Run(c, Queue(obj[c], n), <<F("cbSent", c)>>)
      PROVE  IsFunction(c)
  <2>1. SameLife(obj[c], Queue(obj[c], n)) /\ (Deaf(c, Queue(obj[c], n)) => Deaf(c, obj[c]))
    BY <1>0, HandlersKeepLife
  <2>2. CASE Run(c, Queue(obj[c], n), <<>>)
    BY <1>0, <2>1, <2>2, QuietIs
  <2>3. CASE Run(c, Queue(obj[c], n), <<F("cbSent", c)>>)
    <3>1. PICK p \in WorkPcs \ {"cbError", "cbAnswer"} : Run(c, Queue(obj[c], n), <<F(p, c)>>)
      BY <1>1, <2>3
    <3> QED BY <1>0, <2>1, <3>1, QuietIs
  <2> QED BY <1>6, <2>2, <2>3
<1>7. CASE ready(c)
  BY <1>2, <1>4, <1>7 DEF ready
<1>8. CASE aioConnDataReader(c)
  BY <1>2, <1>3, <1>4, <1>5, <1>8 DEF aioConnDataReader
<1>9. CASE aioConnDataWriter(c)
  BY <1>2, <1>3, <1>6, <1>9 DEF aioConnDataWriter
<1> QED BY <1>7, <1>8, <1>9

\* The processors of a round of sam3aProcessSessionIO.
LEMMA ProcessorsStep ==
  ASSUME SInv, \/ ReadSession \/ WriteSession
               \/ \E c \in Conns : ReadConn(c) \/ WriteConn(c) \/ aioConnDataReader(c) \/ ready(c)
  PROVE  Parts'
<1>0. TypeOK /\ Ses \in Obj /\ Conns \subseteq Obj
  BY DEF SInv, TInv, Obj
<1>1. \A o \in Obj : SameLife(obj[o], obj[o])
  BY SameItself
<1>2. ASSUME NEW o \in Obj, Skip(o) PROVE IsFunction(o)
  BY <1>1, <1>2, QuietIs DEF Skip
<1>3. ASSUME NEW o \in Obj, IsFunction(o), Rest,
             At("readIO", o) \/ At("writeIO", o) \/ At("readLoop", o) \/ At("ready", o)
      PROVE  Parts'
  <2>1. stack # <<>> /\ Head(stack).o = o
        /\ Head(stack).pc \notin {"cascade", "sesDisconnect", "connDisconnect"}
    BY <1>3 DEF At, F
  <2> QED BY <1>3, <2>1, FunctionStep DEF Rest
<1>4. CASE ReadSession
  BY <1>0, <1>2, <1>3, <1>4, SesReaderIs DEF ReadSession
<1>5. CASE WriteSession
  BY <1>0, <1>2, <1>3, <1>5, ConnectedIs, CmdSenderIs DEF WriteSession, aioSesConnected, aioSesCmdSender
<1>6. ASSUME NEW c \in Conns, ReadConn(c) PROVE Parts'
  <2>1. CASE Run(c, obj[c], <<F("readLoop", c)>>)
    <3>1. "readLoop" \in WorkPcs \ {"cbError", "cbAnswer"}
      BY DEF WorkPcs, Pcs, Callbacks
    <3>2. IsFunction(c)
      BY <1>0, <1>1, <2>1, <3>1, QuietIs
    <3> QED BY <1>0, <1>3, <1>6, <3>2 DEF ReadConn
  <2> QED BY <1>0, <1>2, <1>3, <1>6, <2>1, ConnReaderIs DEF ReadConn
<1>7. ASSUME NEW c \in Conns, WriteConn(c) PROVE Parts'
  BY <1>0, <1>2, <1>3, <1>7, ConnectedIs, CmdSenderIs, StreamFunctions
     DEF WriteConn, aioConnConnected, aioConnCmdSender
<1>8. ASSUME NEW c \in Conns, aioConnDataReader(c) \/ ready(c) PROVE Parts'
  BY <1>0, <1>3, <1>8, StreamFunctions DEF aioConnDataReader, ready
<1> QED BY <1>4, <1>5, <1>6, <1>7, <1>8

-----------------------------------------------------------------------------
(* Pushing and disconnecting.                                              *)

\* Calls and returns that change no struct.
LEMMA PushKeeps ==
  ASSUME SInv, NEW fs, NEW r, Steps(fs, r), obj' = obj, connlist' = connlist, desc' = desc,
         r = stack \/ stack[1].pc \notin {"cascade", "sesDisconnect", "connDisconnect"},
         Nested(fs), Lasts(fs), Dying(obj, fs), Working(obj, fs),
         fs # <<>> /\ r # <<>> => Above(fs[Len(fs)], r[1]),
         \A i \in 1..Len(fs), j \in 1..Len(r) :
           fs[i].pc \in {"destroyConn", "freeConn"} => r[j].o # fs[i].o,
         \A i \in 1..Len(fs) : fs[i].pc \notin {"cascade", "cbError", "cbAnswer"},
         \A i \in 1..Len(fs) : fs[i].pc \in {"closeSession", "freeSession"} =>
           fs[i].o = Ses /\ (fs[i].pc = "freeSession" => connlist = <<>>)
  PROVE  Parts'
<1>0. TypeOK /\ Frames /\ Structs /\ Closing /\ Listing /\ Shutting /\ Cascading /\ Ending
  BY DEF SInv, TInv
<1>1. Keeps(obj, obj')
  BY DEF Keeps
<1>2. r = stack \/ \A o \in Obj : stack[1] # Disc(o)
  BY DiscFrame
<1>3. Frames'
  BY <1>0, <1>1, <1>2, FramesKept
<1>4. Structs'
  BY <1>0, StructsKept DEF Working
<1>5. Closing'
  BY <1>0, ClosingKept
<1>6. Listing'
  BY <1>0, ListingKept
<1>7. Shutting'
  BY <1>0, ShuttingKept
<1>8. Cascading'
  BY <1>0, <1>1, CascadingKept
<1>9. \A x \in Obj : ~TellsEnd(x, fs)
  <2> SUFFICES ASSUME NEW x \in Obj, TellsEnd(x, fs) PROVE FALSE
    OBVIOUS
  <2>1. 1 \in 1..Len(fs) /\ Head(fs) = fs[1]
    BY Popped DEF TellsEnd, Steps
  <2> QED BY <2>1 DEF TellsEnd
<1>10. Ending'
  BY <1>0, <1>2, <1>9, EndingKept
<1> QED BY <1>3, <1>4, <1>5, <1>6, <1>7, <1>8, <1>10 DEF Parts

\* The step that pops a frame and changes nothing but the stack.
LEMMA SameStruct ==
  ASSUME TypeOK, NEW o \in Obj, NEW fs, Run(o, obj[o], fs)
  PROVE  obj' = obj
BY DEF Run, TypeOK

\* What stands at the bottom of the stack.
LEMMA Bottom ==
  ASSUME TypeOK, Frames, stack # <<>>, Head(stack).pc \in {"walk", "closeSession", "freeSession"}
  PROVE  Tail(stack) = <<>>
<1>1. stack \in Seq(Frame)
  BY DEF TypeOK
<1>2. /\ Tail(stack) \in Seq(Frame) /\ Head(stack) = stack[1]
      /\ Len(Tail(stack)) = Len(stack) - 1 /\ Len(stack) \in Nat \ {0}
  BY <1>1, Popped
<1>3. Len(stack) > 1 => Above(stack[1], Tail(stack)[1])
  BY <1>1, PoppedFrames DEF Frames
<1>4. Len(Tail(stack)) = 0
  BY <1>2, <1>3 DEF Above
<1> QED BY <1>2, <1>4, EmptySeq

\* A socket that is shut is that of the struct: descriptor 0 is not its.
LEMMA OwnSocketShut ==
  ASSUME NEW o \in Obj, NEW s, s.fd = "own", Shutdown(o, s)
  PROVE  desc' = [desc EXCEPT ![o] = "shut"]
BY DEF Shutdown

\* connDisconnect shuts and cancels an active connection, and quiets any.
LEMMA ConnDisconnectStep ==
  ASSUME SInv, NEW c \in Conns, connDisconnect(c)
  PROVE  Parts'
<1>0. c \in Obj /\ c # Ses /\ TypeOK
  BY ConstantsAssumption DEF Obj, SInv, TInv
<1>1. stack # <<>> /\ Head(stack).o = c /\ Head(stack).pc = "connDisconnect" /\ connlist' = connlist
  BY DEF connDisconnect, At, F
<1>2. obj[c].mem = "live" /\ obj[c].fd = "own" /\ obj[c] \in Struct
  BY <1>0, <1>1, Runner
<1> DEFINE s == Cancelled(Quiet(obj[c]))
<1>3. s.mem = "live" /\ s.fd = "own" /\ s.cancelled
      /\ SameLife(obj[c], Quiet(obj[c]))
  BY <1>2, DisconnectLife
<1> HIDE DEF s
<1>4. "cbDisconnected" \in WorkPcs
  BY DEF WorkPcs, Pcs, Callbacks
<1>5. CASE IsActive(obj[c])
  <2>1. PICK fs : fs \in {<<F("cbDisconnected", c)>>, <<>>} /\ Run(c, s, fs)
    BY <1>5 DEF connDisconnect, s
  <2>2. Work(c, fs)
    BY <1>0, <1>4, <2>1, WorkFramesAre
  <2>3. desc' = [desc EXCEPT ![c] = "shut"]
    BY <1>0, <1>2, <1>5, OwnSocketShut DEF connDisconnect
  <2> QED BY <1>0, <1>1, <1>3, <2>1, <2>2, <2>3, FunctionKeeps
<1>6. CASE ~IsActive(obj[c])
  <2>1. obj[c].cancelled
    BY <1>2, <1>6 DEF IsActive
  <2>2. Run(c, Quiet(obj[c]), <<>>) /\ desc' = desc
    BY <1>6 DEF connDisconnect
  <2>3. Quiet(obj[c]).mem = "live" /\ Quiet(obj[c]).fd = "own" /\ Quiet(obj[c]).cancelled
        /\ Quiet(obj[c]).cancelled = obj[c].cancelled
    BY <1>2, <1>3, <2>1 DEF SameLife
  <2>4. Work(c, <<>>)
    BY <1>0, WorkFramesAre
  <2> QED BY <1>0, <1>1, <2>1, <2>2, <2>3, <2>4, FunctionKeeps
<1> QED BY <1>5, <1>6

\* sesDisconnect shuts and cancels an active session, and starts its loop.
LEMMA SesDisconnectStep ==
  ASSUME SInv, sesDisconnect
  PROVE  Parts'
<1>0. Ses \in Obj /\ Ses \notin Conns /\ TypeOK /\ Frames /\ Structs /\ Closing /\ Listing
      /\ Shutting /\ Cascading /\ Ending
  BY ConstantsAssumption DEF Obj, SInv, TInv
<1>1. stack # <<>> /\ Head(stack).o = Ses /\ Head(stack).pc = "sesDisconnect" /\ connlist' = connlist
  BY DEF sesDisconnect, At, F
<1>2. obj[Ses].mem = "live" /\ obj[Ses].fd = "own" /\ obj[Ses] \in Struct
      /\ Head(stack) = stack[1] /\ 1 \in 1..Len(stack)
  BY <1>0, <1>1, Runner
<1> DEFINE s == Cancelled(Quiet(obj[Ses]))
<1>3. s.mem = "live" /\ s.fd = "own" /\ s.cancelled
      /\ SameLife(obj[Ses], Quiet(obj[Ses]))
  BY <1>2, DisconnectLife
<1> HIDE DEF s
<1>4. CASE ~IsActive(obj[Ses])
  <2>1. obj[Ses].cancelled
    BY <1>2, <1>4 DEF IsActive
  <2>2. Run(Ses, Quiet(obj[Ses]), <<>>) /\ desc' = desc
    BY <1>4 DEF sesDisconnect
  <2>3. Quiet(obj[Ses]).mem = "live" /\ Quiet(obj[Ses]).fd = "own" /\ Quiet(obj[Ses]).cancelled
        /\ Quiet(obj[Ses]).cancelled = obj[Ses].cancelled
    BY <1>2, <1>3, <2>1 DEF SameLife
  <2>4. Work(Ses, <<>>)
    BY <1>0, WorkFramesAre
  <2> QED BY <1>0, <1>1, <2>1, <2>2, <2>3, <2>4, FunctionKeeps
<1>5. CASE IsActive(obj[Ses])
  <2> DEFINE fs == <<F("cascade", Ses)>>
  <2>1. Run(Ses, s, fs)
    BY <1>5 DEF sesDisconnect, s
  <2>2. fs \in Seq(Frame) /\ Len(fs) = 1 /\ fs[1].pc = "cascade" /\ fs[1].o = Ses /\ fs # <<>>
    BY <1>0 DEF F, Frame, Pcs
  <2> HIDE DEF fs
  <2>3. desc' = [desc EXCEPT ![Ses] = "shut"]
    BY <1>0, <1>2, <1>5, OwnSocketShut DEF sesDisconnect
  <2>4. /\ Steps(fs, Tail(stack)) /\ obj'[Ses] = s
        /\ \A x \in Obj : x # Ses => obj'[x] = obj[x]
    BY <1>0, <1>1, <2>1, <2>2, RunSteps
  <2>5. Keeps(obj, obj')
    BY <1>2, <1>3, <2>4 DEF Keeps
  <2>6. \A x \in Obj : stack[1] = Disc(x) => obj'[x].cancelled
    BY <1>1, <1>2, <1>3, <2>4, DiscFrame
  <2>7. Nested(fs) /\ Lasts(fs) /\ Working(obj', fs) /\ Dying(obj', fs)
    BY <1>3, <2>2, <2>4 DEF Nested, Lasts, Working, Dying
  <2>8. ASSUME Tail(stack) # <<>> PROVE Above(fs[Len(fs)], Tail(stack)[1])
    <3>1. Above(stack[1], Tail(stack)[1])
      <4>1. stack \in Seq(Frame)
        BY <1>0 DEF TypeOK
      <4>2. Len(stack) > 1
        BY <1>1, <2>8, <4>1, Popped, EmptySeq
      <4> QED BY <1>0, <1>1, <4>1, <4>2, PoppedFrames DEF Frames
    <3> QED BY <1>0, <1>1, <1>2, <2>2, <3>1 DEF Above, IsConnCode
  <2>9. Frames'
    <3>1. \A i \in 1..Len(fs) : fs[i].pc \notin {"destroyConn", "freeConn"}
      BY <2>2
    <3> QED BY <1>0, <2>4, <2>5, <2>6, <2>7, <2>8, <3>1, FramesKept
  <2>10. Structs'
    BY <1>0, <1>2, <1>3, <2>2, <2>4, StructsKept
  <2>11. Closing'
    BY <1>0, <1>1, <2>2, <2>4, ClosingKept
  <2>12. Listing'
    BY <1>0, <1>1, <1>2, <1>3, <2>4, ListingKept
  <2>13. Shutting'
    <3>1. Foreign # Ses /\ Foreign \in Descriptors /\ Ses \in Descriptors
          /\ Obj \subseteq Descriptors
      BY <1>0, ConstantsAssumption DEF Descriptors, Foreign
    <3>2. desc'[Ses] = "shut" /\ desc'[Foreign] = desc[Foreign]
          /\ \A x \in Obj : x # Ses => desc'[x] = desc[x]
      BY <1>0, <2>3, <3>1 DEF TypeOK
    <3> QED BY <1>0, <2>4, <3>2, ShuttingKept
  <2>14. Cascading'
    <3>0. stack' \in Seq(Frame) /\ 1 \in 1..Len(stack') /\ stack'[1] = fs[1]
          /\ DOMAIN stack' = 1..Len(stack')
      <4>1. /\ stack' \in Seq(Frame) /\ Len(Tail(stack)) \in Nat
            /\ Len(stack') = Len(fs) + Len(Tail(stack))
            /\ \A i \in 1..Len(fs) : stack'[i] = fs[i]
        BY <2>4, Stacked DEF Steps
      <4>2. Len(stack') >= 1 /\ Len(stack') \in Nat /\ stack'[1] = fs[1]
        BY <2>2, <4>1
      <4>3. DOMAIN stack' = 1..Len(stack')
        BY <4>1, LenProperties
      <4> QED BY <4>1, <4>2, <4>3
    <3>1. CascadeComplete'
      BY <2>2, <3>0 DEF CascadeComplete, OnStack
    <3>2. ASSUME NEW i \in 1..Len(stack'), stack'[i].pc = "cascade"
          PROVE  /\ obj'[Ses].cancelled
                 /\ \A p, q \in 1..Len(connlist) :
                      p < q /\ connlist[q] = stack'[i].o => obj'[connlist[p]].cancelled
      <4>1. CASE \E k \in 1..Len(fs) : stack'[i] = fs[k]
        <5>1. stack'[i].o = Ses
          BY <2>2, <4>1
        <5>2. \A q \in 1..Len(connlist) : connlist[q] # Ses
          BY <1>0 DEF TypeOK
        <5> QED BY <1>3, <2>4, <5>1, <5>2
      <4>2. CASE \E k \in 1..Len(stack) : stack'[i] = stack[k]
        <5>1. obj[Ses].cancelled
          BY <1>0, <3>2, <4>2 DEF Cascading
        <5> QED BY <1>5, <5>1 DEF IsActive
      <4> QED BY <1>0, <2>4, <4>1, <4>2, FrameFrom
    <3> QED BY <1>1, <3>1, <3>2 DEF Cascading
  <2>15. Ending'
    <3> SUFFICES ASSUME NEW x \in Obj, obj'[x].mem = "live", ~obj'[x].cancelled
                 PROVE  /\ obj[x].mem = "live" /\ ~obj[x].cancelled
                        /\ Deaf(x, obj'[x]) => Deaf(x, obj[x])
                        /\ ~TellsEnd(x, fs) /\ stack[1] # Disc(x)
      BY <1>0, <2>4, EndingKept
    <3>1. x # Ses /\ obj'[x] = obj[x]
      BY <1>3, <2>4
    <3>2. stack[1] # Disc(x)
      BY <1>1, <1>2, <3>1, DiscFrame
    <3>3. ~TellsEnd(x, fs)
      BY <2>2 DEF TellsEnd
    <3> QED BY <3>1, <3>2, <3>3
  <2> QED BY <2>9, <2>10, <2>11, <2>12, <2>13, <2>14, <2>15 DEF Parts
<1> QED BY <1>4, <1>5

-----------------------------------------------------------------------------
(* The loop of sesDisconnect.                                              *)

\* Where a connection of the list stands.
LEMMA Placed ==
  ASSUME TypeOK, ListIntegrity, NEW c \in Conns, obj[c].mem = "live"
  PROVE  /\ Listed(c) /\ Pos(c) \in 1..Len(connlist) /\ connlist[Pos(c)] = c
         /\ \A q \in 1..Len(connlist) : connlist[q] = c => q = Pos(c)
<1>0. c \in Obj /\ c # Ses /\ connlist \in Seq(Conns) /\ DOMAIN connlist = 1..Len(connlist)
  BY ConstantsAssumption, LenProperties DEF Obj, TypeOK
<1>1. Listed(c)
  BY DEF ListIntegrity, Listed
<1>2. Pos(c) \in 1..Len(connlist) /\ connlist[Pos(c)] = c
  BY <1>0, <1>1, PosType
<1> QED BY <1>0, <1>1, <1>2 DEF ListIntegrity

\* What is in the list is an allocated connection.
LEMMA ListedLive ==
  ASSUME TypeOK, ListIntegrity, NEW i \in 1..Len(connlist)
  PROVE  connlist[i] \in Conns /\ obj[connlist[i]].mem = "live"
<1>0. connlist \in Seq(Conns) /\ DOMAIN connlist = 1..Len(connlist)
  BY LenProperties DEF TypeOK
<1> QED BY <1>0 DEF ListIntegrity

\* The loop of sesDisconnect disconnects the next connection, or has been through
\* all of them: those before the one it has done are cancelled.
LEMMA CascadeStep ==
  ASSUME SInv, NEW o \in Obj, sesDisconnectLoop(o)
  PROVE  Parts'
<1>0. Ses \in Obj /\ Ses \notin Conns /\ TypeOK /\ Frames /\ Structs /\ Closing /\ Listing
      /\ Shutting /\ Cascading /\ Ending /\ ListIntegrity
  BY ConstantsAssumption DEF Obj, SInv, TInv, Listing
<1>1. /\ stack # <<>> /\ Head(stack).o = o /\ Head(stack).pc = "cascade"
      /\ connlist' = connlist /\ desc' = desc
  BY DEF sesDisconnectLoop, At, F
<1>2. /\ obj[o].mem = "live" /\ Head(stack) = stack[1] /\ 1 \in 1..Len(stack)
      /\ stack[1].pc = "cascade" /\ stack[1].o = o
  BY <1>0, <1>1, Runner
<1>3. stack \in Seq(Frame) /\ connlist \in Seq(Conns) /\ Len(connlist) \in Nat
      /\ DOMAIN connlist = 1..Len(connlist)
  BY <1>0, LenProperties DEF TypeOK
\* what stands before o in the list is cancelled, and o is
<1>4. /\ obj[Ses].cancelled
      /\ \A p, q \in 1..Len(connlist) : p < q /\ connlist[q] = o => obj[connlist[p]].cancelled
  BY <1>0, <1>2 DEF Cascading
<1>5. obj[o].cancelled
  BY <1>0, <1>2 DEF Frames, Dying
<1>6. Pos(o) \in 0..Len(connlist) /\ \A p \in 1..Len(connlist) : p <= Pos(o) => obj[connlist[p]].cancelled
  <2>1. CASE o = Ses
    BY <2>1, <1>3 DEF Pos
  <2>2. CASE o # Ses
    <3>1. o \in Conns
      BY <2>2 DEF Obj
    <3>2. Pos(o) \in 1..Len(connlist) /\ connlist[Pos(o)] = o
      BY <1>0, <1>2, <3>1, Placed
    <3>3. ASSUME NEW p \in 1..Len(connlist), p <= Pos(o) PROVE obj[connlist[p]].cancelled
      BY <1>3, <1>4, <1>5, <3>2, <3>3
    <3> QED BY <3>2, <3>3
  <2> QED BY <2>1, <2>2
<1>7. obj[Ses].mem = "live"
  <2>1. CASE o = Ses
    BY <1>2, <2>1
  <2>2. CASE o # Ses
    <3>1. o \in Conns
      BY <2>2 DEF Obj
    <3>2. connlist # <<>>
      BY <1>0, <1>2, <1>3, <3>1, Placed, EmptySeq
    <3> QED BY <1>0, <3>2 DEF Listing
  <2> QED BY <2>1, <2>2
<1>8. ASSUME Tail(stack) # <<>>
      PROVE  ~IsConnCode(Tail(stack)[1])
  <2>1. Len(stack) > 1
    BY <1>1, <1>3, <1>8, Popped, EmptySeq
  <2>2. Above(stack[1], Tail(stack)[1])
    BY <1>0, <1>1, <1>3, <2>1, PoppedFrames DEF Frames
  <2> QED BY <1>2, <2>2 DEF Above
<1>9. obj' = obj
  BY <1>0, SameStruct DEF sesDisconnectLoop
<1>10. Keeps(obj, obj') /\ Structs /\ \A x \in Obj : stack[1] # Disc(x)
  BY <1>0, <1>2, <1>9, DiscFrame DEF Keeps
\* whatever the loop pushes, these hold
<1>11. ASSUME NEW fs \in Seq(Frame), Run(Ses, obj[Ses], fs), Nested(fs), Lasts(fs),
              Dying(obj, fs), Working(obj, fs),
              fs # <<>> => fs[Len(fs)].pc \notin {"walk", "closeSession", "freeSession"},
              \A i \in 1..Len(fs) : fs[i].pc \notin
                {"destroyConn", "freeConn", "cbError", "cbAnswer", "closeSession", "freeSession"}
       PROVE  /\ Frames' /\ Structs' /\ Closing' /\ Listing' /\ Shutting' /\ Ending'
              /\ Steps(fs, Tail(stack))
  <2>1. Steps(fs, Tail(stack))
    BY <1>0, <1>1, <1>11, RunSteps
  <2>2. fs # <<>> /\ Tail(stack) # <<>> => Above(fs[Len(fs)], Tail(stack)[1])
    BY <1>8, <1>11 DEF Above
  <2>3. Frames'
    BY <1>0, <1>9, <1>10, <1>11, <2>1, <2>2, FramesKept
  <2>4. Structs'
    BY <1>0, <1>9, <1>11, <2>1, StructsKept DEF Working
  <2>5. Closing'
    BY <1>0, <1>1, <1>11, <2>1, ClosingKept
  <2>6. Listing'
    BY <1>0, <1>1, <1>9, ListingKept
  <2>7. Shutting'
    BY <1>0, <1>1, <1>9, ShuttingKept
  <2>8. \A x \in Obj : ~TellsEnd(x, fs)
    <3> SUFFICES ASSUME NEW x \in Obj, TellsEnd(x, fs) PROVE FALSE
      OBVIOUS
    <3>1. 1 \in 1..Len(fs) /\ Head(fs) = fs[1]
      BY Popped DEF TellsEnd
    <3> QED BY <1>11, <3>1 DEF TellsEnd
  <2>9. Ending'
    BY <1>0, <1>9, <1>10, <2>1, <2>8, EndingKept
  <2> QED BY <2>1, <2>3, <2>4, <2>5, <2>6, <2>7, <2>9
\* the loop goes on with the next connection
<1>12. CASE HasNext(o)
  <2>1. PICK d : d = Successor(o)
    OBVIOUS
  <2>2. Pos(o) + 1 \in 1..Len(connlist) /\ connlist[Pos(o) + 1] = d
    BY <1>3, <1>6, <1>12, <2>1 DEF HasNext, Successor
  <2>3. d \in Conns /\ obj[d].mem = "live" /\ d \in Obj
    BY <1>0, <2>2, ListedLive DEF Obj
  <2> DEFINE fs == <<F("connDisconnect", d), F("cascade", d)>>
  <2>4. Run(Ses, obj[Ses], fs)
    BY <1>12, <2>1 DEF sesDisconnectLoop
  <2>5. /\ fs \in Seq(Frame) /\ Len(fs) = 2 /\ fs[1] = Disc(d)
        /\ fs[1].pc = "connDisconnect" /\ fs[1].o = d /\ fs[2].pc = "cascade" /\ fs[2].o = d
    BY <1>0, <2>3 DEF F, Frame, Pcs, Disc
  <2> HIDE DEF fs
  <2>6. Nested(fs) /\ Lasts(fs) /\ Working(obj, fs)
    BY <2>3, <2>5 DEF Nested, Above, Lasts, Working
  <2>7. Dying(obj, fs)
    BY <2>5 DEF Dying
  <2>8. \A i \in 1..Len(fs) : fs[i].pc \notin
          {"destroyConn", "freeConn", "cbError", "cbAnswer", "closeSession", "freeSession"}
    BY <2>5
  <2>9. /\ Frames' /\ Structs' /\ Closing' /\ Listing' /\ Shutting' /\ Ending'
        /\ Steps(fs, Tail(stack))
    BY <1>11, <2>4, <2>5, <2>6, <2>7, <2>8
  <2>10. Cascading'
    <3>0. stack' \in Seq(Frame) /\ 2 \in 1..Len(stack') /\ stack'[2] = fs[2]
          /\ DOMAIN stack' = 1..Len(stack')
      <4>1. /\ stack' \in Seq(Frame) /\ Len(Tail(stack)) \in Nat
            /\ Len(stack') = Len(fs) + Len(Tail(stack))
            /\ \A i \in 1..Len(fs) : stack'[i] = fs[i]
        BY <2>9, Stacked DEF Steps
      <4>2. Len(stack') >= 2 /\ Len(stack') \in Nat /\ stack'[2] = fs[2]
        BY <2>5, <4>1
      <4>3. DOMAIN stack' = 1..Len(stack')
        BY <4>1, LenProperties
      <4> QED BY <4>1, <4>2, <4>3
    <3>1. CascadeComplete'
      BY <2>5, <3>0 DEF CascadeComplete, OnStack
    <3>2. ASSUME NEW i \in 1..Len(stack'), stack'[i].pc = "cascade"
          PROVE  /\ obj'[Ses].cancelled
                 /\ \A p, q \in 1..Len(connlist) :
                      p < q /\ connlist[q] = stack'[i].o => obj'[connlist[p]].cancelled
      <4>1. CASE \E k \in 1..Len(fs) : stack'[i] = fs[k]
        <5>1. stack'[i].o = d
          BY <2>5, <4>1
        <5>2. ASSUME NEW p \in 1..Len(connlist), NEW q \in 1..Len(connlist), p < q, connlist[q] = d
              PROVE  obj[connlist[p]].cancelled
          <6>1. q = Pos(o) + 1
            BY <1>0, <1>3, <2>2, <5>2 DEF ListIntegrity
          <6>2. p <= Pos(o)
            BY <1>3, <1>6, <5>2, <6>1
          <6> QED BY <1>6, <6>2
        <5> QED BY <1>4, <1>9, <5>1, <5>2
      <4>2. CASE \E k \in 1..Len(stack) : stack'[i] = stack[k]
        BY <1>0, <1>9, <3>2, <4>2 DEF Cascading
      <4> QED BY <1>0, <2>9, <4>1, <4>2, FrameFrom
    <3> QED BY <1>1, <3>1, <3>2 DEF Cascading
  <2> QED BY <2>9, <2>10 DEF Parts
\* ... or is through
<1>13. CASE ~HasNext(o)
  <2>1. PICK fs : fs \in {<<F("cbDisconnected", Ses)>>, <<>>} /\ Run(Ses, obj[Ses], fs)
    BY <1>13 DEF sesDisconnectLoop
  <2>2. fs \in Seq(Frame) /\ Work(Ses, fs) /\ \A i \in 1..Len(fs) : fs[i].pc = "cbDisconnected"
    <3>1. "cbDisconnected" \in WorkPcs
      BY DEF WorkPcs, Pcs, Callbacks
    <3>2. Work(Ses, <<>>) /\ Work(Ses, <<F("cbDisconnected", Ses)>>)
      BY <1>0, <3>1, WorkFramesAre
    <3>3. \A i \in 1..Len(fs) : fs[i].pc = "cbDisconnected"
      BY <2>1 DEF F
    <3> QED BY <2>1, <3>2, <3>3 DEF Work
  <2>3. Nested(fs) /\ Lasts(fs) /\ Dying(obj, fs) /\ Working(obj, fs)
    BY <1>0, <1>7, <2>2, WorkShape
  <2>4. fs # <<>> => fs[Len(fs)].pc \notin {"walk", "closeSession", "freeSession"}
    BY <2>1 DEF F
  <2>5. /\ Frames' /\ Structs' /\ Closing' /\ Listing' /\ Shutting' /\ Ending'
        /\ Steps(fs, Tail(stack))
    BY <1>11, <2>1, <2>2, <2>3, <2>4
  <2>6. \A p \in 1..Len(connlist) : obj[connlist[p]].cancelled
    BY <1>3, <1>6, <1>13 DEF HasNext
  <2>7. CascadeComplete'
    BY <1>1, <1>3, <1>9, <2>6 DEF CascadeComplete
  <2>8. ASSUME NEW i \in 1..Len(stack') PROVE obj'[Ses].cancelled
    BY <1>4, <1>9
  <2>9. Cascading'
    BY <1>1, <1>4, <1>9, <2>6, <2>7 DEF Cascading
  <2> QED BY <2>5, <2>9 DEF Parts
<1> QED BY <1>12, <1>13

-----------------------------------------------------------------------------
(* sam3aCloseSession.                                                      *)

\* sam3aCloseConnection calls cbDestroy when the connection is cancelled.
LEMMA DestroyStep ==
  ASSUME SInv, NEW c \in Conns, destroyConn(c)
  PROVE  Parts'
<1>0. c \in Obj /\ c # Ses /\ TypeOK /\ Frames
  BY ConstantsAssumption DEF Obj, SInv, TInv
<1>1. /\ stack # <<>> /\ Head(stack).o = c /\ Head(stack).pc = "destroyConn"
      /\ connlist' = connlist /\ desc' = desc
  BY DEF destroyConn, At, F
<1>2. /\ obj[c].mem = "live" /\ Head(stack) = stack[1] /\ 1 \in 1..Len(stack)
      /\ stack \in Seq(Frame)
  BY <1>0, <1>1, Runner DEF TypeOK
<1>3. obj[c].cancelled
  BY <1>0, <1>1, <1>2 DEF Frames, Dying
<1> DEFINE fs == <<F("cbDestroy", c), F("freeConn", c)>>
<1>4. Run(c, obj[c], fs)
  BY DEF destroyConn
<1>5. /\ fs \in Seq(Frame) /\ Len(fs) = 2 /\ fs[1].pc = "cbDestroy" /\ fs[1].o = c
      /\ fs[2].pc = "freeConn" /\ fs[2].o = c
  BY <1>0 DEF F, Frame, Pcs, Callbacks
<1> HIDE DEF fs
<1>6. obj' = obj /\ Steps(fs, Tail(stack))
  BY <1>0, <1>1, <1>4, <1>5, SameStruct, RunSteps
<1>7. Nested(fs) /\ Lasts(fs) /\ Working(obj, fs) /\ Dying(obj, fs)
  BY <1>2, <1>3, <1>5 DEF Nested, Above, Lasts, Working, Dying
<1>8. \A j \in 1..Len(Tail(stack)) : Tail(stack)[j].o # c
  BY <1>0, <1>1, <1>2, PoppedFrames DEF Frames
<1>9. ASSUME Tail(stack) # <<>> PROVE Above(fs[2], Tail(stack)[1])
  <2>1. 1 \in 1..Len(Tail(stack)) /\ Len(stack) > 1
    BY <1>1, <1>2, <1>9, Popped, EmptySeq
  <2>2. Above(stack[1], Tail(stack)[1])
    BY <1>0, <1>1, <1>2, <2>1, PoppedFrames DEF Frames
  <2> QED BY <1>1, <1>2, <1>5, <2>2 DEF Above
<1>10. \A i \in 1..Len(fs) : fs[i].o = c /\ fs[i].pc \notin
         {"cascade", "cbError", "cbAnswer", "closeSession", "freeSession"}
  BY <1>5
<1>11. stack[1].pc \notin {"cascade", "sesDisconnect", "connDisconnect"}
  BY <1>1, <1>2
<1>12. fs # <<>> /\ Tail(stack) # <<>> => Above(fs[Len(fs)], Tail(stack)[1])
  BY <1>5, <1>9
<1> QED BY <1>1, <1>6, <1>7, <1>8, <1>10, <1>11, <1>12, PushKeeps

\* The frames of sam3aCloseConnection, on a stack without the connection.
LEMMA CloseFrames ==
  ASSUME NEW c \in Conns, NEW ob, ob[c].mem = "live", NEW fs, fs = CloseConnFrames(c)
  PROVE  /\ fs \in Seq(Frame) /\ Len(fs) = 2 /\ fs # <<>>
         /\ fs[1].pc = "connDisconnect" /\ fs[1].o = c
         /\ fs[2].pc = "destroyConn" /\ fs[2].o = c
         /\ \A i \in 1..Len(fs) : fs[i].o = c /\ fs[i].pc \in {"connDisconnect", "destroyConn"}
         /\ Nested(fs) /\ Lasts(fs) /\ Working(ob, fs) /\ Dying(ob, fs)
<1>0. c \in Obj /\ c # Ses
  BY ConstantsAssumption DEF Obj
<1>1. /\ fs \in Seq(Frame) /\ Len(fs) = 2 /\ fs # <<>>
      /\ fs[1].pc = "connDisconnect" /\ fs[1].o = c /\ fs[1] = Disc(c)
      /\ fs[2].pc = "destroyConn" /\ fs[2].o = c
  BY <1>0 DEF CloseConnFrames, F, Frame, Pcs, Disc
<1> QED BY <1>1 DEF Nested, Above, Lasts, Working, Dying

\* The empty stack has no frame.
LEMMA NoFrames == \A j \in 1..Len(<<>>) : FALSE
OBVIOUS

\* One frame behind others.
LEMMA OneMore ==
  ASSUME NEW cf \in Seq(Frame), NEW g \in Frame, NEW fs, fs = cf \o <<g>>
  PROVE  /\ fs \in Seq(Frame) /\ Len(fs) = Len(cf) + Len(<<g>>)
         /\ \A i \in 1..Len(cf) : fs[i] = cf[i]
         /\ \A i \in 1..Len(<<g>>) : fs[Len(cf) + i] = <<g>>[i]
<1>1. <<g>> \in Seq(Frame)
  OBVIOUS
<1> QED BY <1>1, Stacked

\* sam3aCloseSession closes the next connection, or calls cbDestroy.
LEMMA CloseSessionStep ==
  ASSUME SInv, closeSession
  PROVE  Parts'
<1>0. Ses \in Obj /\ TypeOK /\ Frames /\ Listing /\ ListIntegrity
  BY DEF Obj, SInv, TInv, Listing
<1>1. /\ stack # <<>> /\ Head(stack).o = Ses /\ Head(stack).pc = "closeSession"
      /\ connlist' = connlist /\ desc' = desc
  BY DEF closeSession, At, F
<1>2. /\ obj[Ses].mem = "live" /\ Head(stack) = stack[1] /\ 1 \in 1..Len(stack)
      /\ stack \in Seq(Frame)
  BY <1>0, <1>1, Runner DEF TypeOK
<1>3. obj[Ses].cancelled
  BY <1>0, <1>1, <1>2 DEF Frames, Dying
<1>4. Tail(stack) = <<>>
  BY <1>0, <1>1, Bottom
<1>5. obj' = obj
  BY <1>0, SameStruct DEF closeSession
<1>6. stack[1].pc \notin {"cascade", "sesDisconnect", "connDisconnect"}
  BY <1>1, <1>2
<1>7. ASSUME NEW fs \in Seq(Frame), Run(Ses, obj[Ses], fs), Nested(fs), Lasts(fs),
             Dying(obj, fs), Working(obj, fs),
             \A i \in 1..Len(fs) : fs[i].pc \notin {"cascade", "cbError", "cbAnswer"},
             \A i \in 1..Len(fs) : fs[i].pc \in {"closeSession", "freeSession"} =>
               fs[i].o = Ses /\ (fs[i].pc = "freeSession" => connlist = <<>>)
      PROVE  Parts'
  <2>1. Steps(fs, Tail(stack))
    BY <1>0, <1>1, <1>7, RunSteps
  <2>2. \A j \in 1..Len(Tail(stack)) : FALSE
    <3>1. \A j \in 1..Len(<<>>) : FALSE
      BY NoFrames
    <3> QED BY <1>4, <3>1
  <2> QED BY <1>1, <1>4, <1>5, <1>6, <1>7, <2>1, <2>2, PushKeeps
\* the next connection is closed, and the loop comes back
<1>8. CASE connlist # <<>>
  <2>1. PICK c : c = Head(connlist)
    OBVIOUS
  <2>2. c \in Conns /\ obj[c].mem = "live"
    <3>1. 1 \in 1..Len(connlist) /\ c = connlist[1]
      BY <1>0, <1>8, <2>1, EmptySeq, LenProperties DEF TypeOK
    <3> QED BY <1>0, <3>1, ListedLive
  <2>3. PICK cf : cf = CloseConnFrames(c)
    OBVIOUS
  <2>4. PICK fs : fs = cf \o <<F("closeSession", Ses)>>
    OBVIOUS
  <2>5. Run(Ses, obj[Ses], fs)
    BY <1>8, <2>1, <2>3, <2>4 DEF closeSession
  <2>6. /\ cf \in Seq(Frame) /\ Len(cf) = 2 /\ cf[1].pc = "connDisconnect" /\ cf[1].o = c
        /\ cf[2].pc = "destroyConn" /\ cf[2].o = c /\ cf[1] = Disc(c)
    <3>1. c \in Obj /\ c # Ses
      BY <2>2, ConstantsAssumption DEF Obj
    <3> QED BY <2>3, <3>1 DEF CloseConnFrames, F, Frame, Pcs, Disc
  <2>7. PICK g : g = F("closeSession", Ses)
    OBVIOUS
  <2>8. g \in Frame /\ g.pc = "closeSession" /\ g.o = Ses
    BY <1>0, <2>7 DEF F, Frame, Pcs
  <2>9. fs \in Seq(Frame) /\ Len(fs) = 3 /\ fs[1] = cf[1] /\ fs[2] = cf[2] /\ fs[3] = g
    <3>1. <<g>> \in Seq(Frame) /\ Len(<<g>>) = 1 /\ <<g>>[1] = g
      BY <2>8
    <3>2. fs \in Seq(Frame) /\ Len(fs) = 3
          /\ (\A i \in 1..2 : fs[i] = cf[i]) /\ \A i \in 1..1 : fs[2 + i] = <<g>>[i]
      <4>1. fs = cf \o <<g>>
        BY <2>4, <2>7
      <4>2. /\ fs \in Seq(Frame) /\ Len(fs) = Len(cf) + Len(<<g>>)
            /\ \A i \in 1..Len(cf) : fs[i] = cf[i]
            /\ \A i \in 1..Len(<<g>>) : fs[Len(cf) + i] = <<g>>[i]
        <5>1. cf \in Seq(Frame) /\ g \in Frame
          BY <2>6, <2>8
        <5> QED BY <4>1, <5>1, OneMore
      <4>3. Len(cf) = 2 /\ Len(<<g>>) = 1
        BY <2>6, <3>1
      <4> QED BY <4>2, <4>3
    <3> QED BY <3>1, <3>2
  <2>10. c # Ses
    BY <2>2, ConstantsAssumption
  <2>11. Nested(fs) /\ Lasts(fs)
    <3>1. Above(fs[1], fs[2])
      BY <2>6, <2>9 DEF Above
    <3>2. Above(fs[2], fs[3])
      BY <2>6, <2>8, <2>9, ConstantsAssumption DEF Above, IsConnCode
    <3>3. Nested(fs)
      <4>1. \A i \in 1..(Len(fs) - 1) : i = 1 \/ i = 2
        BY <2>9
      <4> QED BY <3>1, <3>2, <4>1 DEF Nested
    <3>4. Lasts(fs)
      <4>1. \A i, j \in 1..Len(fs) : i < j => (i = 1 /\ fs[i].pc = "connDisconnect") \/ (i = 2 /\ j = 3)
        BY <2>6, <2>9
      <4> QED BY <2>6, <2>8, <2>9, <2>10, <4>1 DEF Lasts
    <3> QED BY <3>3, <3>4
  <2>12. Working(obj, fs)
    BY <1>2, <2>2, <2>6, <2>8, <2>9 DEF Working
  <2>13. Dying(obj, fs)
    BY <1>3, <2>6, <2>8, <2>9 DEF Dying
  <2>14. \A i \in 1..Len(fs) : /\ fs[i].pc \notin {"cascade", "cbError", "cbAnswer", "freeSession"}
                               /\ fs[i].pc = "closeSession" => fs[i].o = Ses
    BY <2>6, <2>8, <2>9
  <2> QED BY <1>7, <2>5, <2>9, <2>11, <2>12, <2>13, <2>14
\* cbDestroy, and the struct is cleared
<1>9. CASE connlist = <<>>
  <2> DEFINE fs == <<F("cbDestroy", Ses), F("freeSession", Ses)>>
  <2>1. Run(Ses, obj[Ses], fs)
    BY <1>2, <1>9 DEF closeSession
  <2>2. /\ fs \in Seq(Frame) /\ Len(fs) = 2 /\ fs[1].pc = "cbDestroy" /\ fs[1].o = Ses
        /\ fs[2].pc = "freeSession" /\ fs[2].o = Ses
    BY <1>0 DEF F, Frame, Pcs, Callbacks
  <2> HIDE DEF fs
  <2>3. Nested(fs) /\ Lasts(fs)
    BY <2>2, ConstantsAssumption DEF Nested, Above, IsConnCode, Lasts
  <2>4. Working(obj, fs) /\ Dying(obj, fs)
    BY <1>2, <1>3, <2>2 DEF Working, Dying
  <2>5. \A i \in 1..Len(fs) : /\ fs[i].pc \notin {"cascade", "cbError", "cbAnswer", "closeSession"}
                              /\ fs[i].o = Ses
    BY <2>2
  <2> QED BY <1>7, <1>9, <2>1, <2>2, <2>3, <2>4, <2>5
<1> QED BY <1>8, <1>9

\* What memset leaves is not live and not cancelled.
LEMMA ZeroedIs == Zeroed.mem = "closed" /\ ~Zeroed.cancelled /\ Unused.mem = "none" /\ ~Unused.cancelled
<1>1. Unused = [Zeroed EXCEPT !["mem"] = "none", !["fd"] = "none"]
  BY Zenon DEF Unused
<1> QED BY <1>1 DEF Zeroed

\* sam3aCloseSession clears the session when its list is empty.
LEMMA FreeSessionStep ==
  ASSUME SInv, freeSession
  PROVE  Parts'
<1>0. Ses \in Obj /\ TypeOK /\ Frames /\ Structs /\ Closing /\ Listing /\ Shutting /\ ListIntegrity
      /\ Ses \notin Conns /\ Ending
  BY ConstantsAssumption DEF Obj, SInv, TInv, Listing
<1>1. /\ stack # <<>> /\ Head(stack).o = Ses /\ Head(stack).pc = "freeSession"
      /\ connlist' = connlist /\ desc' = desc /\ Run(Ses, Zeroed, <<>>)
  BY DEF freeSession, At, F
<1>2. /\ obj[Ses].mem = "live" /\ Head(stack) = stack[1] /\ 1 \in 1..Len(stack)
      /\ stack \in Seq(Frame)
  BY <1>0, <1>1, Runner DEF TypeOK
<1>3. obj[Ses].cancelled /\ connlist = <<>>
  BY <1>0, <1>1, <1>2 DEF Frames, Dying, Closing
<1>4. Tail(stack) = <<>>
  BY <1>0, <1>1, Bottom
<1>5. /\ obj'[Ses] = Zeroed /\ \A x \in Obj : x # Ses => obj'[x] = obj[x]
      /\ Steps(<<>>, Tail(stack))
  BY <1>0, <1>1, RunSteps, EmptySeq
<1>6. stack' = <<>> /\ Len(stack') = 0
  <2>1. stack' = <<>> \o <<>>
    BY <1>4, <1>5 DEF Steps
  <2> QED BY <2>1
<1>7. told' = told
  BY <1>1 DEF Run, Told
<1>8. Frames'
  BY <1>6 DEF Frames, Nested, Lasts, Dying, Working
<1>9. Structs'
  BY <1>0, <1>5, <1>7, ZeroedIs DEF Structs, Zeroed, Unused
<1>10. Closing'
  BY <1>6 DEF Closing
<1>11. Listing'
  <2>1. \A c \in Conns : c \in Obj /\ obj'[c] = obj[c]
    BY <1>0, <1>5 DEF Obj
  <2> QED BY <1>0, <1>1, <1>3, <2>1 DEF Listing, ListIntegrity
<1>12. Shutting'
  BY <1>0, <1>1, <1>3, <1>5, ZeroedIs DEF Shutting, OnlyOwnDescriptors, SocketsShut
<1>13. Cascading'
  BY <1>5, <1>6, ZeroedIs DEF Cascading, CascadeComplete
<1>14. Ending'
  <2> SUFFICES ASSUME NEW x \in Obj, obj'[x].mem = "live", ~obj'[x].cancelled
               PROVE  /\ obj[x].mem = "live" /\ ~obj[x].cancelled
                      /\ Deaf(x, obj'[x]) => Deaf(x, obj[x])
                      /\ ~TellsEnd(x, <<>>) /\ stack[1] # Disc(x)
    BY <1>0, <1>5, EndingKept
  <2>1. x # Ses
    BY <1>5, ZeroedIs
  <2>2. stack[1] # Disc(x)
    BY <1>1, <1>2, DiscFrame
  <2> QED BY <1>5, <2>1, <2>2 DEF TellsEnd
<1> QED BY <1>8, <1>9, <1>10, <1>11, <1>12, <1>13, <1>14 DEF Parts

-----------------------------------------------------------------------------
(* Unlinking and freeing a connection.                                     *)

\* Unlinking takes one connection out and leaves the others in their order.
LEMMA Unlinked ==
  ASSUME NEW list \in Seq(Conns), NEW n \in 1..Len(list), NEW rest,
         rest = SubSeq(list, 1, n - 1) \o SubSeq(list, n + 1, Len(list))
  PROVE  /\ rest \in Seq(Conns) /\ Len(rest) \in Nat /\ Len(rest) = Len(list) - 1
         /\ Len(list) \in Nat
         /\ \A k \in 1..Len(rest) : rest[k] = list[IF k < n THEN k ELSE k + 1]
<1> DEFINE fore == SubSeq(list, 1, n - 1)
           aft == SubSeq(list, n + 1, Len(list))
<1>1. Len(list) \in Nat /\ \A i \in 1..Len(list) : list[i] \in Conns
  BY LenProperties, ElementOfSeq
<1>2. n \in 1..Len(list)
  OBVIOUS
<1>3. rest = fore \o aft
  OBVIOUS
<1>4. /\ fore \in Seq(Conns) /\ Len(fore) = n - 1
      /\ \A i \in 1..n - 1 : fore[i] = list[i]
  <2>1. n - 1 \in Int /\ \A i \in 1..n - 1 : list[i] \in Conns
    BY <1>1, <1>2
  <2>2. /\ SubSeq(list, 1, n - 1) \in Seq(Conns)
        /\ Len(SubSeq(list, 1, n - 1)) = IF 1 <= n - 1 THEN n - 1 - 1 + 1 ELSE 0
        /\ \A i \in 1..n - 1 - 1 + 1 : SubSeq(list, 1, n - 1)[i] = list[1 + i - 1]
    BY <2>1, SubSeqProperties
  <2> QED BY <1>2, <2>1, <2>2
<1>5. /\ aft \in Seq(Conns) /\ Len(aft) = Len(list) - n
      /\ \A i \in 1..Len(list) - n : aft[i] = list[n + i]
  <2>1. n + 1 \in Int /\ Len(list) \in Int /\ \A i \in n + 1..Len(list) : list[i] \in Conns
    BY <1>1, <1>2
  <2>2. /\ aft \in Seq(Conns)
        /\ Len(aft) = IF n + 1 <= Len(list) THEN Len(list) - (n + 1) + 1 ELSE 0
        /\ \A i \in 1..Len(list) - (n + 1) + 1 : aft[i] = list[n + 1 + i - 1]
    BY <2>1, SubSeqProperties
  <2> HIDE DEF aft
  <2>3. Len(aft) = Len(list) - n
    <3>1. n \in Int /\ Len(list) \in Int /\ n <= Len(list)
      BY <1>1, <1>2
    <3>2. Len(aft) = IF n + 1 <= Len(list) THEN Len(list) - (n + 1) + 1 ELSE 0
      BY <2>2
    <3> QED BY <3>1, <3>2
  <2>4. \A i \in 1..Len(list) - n : aft[i] = list[n + i]
    <3>1. \A i \in 1..Len(list) - n : i \in 1..Len(list) - (n + 1) + 1 /\ n + 1 + i - 1 = n + i
      BY <1>1, <1>2
    <3> QED BY <2>2, <3>1
  <2> QED BY <2>2, <2>3, <2>4
<1> HIDE DEF fore, aft
<1>6. /\ rest \in Seq(Conns) /\ Len(rest) = Len(list) - 1
      /\ \A i \in 1..Len(list) - 1 : rest[i] = IF i <= n - 1 THEN fore[i] ELSE aft[i - (n - 1)]
  <2>2. Len(fore) + Len(aft) = Len(list) - 1
    BY <1>1, <1>2, <1>4, <1>5
  <2>3. fore \in Seq(Conns) /\ aft \in Seq(Conns) /\ Len(fore) = n - 1
    BY <1>4, <1>5
  <2>4. /\ rest \in Seq(Conns) /\ Len(rest) = Len(fore) + Len(aft)
        /\ \A i \in 1..Len(fore) + Len(aft) :
             rest[i] = IF i <= Len(fore) THEN fore[i] ELSE aft[i - Len(fore)]
    <3>1. /\ fore \o aft \in Seq(Conns) /\ Len(fore \o aft) = Len(fore) + Len(aft)
          /\ \A i \in 1..Len(fore) + Len(aft) :
               (fore \o aft)[i] = IF i <= Len(fore) THEN fore[i] ELSE aft[i - Len(fore)]
      BY <2>3, ConcatProperties
    <3> QED BY <1>3, <3>1, Zenon
  <2>5. \A i \in 1..Len(list) - 1 : rest[i] = IF i <= n - 1 THEN fore[i] ELSE aft[i - (n - 1)]
    BY <2>2, <2>3, <2>4, Zenon
  <2> QED BY <2>2, <2>4, <2>5
<1>7. ASSUME NEW i \in 1..Len(list) - 1
      PROVE  rest[i] = list[IF i < n THEN i ELSE i + 1]
  <2>0. rest[i] = IF i <= n - 1 THEN fore[i] ELSE aft[i - (n - 1)]
    BY <1>6
  <2>1. CASE i < n
    <3>1. i \in 1..n - 1 /\ i <= n - 1
      BY <1>1, <1>2, <2>1
    <3> QED BY <1>4, <2>0, <2>1, <3>1
  <2>2. CASE ~(i < n)
    <3>1. i - (n - 1) \in 1..Len(list) - n /\ n + (i - (n - 1)) = i + 1 /\ ~(i <= n - 1)
      BY <1>1, <1>2, <2>2
    <3> QED BY <1>5, <2>0, <2>2, <3>1
  <2> QED BY <2>1, <2>2
<1>8. Len(rest) \in Nat
  BY <1>6, LenProperties
<1> QED BY <1>1, <1>6, <1>7, <1>8

\* sam3aCloseConnection unlinks and frees a connection that nothing works on.
LEMMA FreeConnStep ==
  ASSUME SInv, NEW c \in Conns, freeConn(c)
  PROVE  Parts'
<1>0. c \in Obj /\ c # Ses /\ TypeOK /\ Frames /\ Structs /\ Closing /\ Listing /\ Shutting
      /\ ListIntegrity /\ Cascading /\ Ending /\ Ses \in Obj /\ Conns \subseteq Obj
  BY ConstantsAssumption DEF Obj, SInv, TInv, Listing
<1>1. /\ stack # <<>> /\ Head(stack).o = c /\ Head(stack).pc = "freeConn"
      /\ desc' = desc /\ Run(c, Zeroed, <<>>) /\ connlist' = Unlink(c)
  BY DEF freeConn, At, F
<1>2. /\ obj[c].mem = "live" /\ Head(stack) = stack[1] /\ 1 \in 1..Len(stack)
      /\ stack \in Seq(Frame)
  BY <1>0, <1>1, Runner DEF TypeOK
<1>3. obj[c].cancelled
  BY <1>0, <1>1, <1>2 DEF Frames, Dying
<1>4. /\ obj'[c] = Zeroed /\ \A x \in Obj : x # c => obj'[x] = obj[x]
      /\ Steps(<<>>, Tail(stack))
  BY <1>0, <1>1, RunSteps, EmptySeq
<1>5. stack' = Tail(stack) /\ Tail(stack) \in Seq(Frame)
  BY <1>4 DEF Steps
<1>6. told' = told
  BY <1>1 DEF Run, Told
\* no frame of c is left
<1>7. \A j \in 1..Len(stack') : stack'[j].o \in Obj /\ stack'[j].o # c
  <2>1. \A j \in 1..Len(Tail(stack)) : Tail(stack)[j].o # c
    BY <1>0, <1>1, <1>2, PoppedFrames DEF Frames
  <2> QED BY <1>5, <2>1, FrameOwner
<1>8. Frames'
  <2>1. Nested(stack') /\ Lasts(stack') /\ Working(obj, stack')
    BY <1>0, <1>1, <1>2, <1>5, PoppedFrames DEF Frames
  <2>2. Keeps(obj, obj) /\ \A o \in Obj : stack[1] # Disc(o)
    BY <1>1, <1>2, DiscFrame DEF Keeps
  <2>3. Dying(obj, stack')
    BY <1>0, <1>1, <1>2, <1>5, <2>2, PoppedDying DEF Frames
  <2>4. Working(obj', stack')
    BY <1>4, <1>7, <2>1 DEF Working
  <2>5. Dying(obj', stack')
    BY <1>4, <1>7, <2>3 DEF Dying
  <2> QED BY <2>1, <2>4, <2>5 DEF Frames, Nested, Lasts, Dying, Working, Above, IsConnCode, Disc
<1>9. Structs'
  BY <1>0, <1>4, <1>6, ZeroedIs DEF Structs, Zeroed, Unused
\* the list without c
<1>10. /\ Listed(c) /\ Pos(c) \in 1..Len(connlist) /\ connlist[Pos(c)] = c
       /\ \A q \in 1..Len(connlist) : connlist[q] = c => q = Pos(c)
  BY <1>0, <1>2, Placed
<1>11. connlist \in Seq(Conns) /\ DOMAIN connlist = 1..Len(connlist)
  BY <1>0, LenProperties DEF TypeOK
<1> DEFINE At1(k) == IF k < Pos(c) THEN k ELSE k + 1
<1>12. /\ connlist' \in Seq(Conns) /\ Len(connlist') \in Nat /\ Len(connlist) \in Nat
       /\ Len(connlist') = Len(connlist) - 1
       /\ \A k \in 1..Len(connlist') : connlist'[k] = connlist[At1(k)]
  <2>1. connlist' = SubSeq(connlist, 1, Pos(c) - 1) \o SubSeq(connlist, Pos(c) + 1, Len(connlist))
    BY <1>1, <1>10 DEF Unlink
  <2> QED BY <1>10, <1>11, <2>1, Unlinked
<1>13. DOMAIN connlist' = 1..Len(connlist')
  BY <1>12, LenProperties
<1>14. \A k \in 1..Len(connlist') : At1(k) \in 1..Len(connlist) /\ At1(k) # Pos(c)
  BY <1>10, <1>12
<1>15. \A k \in 1..Len(connlist') :
         /\ connlist'[k] \in Conns /\ connlist'[k] # c /\ obj[connlist'[k]].mem = "live"
         /\ obj'[connlist'[k]] = obj[connlist'[k]]
  <2> SUFFICES ASSUME NEW k \in 1..Len(connlist')
               PROVE  /\ connlist'[k] \in Conns /\ connlist'[k] # c /\ obj[connlist'[k]].mem = "live"
                      /\ obj'[connlist'[k]] = obj[connlist'[k]]
    OBVIOUS
  <2>1. PICK q : q = At1(k)
    OBVIOUS
  <2>2. q \in 1..Len(connlist) /\ q # Pos(c) /\ connlist'[k] = connlist[q]
    BY <1>12, <1>14, <2>1
  <2>3. connlist[q] \in Conns /\ obj[connlist[q]].mem = "live" /\ connlist[q] # c
    BY <1>0, <1>10, <2>2, ListedLive
  <2> QED BY <1>0, <1>4, <2>2, <2>3
<1>16. \A d \in Conns : d # c /\ obj[d].mem = "live" => \E k \in 1..Len(connlist') : connlist'[k] = d
  <2> SUFFICES ASSUME NEW d \in Conns, d # c, obj[d].mem = "live"
               PROVE  \E k \in 1..Len(connlist') : connlist'[k] = d
    OBVIOUS
  <2>1. PICK q \in 1..Len(connlist) : connlist[q] = d
    BY <1>0, Placed
  <2>2. q # Pos(c)
    BY <1>10, <2>1
  <2>3. CASE q < Pos(c)
    <3>1. q \in 1..Len(connlist') /\ At1(q) = q
      BY <1>10, <1>12, <2>1, <2>3
    <3> HIDE DEF At1
    <3> QED BY <1>12, <2>1, <3>1
  <2>4. CASE q > Pos(c)
    <3>1. q - 1 \in 1..Len(connlist') /\ At1(q - 1) = q
      BY <1>10, <1>12, <2>1, <2>4
    <3> HIDE DEF At1
    <3> QED BY <1>12, <2>1, <3>1
  <2> QED BY <1>10, <1>12, <2>1, <2>2, <2>3, <2>4
<1>17. \A p, q \in 1..Len(connlist') : p < q => At1(p) < At1(q)
  BY <1>10, <1>12
<1>18. \A p, q \in 1..Len(connlist') : connlist'[p] = connlist'[q] => p = q
  <2> SUFFICES ASSUME NEW p \in 1..Len(connlist'), NEW q \in 1..Len(connlist'),
                      connlist'[p] = connlist'[q]
               PROVE  p = q
    OBVIOUS
  <2>1. At1(p) = At1(q)
    <3> HIDE DEF At1
    <3> QED BY <1>0, <1>11, <1>12, <1>14 DEF ListIntegrity
  <2> QED BY <1>10, <1>12, <2>1
<1> HIDE DEF At1
<1>19. Listing'
  <2>1. {connlist'[i] : i \in DOMAIN connlist'} = {d \in Conns : obj'[d].mem = "live"}
    BY <1>0, <1>4, <1>13, <1>15, <1>16, ZeroedIs
  <2>2. ListIntegrity'
    BY <1>13, <1>18, <2>1 DEF ListIntegrity
  <2>3. connlist # <<>>
    BY <1>10, <1>11, <1>12, EmptySeq
  <2> QED BY <1>0, <1>4, <2>2, <2>3 DEF Listing
<1>20. Closing'
  <2> SUFFICES ASSUME NEW i \in 1..Len(stack'), stack'[i].pc \in {"closeSession", "freeSession"}
               PROVE  stack'[i].o = Ses /\ (stack'[i].pc = "freeSession" => FALSE)
    BY DEF Closing
  <2>1. PICK k \in 1..Len(stack) : stack'[i] = stack[k]
    BY <1>0, <1>4, FrameFrom, NoFrames
  <2>2. connlist # <<>>
    BY <1>10, <1>11, <1>12, EmptySeq
  <2> QED BY <1>0, <2>1, <2>2 DEF Closing
<1>21. Shutting'
  BY <1>0, <1>1, <1>3, <1>4 DEF Shutting, OnlyOwnDescriptors, SocketsShut
<1>22. Cascading'
  <2>0. DOMAIN stack = 1..Len(stack) /\ DOMAIN stack' = 1..Len(stack')
    BY <1>2, <1>5, LenProperties
  <2>1. CascadeComplete'
    <3> SUFFICES ASSUME obj'[Ses].mem = "live", obj'[Ses].cancelled, ~OnStack({"cascade"})',
                        NEW j \in 1..Len(connlist')
                 PROVE  obj'[connlist'[j]].cancelled
      BY <1>13 DEF CascadeComplete
    <3>1. ~OnStack({"cascade"})
      <4> SUFFICES ASSUME NEW k \in 1..Len(stack), stack[k].pc = "cascade" PROVE FALSE
        BY <2>0 DEF OnStack
      <4>1. k # 1 /\ Len(stack) \in Nat
        BY <1>1, <1>2, LenProperties
      <4>2. k > 1
        BY <4>1
      <4>3. PICK i \in 1..Len(stack') : stack'[i] = stack[k]
        BY <1>0, <1>4, <4>2, FrameTo
      <4> QED BY <2>0, <4>3 DEF OnStack
    <3>2. obj[Ses].mem = "live" /\ obj[Ses].cancelled
      BY <1>0, <1>4
    <3>3. PICK q : q = At1(j)
      OBVIOUS
    <3>4. q \in 1..Len(connlist) /\ connlist'[j] = connlist[q]
      BY <1>12, <1>14, <3>3
    <3>5. obj[connlist[q]].cancelled
      BY <1>0, <1>11, <3>1, <3>2, <3>4 DEF Cascading, CascadeComplete
    <3> QED BY <1>15, <3>4, <3>5
  <2>2. ASSUME NEW i \in 1..Len(stack'), stack'[i].pc = "cascade"
        PROVE  /\ obj'[Ses].cancelled
               /\ \A p, q \in 1..Len(connlist') :
                    p < q /\ connlist'[q] = stack'[i].o => obj'[connlist'[p]].cancelled
    <3>1. PICK k \in 1..Len(stack) : stack'[i] = stack[k]
      BY <1>0, <1>4, FrameFrom, NoFrames
    <3>2. /\ obj[Ses].cancelled
          /\ \A p, q \in 1..Len(connlist) :
               p < q /\ connlist[q] = stack'[i].o => obj[connlist[p]].cancelled
      BY <1>0, <2>2, <3>1 DEF Cascading
    <3>3. ASSUME NEW p \in 1..Len(connlist'), NEW q \in 1..Len(connlist'),
                 p < q, connlist'[q] = stack'[i].o
          PROVE  obj'[connlist'[p]].cancelled
      <4>1. /\ At1(p) \in 1..Len(connlist) /\ At1(q) \in 1..Len(connlist) /\ At1(p) < At1(q)
            /\ connlist'[p] = connlist[At1(p)] /\ connlist'[q] = connlist[At1(q)]
        BY <1>12, <1>14, <1>17, <3>3
      <4>2. obj[connlist[At1(p)]].cancelled
        BY <3>2, <3>3, <4>1
      <4> QED BY <1>15, <4>1, <4>2
    <3> QED BY <1>0, <1>4, <3>2, <3>3
  <2> QED BY <2>1, <2>2 DEF Cascading
<1>23. Ending'
  <2> SUFFICES ASSUME NEW x \in Obj, obj'[x].mem = "live", ~obj'[x].cancelled
               PROVE  /\ obj[x].mem = "live" /\ ~obj[x].cancelled
                      /\ Deaf(x, obj'[x]) => Deaf(x, obj[x])
                      /\ ~TellsEnd(x, <<>>) /\ stack[1] # Disc(x)
    BY <1>0, <1>4, EndingKept
  <2>1. x # c
    BY <1>4, ZeroedIs
  <2>2. stack[1] # Disc(x)
    BY <1>1, <1>2, DiscFrame
  <2> QED BY <1>4, <2>1, <2>2 DEF TellsEnd
<1> QED BY <1>8, <1>9, <1>19, <1>20, <1>21, <1>22, <1>23 DEF Parts

-----------------------------------------------------------------------------
(* Callbacks return; the round over the descriptors.                       *)

\* Nothing is pushed, and nothing is asked of it.
LEMMA NothingPushed ==
  /\ <<>> \in Seq(Frame) /\ Nested(<<>>) /\ Lasts(<<>>)
  /\ \A ob : Dying(ob, <<>>) /\ Working(ob, <<>>)
<1>1. Ses \in Obj
  BY DEF Obj
<1>2. Work(Ses, <<>>)
  BY <1>1, WorkFramesAre
<1>3. \A i \in 1..Len(<<>>) : FALSE
  BY NoFrames
<1> QED BY <1>1, <1>2, <1>3, WorkShape DEF Work, Dying, Working

\* A callback returns.
LEMMA ReturnStep ==
  ASSUME SInv, Return
  PROVE  Parts'
<1>0. TypeOK
  BY DEF SInv, TInv
<1>1. stack \in Seq(Frame) /\ stack # <<>>
  BY <1>0 DEF TypeOK, Return
<1>2. Tail(stack) \in Seq(Frame) /\ Head(stack) = stack[1]
  BY <1>1, Popped
<1>3. Told(<<>>) = told
  BY DEF Told
<1>4. Steps(<<>>, Tail(stack))
  BY <1>1, <1>2, <1>3, NothingPushed DEF Steps, Return
<1>5. stack[1].pc \notin {"cascade", "sesDisconnect", "connDisconnect"}
  BY <1>2 DEF Return, Callbacks
<1> QED BY <1>4, <1>5, NothingPushed, NoFrames, PushKeeps DEF Return

\* Frames of two calls in a row.
LEMMA Joined ==
  ASSUME NEW gs \in Seq(Frame), NEW hs \in Seq(Frame), NEW fs, fs = gs \o hs
  PROVE  /\ fs \in Seq(Frame) /\ Len(fs) = Len(gs) + Len(hs)
         /\ \A k \in 1..Len(gs) : fs[k] = gs[k]
         /\ \A k \in 1..Len(hs) : fs[Len(gs) + k] = hs[k]
BY Stacked

\* The round of sam3aProcessSessionIO goes on with a connection, or ends.
LEMMA WalkStep ==
  ASSUME SInv, NEW o \in Obj, Walk(o)
  PROVE  Parts'
<1>0. TypeOK /\ Frames /\ ListIntegrity
  BY DEF SInv, TInv, Listing
<1>1. /\ stack # <<>> /\ Head(stack).o = o /\ Head(stack).pc = "walk"
      /\ connlist' = connlist /\ desc' = desc
  BY DEF Walk, At, F
<1>2. Head(stack) = stack[1] /\ stack[1].pc \notin {"cascade", "sesDisconnect", "connDisconnect"}
  BY <1>1, Runner
<1>3. Tail(stack) = <<>>
  BY <1>0, <1>1, Bottom
<1>4. ASSUME NEW fs \in Seq(Frame), Run(o, obj[o], fs), Nested(fs), Lasts(fs),
             Dying(obj, fs), Working(obj, fs),
             \A i \in 1..Len(fs) : fs[i].pc \notin
               {"cascade", "cbError", "cbAnswer", "closeSession", "freeSession"}
      PROVE  Parts'
  <2>1. Steps(fs, Tail(stack)) /\ obj' = obj
    BY <1>0, <1>1, <1>4, RunSteps, SameStruct
  <2>2. \A j \in 1..Len(Tail(stack)) : FALSE
    <3>1. \A j \in 1..Len(<<>>) : FALSE
      BY NoFrames
    <3> QED BY <1>3, <3>1
  <2> QED BY <1>1, <1>2, <1>3, <1>4, <2>1, <2>2, PushKeeps
<1>5. ASSUME NEW i \in DOMAIN connlist, Run(o, obj[o], Visit(connlist[i]))
      PROVE  Parts'
  <2>1. PICK d : d = connlist[i]
    OBVIOUS
  <2>2. d \in Conns /\ obj[d].mem = "live" /\ d \in Obj
    <3>1. i \in 1..Len(connlist)
      BY <1>0, <1>5, LenProperties DEF TypeOK
    <3> QED BY <1>0, <2>1, <3>1, ListedLive DEF Obj
  <2>3. PICK fs : fs = Visit(d)
    OBVIOUS
  <2>4. Run(o, obj[o], fs)
    BY <1>5, <2>1, <2>3
  <2>5. F("readIO", d) \in Frame /\ F("writeIO", d) \in Frame /\ F("walk", d) \in Frame
    BY <2>2 DEF F, Frame, Pcs
  <2>6. CASE CallR(d)
    <3>1. PICK gs : gs = <<F("readIO", d)>>
      OBVIOUS
    <3>2. PICK hs : hs = <<F("writeIO", d), F("walk", d)>>
      OBVIOUS
    <3>3. /\ gs \in Seq(Frame) /\ Len(gs) = 1 /\ gs[1].pc = "readIO" /\ gs[1].o = d
          /\ hs \in Seq(Frame) /\ Len(hs) = 2 /\ hs[1].pc = "writeIO" /\ hs[1].o = d
          /\ hs[2].pc = "walk" /\ hs[2].o = d
      BY <2>5, <3>1, <3>2 DEF F
    <3>4. fs = gs \o hs
      BY <2>3, <2>6, <3>1, <3>2 DEF Visit
    <3>5. /\ fs \in Seq(Frame) /\ Len(fs) = Len(gs) + Len(hs)
          /\ \A k \in 1..Len(gs) : fs[k] = gs[k]
          /\ \A k \in 1..Len(hs) : fs[Len(gs) + k] = hs[k]
      <4>1. gs \in Seq(Frame) /\ hs \in Seq(Frame)
        BY <3>3
      <4> QED BY <3>4, <4>1, Joined
    <3>6. Len(fs) = 3 /\ fs[1] = gs[1] /\ fs[2] = hs[1] /\ fs[3] = hs[2]
      BY <3>3, <3>5
    <3>7. /\ fs \in Seq(Frame) /\ Len(fs) = 3 /\ fs[1].pc = "readIO" /\ fs[1].o = d
          /\ fs[2].pc = "writeIO" /\ fs[2].o = d /\ fs[3].pc = "walk" /\ fs[3].o = d
      BY <3>3, <3>5, <3>6
    <3>8. Nested(fs) /\ Lasts(fs) /\ Dying(obj, fs) /\ Working(obj, fs)
      BY <2>2, <3>7 DEF Nested, Above, Lasts, Dying, Working
    <3>9. \A k \in 1..Len(fs) : fs[k].pc \notin
            {"cascade", "cbError", "cbAnswer", "closeSession", "freeSession"}
      BY <3>7
    <3> QED BY <1>4, <2>4, <3>7, <3>8, <3>9
  <2>7. CASE ~CallR(d)
    <3>1. fs = <<F("writeIO", d), F("walk", d)>>
      BY <2>3, <2>5, <2>7 DEF Visit
    <3>2. /\ fs \in Seq(Frame) /\ Len(fs) = 2
          /\ fs[1].pc = "writeIO" /\ fs[1].o = d /\ fs[2].pc = "walk" /\ fs[2].o = d
      BY <2>5, <3>1 DEF F
    <3>3. Nested(fs) /\ Lasts(fs) /\ Dying(obj, fs) /\ Working(obj, fs)
      BY <2>2, <3>2 DEF Nested, Above, Lasts, Dying, Working
    <3>4. \A k \in 1..Len(fs) : fs[k].pc \notin
            {"cascade", "cbError", "cbAnswer", "closeSession", "freeSession"}
      BY <3>2
    <3> QED BY <1>4, <2>4, <3>2, <3>3, <3>4
  <2> QED BY <2>6, <2>7
<1>6. CASE Run(o, obj[o], <<>>)
  BY <1>4, <1>6, NothingPushed, NoFrames
<1> QED BY <1>5, <1>6 DEF Walk

\* select() has found something to do: then there is a session.
LEMMA SelectStep ==
  ASSUME SInv, Select
  PROVE  Parts'
<1>0. TypeOK /\ Structs /\ Listing /\ stack = <<>> /\ Ses \in Obj
  BY DEF SInv, TInv, Select, Obj
<1>1. obj[Ses].mem = "live"
  <2>1. PICK o \in Obj : Watched(o) /\ (obj[o].procR # "null" \/ obj[o].procW # "null")
    BY DEF Select, sam3aAddSessionToFDS
  <2>2. CASE o = Ses
    <3>1. Unused.procR = "null" /\ Unused.procW = "null" /\ Zeroed.procR = "null" /\ Zeroed.procW = "null"
      <4>1. Unused = [Zeroed EXCEPT !["mem"] = "none", !["fd"] = "none"]
        BY Zenon DEF Unused
      <4> QED BY <4>1 DEF Zeroed
    <3>2. obj[Ses].mem \in {"none", "live", "closed"}
      BY <1>0 DEF TypeOK, Struct
    <3> QED BY <1>0, <2>1, <2>2, <3>1, <3>2 DEF Structs
  <2>3. CASE o # Ses
    <3>1. Listed(o)
      BY <2>1, <2>3 DEF Watched
    <3>2. connlist # <<>>
      BY <3>1 DEF Listed
    <3> QED BY <1>0, <3>2 DEF Listing
  <2> QED BY <2>2, <2>3
<1> DEFINE fs == <<F("readIO", Ses), F("writeIO", Ses), F("walk", Ses)>>
<1>2. Call(fs)
  BY DEF Select
<1>3. /\ fs \in Seq(Frame) /\ Len(fs) = 3 /\ fs[1].pc = "readIO" /\ fs[1].o = Ses
      /\ fs[2].pc = "writeIO" /\ fs[2].o = Ses /\ fs[3].pc = "walk" /\ fs[3].o = Ses
  BY <1>0 DEF F, Frame, Pcs
<1> HIDE DEF fs
<1>4. Nested(fs) /\ Lasts(fs) /\ Dying(obj, fs) /\ Working(obj, fs)
  <2>1. Ses \notin Conns
    BY ConstantsAssumption
  <2> QED BY <1>1, <1>3, <2>1 DEF Nested, Above, IsConnCode, Lasts, Dying, Working
<1>5. Steps(fs, stack)
  BY <1>0, <1>2, <1>3 DEF Steps, Call, TypeOK
<1>6. \A k \in 1..Len(fs) : fs[k].pc \notin
        {"cascade", "cbError", "cbAnswer", "closeSession", "freeSession", "destroyConn", "freeConn"}
  BY <1>3
<1> QED BY <1>0, <1>4, <1>5, <1>6, PushKeeps DEF Select

-----------------------------------------------------------------------------
(* What the application calls to end something.                            *)

\* The application has control in a callback or outside of all.
LEMMA Junction ==
  ASSUME TypeOK, AppRuns, stack # <<>>
  PROVE  stack[1].pc \in Callbacks /\ 1 \in 1..Len(stack) /\ stack \in Seq(Frame)
<1>1. stack \in Seq(Frame)
  BY DEF TypeOK
<1>2. Head(stack) = stack[1] /\ Len(stack) \in Nat \ {0}
  BY <1>1, Popped
<1> QED BY <1>1, <1>2 DEF AppRuns

\* A function of the library that the application calls: it enters frames.
LEMMA CallKeeps ==
  ASSUME SInv, AppRuns, NEW fs \in Seq(Frame), ApiCall(fs), fs # <<>>,
         Nested(fs), Lasts(fs), Dying(obj, fs), Working(obj, fs),
         stack = <<>> \/ fs[Len(fs)].pc # "closeSession",
         \A i \in 1..Len(fs) : fs[i].pc \notin {"cascade", "cbError", "cbAnswer", "freeSession", "walk"},
         \A i \in 1..Len(fs) : fs[i].pc = "closeSession" => fs[i].o = Ses,
         \A i \in 1..Len(fs), j \in 1..Len(stack) :
           fs[i].pc \in {"destroyConn", "freeConn"} => stack[j].o # fs[i].o
  PROVE  Parts'
<1>0. TypeOK
  BY DEF SInv, TInv
<1>1. Steps(fs, stack)
  BY <1>0 DEF Steps, ApiCall, Call, TypeOK
<1>2. ASSUME stack # <<>> PROVE Above(fs[Len(fs)], stack[1])
  <2>1. ~IsConnCode(stack[1])
    BY <1>0, <1>2, Junction DEF IsConnCode
  <2>2. Len(fs) \in 1..Len(fs)
    BY EmptySeq, LenProperties
  <2>3. fs[Len(fs)].pc \notin {"walk", "closeSession", "freeSession"}
    BY <1>2, <2>2
  <2> QED BY <2>1, <2>3 DEF Above
<1>3. obj' = obj /\ connlist' = connlist /\ desc' = desc
  BY DEF ApiCall
<1> QED BY <1>1, <1>2, <1>3, PushKeeps

\* Whoever is in no callback of a connection is in none of its functions:
\* they run on top of each other without a gap.
LEMMA NoWorkLeft ==
  ASSUME SInv, AppRuns, NEW c \in Conns, ~InCallback(c)
  PROVE  \A i \in 1..Len(stack) : stack[i].o # c
<1> SUFFICES ASSUME NEW k \in 1..Len(stack), stack[k].o = c PROVE FALSE
  OBVIOUS
<1> DEFINE Less == {p \in Nat \X Nat : p[1] < p[2]}
           At1 == {i \in 1..Len(stack) : stack[i].o = c}
<1>0. TypeOK /\ Frames
  BY DEF SInv, TInv
<1>1. stack \in Seq(Frame) /\ Len(stack) \in Nat /\ DOMAIN stack = 1..Len(stack)
  BY <1>0, LenProperties DEF TypeOK
<1>2. At1 \subseteq Nat /\ k \in At1
  BY <1>1
<1>3. PICK m \in At1 : \A e \in At1 : ~(<<e, m>> \in Less)
  <2>1. IsWellFoundedOn(Less, Nat)
    BY NatLessThanWellFounded, Zenon DEF OpToRel
  <2> HIDE DEF Less, At1
  <2> QED BY <1>2, <2>1, WFMin
<1>4. m \in 1..Len(stack) /\ stack[m].o = c /\ stack[m].pc \notin Callbacks
  BY <1>1, <1>3 DEF InCallback
<1>5. CASE m = 1
  <2>1. stack # <<>>
    BY <1>1, <1>4, EmptySeq
  <2> QED BY <1>0, <1>4, <1>5, <2>1, Junction
<1>6. CASE m > 1
  <2>1. m - 1 \in 1..(Len(stack) - 1) /\ m - 1 \in 1..Len(stack) /\ (m - 1) + 1 = m
        /\ m - 1 \in Nat /\ m \in Nat /\ m - 1 < m
    BY <1>1, <1>4, <1>6
  <2>2. Above(stack[m - 1], stack[m])
    BY <1>0, <2>1 DEF Frames, Nested
  <2>3. stack[m - 1].o = c
    BY <1>4, <2>2 DEF Above, IsConnCode
  <2>4. m - 1 \in At1 /\ <<m - 1, m>> \in Less
    BY <2>1, <2>3
  <2> QED BY <1>3, <2>4
<1>7. m = 1 \/ m > 1
  BY <1>1, <1>4
<1> QED BY <1>5, <1>6, <1>7

\* sam3aCancelSession, sam3aCancelConnection and the close functions.
LEMMA EndCallsStep ==
  ASSUME SInv, ~CloseInSessionCallbacks,
         \/ sam3aCancelSession \/ sam3aCloseSession
         \/ \E c \in Conns : sam3aCancelConnection(c) \/ sam3aCloseConnection(c)
  PROVE  Parts'
<1>0. TypeOK /\ Ses \in Obj /\ Conns \subseteq Obj /\ Ses \notin Conns
  BY ConstantsAssumption DEF SInv, TInv, Obj
\* a disconnect
<1>1. ASSUME NEW o \in Obj, NEW pc \in {"sesDisconnect", "connDisconnect"},
             AppRuns, obj[o].mem = "live", ApiCall(<<F(pc, o)>>)
      PROVE  Parts'
  <2> DEFINE fs == <<F(pc, o)>>
  <2>1. pc \in WorkPcs
    BY DEF WorkPcs, Pcs
  <2>2. Work(o, fs) /\ fs \in Seq(Frame)
    BY <2>1, WorkFramesAre DEF Work
  <2>3. Len(fs) = 1 /\ fs[1].pc = pc /\ fs # <<>> /\ ApiCall(fs)
    BY <1>1 DEF F
  <2> HIDE DEF fs
  <2>4. Nested(fs) /\ Lasts(fs) /\ Dying(obj, fs) /\ Working(obj, fs)
    BY <1>1, <2>2, WorkShape
  <2> QED BY <1>1, <2>2, <2>3, <2>4, CallKeeps
<1>2. CASE sam3aCancelSession
  BY <1>0, <1>1, <1>2 DEF sam3aCancelSession
<1>3. ASSUME NEW c \in Conns, sam3aCancelConnection(c) PROVE Parts'
  BY <1>0, <1>1, <1>3 DEF sam3aCancelConnection
<1>4. ASSUME NEW c \in Conns, sam3aCloseConnection(c) PROVE Parts'
  <2>1. obj[c].mem = "live" /\ AppRuns /\ ~InCallback(c)
    BY <1>4 DEF sam3aCloseConnection
  <2>2. PICK fs : fs = CloseConnFrames(c)
    OBVIOUS
  <2>3. ApiCall(fs)
    BY <1>4, <2>2 DEF sam3aCloseConnection
  <2>4. /\ fs \in Seq(Frame) /\ Len(fs) = 2 /\ fs # <<>> /\ fs[2].pc = "destroyConn"
        /\ \A i \in 1..Len(fs) : fs[i].o = c /\ fs[i].pc \in {"connDisconnect", "destroyConn"}
        /\ Nested(fs) /\ Lasts(fs) /\ Working(obj, fs) /\ Dying(obj, fs)
    BY <2>1, <2>2, CloseFrames
  <2>5. \A j \in 1..Len(stack) : stack[j].o # c
    BY <2>1, NoWorkLeft
  <2> QED BY <2>1, <2>3, <2>4, <2>5, CallKeeps
<1>5. CASE sam3aCloseSession
  <2> DEFINE fs == <<F("sesDisconnect", Ses), F("closeSession", Ses)>>
  <2>1. stack = <<>> /\ AppRuns /\ obj[Ses].mem = "live" /\ ApiCall(fs)
    BY <1>5 DEF sam3aCloseSession, AppRuns
  <2>2. /\ fs \in Seq(Frame) /\ Len(fs) = 2 /\ fs # <<>> /\ fs[1] = Disc(Ses)
        /\ fs[1].pc = "sesDisconnect" /\ fs[1].o = Ses
        /\ fs[2].pc = "closeSession" /\ fs[2].o = Ses
    BY <1>0 DEF F, Frame, Pcs, Disc
  <2> HIDE DEF fs
  <2>3. Nested(fs) /\ Lasts(fs) /\ Working(obj, fs) /\ Dying(obj, fs)
    BY <1>0, <2>1, <2>2 DEF Nested, Above, IsConnCode, Lasts, Working, Dying
  <2>4. \A i \in 1..Len(fs) : fs[i].o = Ses /\ fs[i].pc \in {"sesDisconnect", "closeSession"}
    BY <2>2
  <2> QED BY <2>1, <2>2, <2>3, <2>4, CallKeeps
<1> QED BY <1>2, <1>3, <1>4, <1>5

-----------------------------------------------------------------------------
(* What it calls to open something, and sam3aSend.                         *)

\* A struct whose connect() is in progress.
LEMMA ConnectingIs ==
  ASSUME NEW k, NEW o
  PROVE  /\ Connecting(k).mem = "live" /\ Connecting(k).fd = "own" /\ ~Connecting(k).cancelled
         /\ Connecting(k).kind = k /\ ~Deaf(o, Connecting(k))
<1>1. Connecting(k) = [Zeroed EXCEPT !["mem"] = "live", !["kind"] = k,
                                     !["fd"] = "own", !["procW"] = "connected"]
  BY Zenon DEF Connecting
<1> QED BY <1>1 DEF Zeroed, Deaf

\* What a new object does not disturb.
LEMMA OpenedKeeps ==
  ASSUME SInv, NEW o \in Obj, obj[o].mem = "none", NEW k,
         obj' = [obj EXCEPT ![o] = Connecting(k)],
         desc' = [desc EXCEPT ![o] = "open"], stack' = stack, told' = told
  PROVE  /\ Frames' /\ Structs' /\ Shutting' /\ Ending'
         /\ obj'[o].mem = "live" /\ ~obj'[o].cancelled
         /\ \A x \in Obj : x # o => obj'[x] = obj[x]
<1>0. TypeOK /\ Frames /\ Structs /\ Shutting /\ Ending
  BY DEF SInv, TInv
<1>1. obj'[o] = Connecting(k) /\ \A x \in Obj : x # o => obj'[x] = obj[x]
  BY <1>0 DEF TypeOK
<1>2. Connecting(k).mem = "live" /\ Connecting(k).fd = "own" /\ ~Connecting(k).cancelled
      /\ ~Deaf(o, Connecting(k))
  BY ConnectingIs
<1>3. \A i \in 1..Len(stack) : stack[i].o \in Obj /\ stack[i].o # o
  <2>1. \A i \in 1..Len(stack) : stack[i].o \in Obj
    BY <1>0, FrameOwner DEF TypeOK
  <2> QED BY <1>0, <2>1 DEF Frames, Working
<1>4. Frames'
  <2>1. Nested(stack) /\ Lasts(stack)
    BY <1>0 DEF Frames
  <2>2. Working(obj', stack)
    BY <1>0, <1>1, <1>3 DEF Frames, Working
  <2>3. Dying(obj', stack)
    BY <1>0, <1>1, <1>3 DEF Frames, Dying
  <2> QED BY <2>1, <2>2, <2>3 DEF Frames, Nested, Lasts, Dying, Working, Above, IsConnCode, Disc
<1>5. Structs'
  BY <1>0, <1>1, <1>2 DEF Structs, Unused, Zeroed
<1>6. Shutting'
  <2>1. o # Foreign /\ Foreign \in Descriptors /\ o \in Descriptors /\ Obj \subseteq Descriptors
    BY ConstantsAssumption DEF Obj, Foreign, Descriptors
  <2>2. desc'[Foreign] = desc[Foreign] /\ \A x \in Obj : x # o => desc'[x] = desc[x]
    BY <1>0, <2>1 DEF TypeOK
  <2> QED BY <1>0, <1>1, <1>2, <2>2 DEF Shutting, OnlyOwnDescriptors, SocketsShut
<1>7. Ending'
  <2> SUFFICES ASSUME NEW x \in Obj, obj'[x].mem = "live", ~obj'[x].cancelled,
                      Over(x)' \/ Deaf(x, obj'[x])
               PROVE  Doomed(x)'
    BY DEF Ending
  <2>1. CASE x = o
    <3>1. told'[o] = <<>>
      BY <1>0 DEF Structs
    <3>2. ~Over(o)'
      BY <3>1 DEF Over, InLog
    <3> QED BY <1>1, <1>2, <2>1, <3>2
  <2>2. CASE x # o
    <3>1. Over(x) \/ Deaf(x, obj[x])
      BY <1>1, <2>2 DEF Over, InLog
    <3>2. Doomed(x)
      BY <1>0, <1>1, <2>2, <3>1 DEF Ending
    <3> QED BY <3>2 DEF Doomed, Disc
  <2> QED BY <2>1, <2>2
<1> QED BY <1>1, <1>2, <1>4, <1>5, <1>6, <1>7

\* A session is created.
LEMMA OpenSessionStep ==
  ASSUME SInv, NEW kinds, OpenSession(kinds)
  PROVE  Parts'
<1>0. TypeOK /\ Structs /\ Closing /\ Listing /\ Cascading /\ Ses \in Obj /\ Ses \notin Conns
  BY ConstantsAssumption DEF SInv, TInv, Obj
<1>1. /\ obj[Ses].mem = "none" /\ desc' = [desc EXCEPT ![Ses] = "open"]
      /\ connlist' = connlist /\ stack' = stack /\ told' = told
  BY DEF OpenSession
<1>2. PICK k : obj' = [obj EXCEPT ![Ses] = Connecting(k)]
  BY DEF OpenSession
<1>3. /\ Frames' /\ Structs' /\ Shutting' /\ Ending'
      /\ obj'[Ses].mem = "live" /\ ~obj'[Ses].cancelled
      /\ \A x \in Obj : x # Ses => obj'[x] = obj[x]
  BY <1>0, <1>1, <1>2, OpenedKeeps
<1>4. Closing'
  BY <1>0, <1>1 DEF Closing
<1>5. connlist = <<>>
  BY <1>0, <1>1 DEF Listing
<1>6. Listing'
  <2>1. \A c \in Conns : obj'[c] = obj[c]
    BY <1>0, <1>3 DEF Obj
  <2> QED BY <1>0, <1>1, <1>3, <2>1 DEF Listing, ListIntegrity
<1>7. ~obj[Ses].cancelled
  BY <1>0, <1>1, ZeroedIs DEF Structs
<1>8. Cascading'
  BY <1>0, <1>1, <1>3, <1>7 DEF Cascading, CascadeComplete
<1> QED BY <1>3, <1>4, <1>6, <1>8 DEF Parts

\* A connection is opened, and becomes the head of the list.
LEMMA OpenConnectionStep ==
  ASSUME SInv, NEW c \in Conns, NEW kind, OpenConnection(c, kind)
  PROVE  Parts'
<1>0. TypeOK /\ Frames /\ Structs /\ Closing /\ Listing /\ Cascading /\ ListIntegrity
      /\ Ses \in Obj /\ c \in Obj /\ c # Ses
  BY ConstantsAssumption DEF SInv, TInv, Obj, Listing
<1>1. /\ obj[c].mem = "none" /\ desc' = [desc EXCEPT ![c] = "open"]
      /\ connlist' = <<c>> \o connlist /\ stack' = stack /\ told' = told
      /\ obj' = [obj EXCEPT ![c] = Connecting(kind)]
  BY DEF OpenConnection
\* the session is in use
<1>2. obj[Ses].mem = "live" /\ ~obj[Ses].cancelled
  <2>1. Unused.fd = "none" /\ Zeroed.kind = "raw"
    <3>1. Unused = [Zeroed EXCEPT !["mem"] = "none", !["fd"] = "none"]
      BY Zenon DEF Unused
    <3> QED BY <3>1 DEF Zeroed
  <2>2. obj[Ses].mem \in {"none", "live", "closed"}
    BY <1>0 DEF TypeOK, Struct
  <2> QED BY <1>0, <2>1, <2>2 DEF Structs, OpenConnection, IsActive
<1>3. /\ Frames' /\ Structs' /\ Shutting' /\ Ending'
      /\ obj'[c].mem = "live" /\ ~obj'[c].cancelled
      /\ \A x \in Obj : x # c => obj'[x] = obj[x]
  BY <1>0, <1>1, OpenedKeeps
<1>4. \A i \in 1..Len(stack) : stack[i].pc \notin {"freeSession", "cascade"}
  <2> SUFFICES ASSUME NEW i \in 1..Len(stack), stack[i].pc \in {"freeSession", "cascade"} PROVE FALSE
    OBVIOUS
  <2>1. stack[i].pc = "freeSession" => stack[i].o = Ses /\ obj[stack[i].o].cancelled
    BY <1>0 DEF Closing, Frames, Dying
  <2>2. stack[i].pc = "cascade" => obj[Ses].cancelled
    BY <1>0 DEF Cascading
  <2> QED BY <1>2, <2>1, <2>2
<1>5. Closing'
  BY <1>0, <1>1, <1>4 DEF Closing
<1>6. /\ connlist \in Seq(Conns) /\ Len(connlist) \in Nat /\ DOMAIN connlist = 1..Len(connlist)
      /\ \A i \in 1..Len(connlist) : connlist[i] \in Conns /\ connlist[i] # c
  <2>1. connlist \in Seq(Conns) /\ Len(connlist) \in Nat /\ DOMAIN connlist = 1..Len(connlist)
    BY <1>0, LenProperties DEF TypeOK
  <2> QED BY <1>0, <1>1, <2>1, ListedLive
<1>7. /\ DOMAIN connlist' = 1..(Len(connlist) + 1) /\ connlist'[1] = c /\ connlist' # <<>>
      /\ \A i \in 1..Len(connlist) : connlist'[i + 1] = connlist[i]
      /\ \A i \in 2..(Len(connlist) + 1) : connlist'[i] = connlist[i - 1] /\ i - 1 \in 1..Len(connlist)
  <2>1. <<c>> \in Seq(Conns) /\ Len(<<c>>) = 1 /\ <<c>>[1] = c
    OBVIOUS
  <2>2. /\ connlist' \in Seq(Conns) /\ Len(connlist') = 1 + Len(connlist)
        /\ \A i \in 1..(1 + Len(connlist)) :
             connlist'[i] = IF i <= 1 THEN <<c>>[i] ELSE connlist[i - 1]
    <3>1. /\ <<c>> \o connlist \in Seq(Conns)
          /\ Len(<<c>> \o connlist) = Len(<<c>>) + Len(connlist)
          /\ \A i \in 1..(Len(<<c>>) + Len(connlist)) :
               (<<c>> \o connlist)[i] = IF i <= Len(<<c>>) THEN <<c>>[i] ELSE connlist[i - Len(<<c>>)]
      BY <1>6, <2>1, ConcatProperties
    <3> QED BY <1>1, <2>1, <3>1, Zenon
  <2>3. DOMAIN connlist' = 1..(Len(connlist) + 1) /\ connlist' # <<>>
    <3>1. DOMAIN connlist' = 1..Len(connlist') /\ (connlist' = <<>> <=> Len(connlist') = 0)
      BY <2>2, LenProperties, EmptySeq
    <3> QED BY <1>6, <2>2, <3>1
  <2>4. connlist'[1] = c
    <3>1. 1 \in 1..(1 + Len(connlist)) /\ 1 <= 1
      BY <1>6
    <3> QED BY <2>1, <2>2, <3>1
  <2>5. ASSUME NEW i \in 2..(Len(connlist) + 1)
        PROVE  connlist'[i] = connlist[i - 1] /\ i - 1 \in 1..Len(connlist)
    <3>1. i \in 1..(1 + Len(connlist)) /\ ~(i <= 1) /\ i - 1 \in 1..Len(connlist)
      BY <1>6
    <3> QED BY <2>2, <3>1
  <2>6. ASSUME NEW i \in 1..Len(connlist) PROVE connlist'[i + 1] = connlist[i]
    <3>1. i + 1 \in 2..(Len(connlist) + 1) /\ (i + 1) - 1 = i
      BY <1>6
    <3> QED BY <2>5, <3>1
  <2> QED BY <2>3, <2>4, <2>5, <2>6
<1>8. Listing'
  <2>1. \A i, j \in DOMAIN connlist' : connlist'[i] = connlist'[j] => i = j
    <3> SUFFICES ASSUME NEW i \in 1..(Len(connlist) + 1), NEW j \in 1..(Len(connlist) + 1),
                        connlist'[i] = connlist'[j]
                 PROVE  i = j
      BY <1>7
    <3>1. CASE i = 1 \/ j = 1
      <4>1. ASSUME NEW n \in 2..(Len(connlist) + 1) PROVE connlist'[n] # c
        BY <1>6, <1>7
      <4>2. (i = 1 \/ i \in 2..(Len(connlist) + 1)) /\ (j = 1 \/ j \in 2..(Len(connlist) + 1))
        BY <1>6
      <4> QED BY <1>7, <3>1, <4>1, <4>2
    <3>2. CASE i # 1 /\ j # 1
      <4>1. i \in 2..(Len(connlist) + 1) /\ j \in 2..(Len(connlist) + 1)
        BY <1>6, <3>2
      <4>2. connlist[i - 1] = connlist[j - 1] /\ i - 1 \in DOMAIN connlist /\ j - 1 \in DOMAIN connlist
        BY <1>6, <1>7, <4>1
      <4>3. i - 1 = j - 1
        BY <1>0, <4>2 DEF ListIntegrity
      <4> QED BY <1>6, <4>3
    <3> QED BY <3>1, <3>2
  <2>2. ASSUME NEW i \in DOMAIN connlist' PROVE connlist'[i] \in Conns /\ obj'[connlist'[i]].mem = "live"
    <3>1. i = 1 \/ i \in 2..(Len(connlist) + 1)
      BY <1>6, <1>7
    <3>2. ASSUME NEW n \in 1..Len(connlist) PROVE obj'[connlist[n]].mem = "live"
      BY <1>0, <1>3, <1>6, ListedLive DEF Obj
    <3> QED BY <1>3, <1>6, <1>7, <3>1, <3>2
  <2>3. ASSUME NEW d \in Conns, obj'[d].mem = "live" PROVE \E i \in DOMAIN connlist' : connlist'[i] = d
    <3>1. CASE d = c
      <4>1. 1 \in DOMAIN connlist'
        BY <1>6, <1>7
      <4> QED BY <1>7, <3>1, <4>1
    <3>2. CASE d # c
      <4>1. obj[d].mem = "live"
        BY <1>3, <2>3, <3>2 DEF Obj
      <4>2. PICK n \in 1..Len(connlist) : connlist[n] = d
        BY <1>0, <4>1, Placed
      <4>3. n + 1 \in DOMAIN connlist' /\ connlist'[n + 1] = d
        BY <1>6, <1>7, <4>2
      <4> QED BY <4>3
    <3> QED BY <3>1, <3>2
  <2>4. {connlist'[i] : i \in DOMAIN connlist'} = {d \in Conns : obj'[d].mem = "live"}
    BY <2>2, <2>3
  <2>5. obj'[Ses].mem = "live"
    BY <1>0, <1>2, <1>3
  <2> QED BY <2>1, <2>4, <2>5 DEF Listing, ListIntegrity
<1>9. Cascading'
  BY <1>0, <1>1, <1>2, <1>3, <1>4 DEF Cascading, CascadeComplete
<1> QED BY <1>3, <1>5, <1>8, <1>9 DEF Parts

\* sam3aSend queues, and touches nothing else.
LEMMA SendStep ==
  ASSUME SInv, NEW c \in Conns, sam3aSend(c)
  PROVE  Parts'
<1>0. TypeOK /\ Frames /\ Structs /\ Closing /\ Listing /\ Shutting /\ Cascading /\ Ending
      /\ c \in Obj /\ c # Ses /\ obj[c] \in Struct
  BY ConstantsAssumption DEF SInv, TInv, Obj, TypeOK
<1>1. PICK s : s = Queue(obj[c], obj[c].out + 1)
  OBVIOUS
<1>2. /\ obj' = [obj EXCEPT ![c] = s] /\ connlist' = connlist /\ stack' = stack /\ told' = told
      /\ desc' = desc
  BY <1>1 DEF sam3aSend
<1>3. obj'[c] = s /\ \A x \in Obj : x # c => obj'[x] = obj[x]
  BY <1>0, <1>2 DEF TypeOK
<1>4. SameLife(obj[c], s) /\ (Deaf(c, s) => Deaf(c, obj[c]))
  BY <1>0, <1>1, HandlersKeepLife
<1>5. s.mem = obj[c].mem /\ s.fd = obj[c].fd /\ s.cancelled = obj[c].cancelled
  BY <1>4 DEF SameLife
\* it is in use
<1>6. obj[c].mem = "live"
  <2>1. Unused.procW = "null" /\ Zeroed.procW = "null"
    <3>1. Unused = [Zeroed EXCEPT !["mem"] = "none", !["fd"] = "none"]
      BY Zenon DEF Unused
    <3> QED BY <3>1 DEF Zeroed
  <2>2. obj[c].mem \in {"none", "live", "closed"} /\ obj[c].procW # "null"
    BY <1>0 DEF Struct, sam3aSend
  <2> QED BY <1>0, <2>1, <2>2 DEF Structs
<1>7. Steps(<<>>, stack) /\ Keeps(obj, obj')
  <2>1. Told(<<>>) = told
    BY DEF Told
  <2> QED BY <1>0, <1>2, <1>3, <1>5, <2>1, NothingPushed DEF Steps, Keeps, TypeOK
<1>8. Frames'
  BY <1>0, <1>7, NothingPushed, NoFrames, FramesKept
<1>9. Structs'
  BY <1>0, <1>3, <1>5, <1>6, <1>7, NoFrames, StructsKept DEF Structs
<1>10. Closing' /\ Listing' /\ Shutting'
  <2>1. Listing'
    BY <1>0, <1>2, <1>3, <1>5, ListingKept
  <2>2. Shutting'
    BY <1>0, <1>2, <1>3, <1>5, ShuttingKept
  <2> QED BY <1>0, <1>2, <2>1, <2>2 DEF Closing
<1>11. Cascading'
  <2>1. obj'[Ses] = obj[Ses]
    BY <1>0, <1>3 DEF Obj
  <2> QED BY <1>0, <1>2, <1>7, <2>1, NoFrames, CascadingKept
<1>12. Ending'
  BY <1>0, <1>3, <1>4, <1>5, <1>7, EndingKept DEF TellsEnd
<1> QED BY <1>8, <1>9, <1>10, <1>11, <1>12 DEF Parts

-----------------------------------------------------------------------------
(* The invariant holds.                                                    *)

\* What the parts of the invariant speak of stays as it was.
LEMMA SameParts ==
  ASSUME SInv, obj' = obj, connlist' = connlist, stack' = stack, told' = told, desc' = desc
  PROVE  Parts'
<1>1. Frames' /\ Structs' /\ Closing'
  BY DEF SInv, Frames, Nested, Lasts, Dying, Working, Above, IsConnCode, Disc, Structs, Closing,
         Unused, Zeroed
<1>2. Listing' /\ Shutting'
  BY DEF SInv, Listing, ListIntegrity, Shutting, OnlyOwnDescriptors, SocketsShut
<1>3. Cascading'
  BY DEF SInv, Cascading, CascadeComplete, OnStack
<1>4. Ending'
  BY DEF SInv, Ending, Over, InLog, Deaf, Doomed, Disc
<1> QED BY <1>1, <1>2, <1>3, <1>4 DEF Parts

\* Nothing has been opened yet.
LEMMA InitSInv == Init => SInv
<1> SUFFICES ASSUME Init PROVE SInv
  OBVIOUS
<1>1. TInv
  BY InitType
<1>2. stack = <<>> /\ Len(stack) = 0 /\ connlist = <<>> /\ Ses \in Obj
  BY DEF Init, Obj
<1>3. \A o \in Obj : obj[o] = Unused /\ obj[o].mem = "none" /\ ~obj[o].cancelled /\ told[o] = <<>>
  BY ZeroedIs DEF Init
<1>4. Frames /\ Closing
  BY <1>2 DEF Frames, Nested, Lasts, Dying, Working, Closing
<1>5. Structs
  BY <1>3 DEF Structs
<1>6. Listing
  BY <1>2, <1>3 DEF Listing, ListIntegrity, Obj
<1>7. Shutting
  BY <1>3 DEF Shutting, OnlyOwnDescriptors, SocketsShut, Init, Descriptors
<1>8. Cascading /\ Ending
  BY <1>2, <1>3 DEF Cascading, CascadeComplete, Ending
<1> QED BY <1>1, <1>4, <1>5, <1>6, <1>7, <1>8 DEF SInv

\* A step of a function, of the application or of the bridge keeps it.
LEMMA NextSInv ==
  ASSUME ~CloseInSessionCallbacks, SInv, [Next]_vars
  PROVE  SInv'
<1>0. Parts' => SInv'
  <2>1. TInv'
    BY NextType DEF SInv
  <2> QED BY <2>1 DEF SInv, Parts
<1>1. CASE App
  <2>1. CASE sam3aCreateSessionEx \/ sam3aGenerateKeysEx \/ sam3aNameLookupEx
    BY <1>0, <2>1, OpenSessionStep DEF sam3aCreateSessionEx, sam3aGenerateKeysEx, sam3aNameLookupEx
  <2>2. ASSUME NEW c \in Conns, sam3aStreamConnectEx(c) \/ sam3aStreamAcceptEx(c) PROVE Parts'
    BY <2>2, OpenConnectionStep DEF sam3aStreamConnectEx, sam3aStreamAcceptEx
  <2>3. ASSUME NEW c \in Conns, sam3aSend(c) PROVE Parts'
    BY <2>3, SendStep
  <2>4. CASE \/ sam3aCancelSession \/ sam3aCloseSession
             \/ \E c \in Conns : sam3aCancelConnection(c) \/ sam3aCloseConnection(c)
    BY <1>0, <2>4, EndCallsStep
  <2> QED BY <1>0, <1>1, <2>1, <2>2, <2>3, <2>4 DEF App
<1>2. CASE Return
  BY <1>0, <1>2, ReturnStep
<1>3. CASE Select
  BY <1>0, <1>3, SelectStep
<1>4. CASE Teardown
  <2>1. CASE sesDisconnect \/ closeSession \/ freeSession
    BY <1>0, <2>1, SesDisconnectStep, CloseSessionStep, FreeSessionStep
  <2>2. ASSUME NEW o \in Obj, sesDisconnectLoop(o) PROVE Parts'
    BY <2>2, CascadeStep
  <2>3. ASSUME NEW c \in Conns, connDisconnect(c) \/ destroyConn(c) \/ freeConn(c) PROVE Parts'
    BY <2>3, ConnDisconnectStep, DestroyStep, FreeConnStep
  <2> QED BY <1>0, <1>4, <2>1, <2>2, <2>3 DEF Teardown
<1>5. CASE \/ ReadSession \/ WriteSession
           \/ \E c \in Conns : ReadConn(c) \/ WriteConn(c) \/ aioConnDataReader(c) \/ ready(c)
  BY <1>0, <1>5, ProcessorsStep
<1>6. ASSUME NEW o \in Obj, Walk(o) PROVE SInv'
  BY <1>0, <1>6, WalkStep
<1>7. CASE Bridge
  <2>1. obj' = obj /\ connlist' = connlist /\ stack' = stack /\ told' = told /\ desc' = desc
    BY <1>7 DEF Bridge, TcpConnect, Answer, AnswerPart, PeerArrives, SendData, Hangup, BridgeChanges
  <2> QED BY <1>0, <2>1, SameParts
<1>8. CASE UNCHANGED vars
  BY <1>0, <1>8, SameParts DEF vars
<1>9. CASE Done
  BY <1>8, <1>9 DEF Done
<1> QED BY <1>1, <1>2, <1>3, <1>4, <1>5, <1>6, <1>7, <1>8, <1>9 DEF Next, Library

-----------------------------------------------------------------------------
(* The results.                                                            *)

\* The call stack, the connection list, the descriptors and the histories fit
\* together after every step, as long as the application closes its session
\* outside of callbacks.
THEOREM StackSound == ~CloseInSessionCallbacks => (Spec => []SInv)
<1> SUFFICES ASSUME ~CloseInSessionCallbacks PROVE Spec => []SInv
  OBVIOUS
<1>1. SInv /\ [Next]_vars => SInv'
  BY NextSInv
<1> QED BY <1>1, InitSInv, PTL DEF Spec

\* No function on the call stack works on a connection that was freed.
THEOREM AsyncFramesAreLive == ~CloseInSessionCallbacks => (Spec => []FramesAreLive)
<1>1. SInv => FramesAreLive
  <2> SUFFICES ASSUME SInv PROVE FramesAreLive
    OBVIOUS
  <2>1. DOMAIN stack = 1..Len(stack)
    BY LenProperties DEF SInv, TInv, TypeOK
  <2> QED BY <2>1 DEF SInv, Frames, Working, FramesAreLive
<1> QED BY <1>1, StackSound, PTL

\* connlist holds every allocated connection once.
THEOREM AsyncListIntegrity == ~CloseInSessionCallbacks => (Spec => []ListIntegrity)
<1>1. SInv => ListIntegrity
  BY DEF SInv, Listing
<1> QED BY <1>1, StackSound, PTL

\* No descriptor but the library's own is ever shut down.
THEOREM AsyncOnlyOwnDescriptors == ~CloseInSessionCallbacks => (Spec => []OnlyOwnDescriptors)
<1>1. SInv => OnlyOwnDescriptors
  BY DEF SInv, Shutting
<1> QED BY <1>1, StackSound, PTL

\* What is cancelled or freed has no open socket.
THEOREM AsyncSocketsShut == ~CloseInSessionCallbacks => (Spec => []SocketsShut)
<1>1. SInv => SocketsShut
  BY DEF SInv, Shutting
<1> QED BY <1>1, StackSound, PTL

\* A session that has been disconnected has no connection that is not.
THEOREM AsyncCascadeComplete == ~CloseInSessionCallbacks => (Spec => []CascadeComplete)
<1>1. SInv => CascadeComplete
  BY DEF SInv, Cascading
<1> QED BY <1>1, StackSound, PTL

\* Who is at its end is cancelled once no function runs any more.
LEMMA EndedOutside ==
  ASSUME SInv, stack = <<>>, NEW o \in Obj, obj[o].mem = "live", Over(o) \/ Deaf(o, obj[o])
  PROVE  obj[o].cancelled
<1>1. ~Doomed(o)
  BY DEF Doomed
<1> QED BY <1>1 DEF SInv, Ending

\* What was told of an error is cancelled when the application has control
\* outside of callbacks again.
THEOREM AsyncErrorIsFatal == ~CloseInSessionCallbacks => (Spec => []ErrorIsFatal)
<1>1. SInv => ErrorIsFatal
  BY EndedOutside DEF ErrorIsFatal, Over
<1> QED BY <1>1, StackSound, PTL

\* A key generation or a name lookup that was answered is cancelled.
THEOREM AsyncOneShotIsOver == ~CloseInSessionCallbacks => (Spec => []OneShotIsOver)
<1>1. SInv => OneShotIsOver
  <2> SUFFICES ASSUME SInv, stack = <<>>, obj[Ses].kind \in {"keyGen", "lookup"}, InLog(Ses, "answer")
               PROVE  obj[Ses].cancelled
    BY DEF OneShotIsOver
  <2>1. Ses \in Obj /\ TypeOK /\ Structs
    BY DEF Obj, SInv, TInv
  <2>2. Unused.kind = "raw" /\ Zeroed.kind = "raw"
    <3>1. Unused = [Zeroed EXCEPT !["mem"] = "none", !["fd"] = "none"]
      BY Zenon DEF Unused
    <3> QED BY <3>1 DEF Zeroed
  <2>3. obj[Ses].mem = "live"
    <3>1. obj[Ses].mem \in {"none", "live", "closed"}
      BY <2>1 DEF TypeOK, Struct
    <3> QED BY <2>1, <2>2, <3>1 DEF Structs
  <2> QED BY <2>1, <2>3, EndedOutside DEF Over
<1> QED BY <1>1, StackSound, PTL

\* What is in use has a processor for what comes next.
THEOREM AsyncNeverDeaf == ~CloseInSessionCallbacks => (Spec => []NeverDeaf)
<1>1. SInv => NeverDeaf
  BY EndedOutside DEF NeverDeaf, IsActive, Deaf
<1> QED BY <1>1, StackSound, PTL

\* select() is told of every descriptor that it has something to wait for on:
\* the one half of a stream that does not count is covered by the other.
THEOREM AsyncMaxFdCovers == Spec => []MaxFdCovers
<1>1. TInv => MaxFdCovers
  <2> SUFFICES ASSUME TInv, NEW o \in sam3aAddSessionToFDS.r \cup sam3aAddSessionToFDS.w
               PROVE  WithinMax(o)
    BY DEF MaxFdCovers
  <2>1. o \in Obj /\ Watched(o) /\ (obj[o].procR # "null" \/ obj[o].procW # "null")
    BY DEF sam3aAddSessionToFDS
  <2>2. obj[o] \in SoundStruct
    BY <2>1 DEF TInv
  <2>3. obj[o].procR # "null" \/ ~obj[o].callDisc
    BY <2>1, <2>2 DEF SoundStruct, Struct, IsIdle, IsConnecting, IsSending, IsAwaiting, IsStreaming
  <2>4. RaisesMax(o)
    BY <2>1, <2>3 DEF RaisesMax
  <2>5. Pos(o) \in Nat
    BY <2>1, PosType DEF TInv
  <2> QED BY <2>1, <2>4, <2>5 DEF WithinMax
<1> QED BY <1>1, InitType, NextType, PTL DEF Spec

=============================================================================
