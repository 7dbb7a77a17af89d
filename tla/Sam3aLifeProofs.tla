--------------------------- MODULE Sam3aLifeProofs ---------------------------
(***************************************************************************)
(* The asynchronous library implements the life cycle of the callbacks     *)
(* that libsam3a.h:100-160 describes (CallbackLife), for any number of     *)
(* connections and whatever functions the application calls inside the     *)
(* callbacks: one error or one opening, traffic only while the object is   *)
(* open, one cbDisconnected for what was opened, cbDestroy as the last.    *)
(*                                                                         *)
(* The invariant, LInv, ties what an object was told to its struct and to  *)
(* the call stack.  Logged: it was told that it is open exactly when its   *)
(* callDisconnectCB is set, that it is disconnected exactly when it is     *)
(* cancelled besides and the loop of sesDisconnect is over, and that it is *)
(* destroyed only if its free is what remains to be done.  Undisturbed:    *)
(* what serves a descriptor has nothing but the rest of its round below    *)
(* it, so that no end of an object is under way when it is told of traffic *)
(* or of an error; SInv then says that it has not been told of its end.    *)
(*                                                                         *)
(* Proper says what a step may tell, push and change; each action is shown *)
(* proper, and a proper step keeps LInv and is a step of the life cycle.   *)
(***************************************************************************)
EXTENDS Sam3aStackProofs

-----------------------------------------------------------------------------
(* The invariant.                                                          *)

\* The frames that serve a ready descriptor.
Service == {"readIO", "writeIO", "readLoop", "ready", "walk"}

\* sam3aProcessSessionIO is called from the loop of the application: nothing
\* but the rest of it stands below one of its frames.
Undisturbed(st) == \A i, j \in 1..Len(st) :
  st[i].pc \in Service /\ i < j => st[j].pc \in Service

\* A stream is read, and its first cbSent made, when it has been opened.
Opened(ob, st) == \A i \in 1..Len(st) :
  st[i].pc \in {"readLoop", "ready"} => ob[st[i].o].callDisc

OneCascade(st) == \A i, j \in 1..Len(st) :
  st[i].pc = "cascade" /\ st[j].pc = "cascade" => i = j

\* The loop of sesDisconnect, after which cbDisconnected of the session is due.
Cascades(o) == o = Ses /\ \E i \in 1..Len(stack) : stack[i].pc = "cascade"

\* The free that follows cbDestroy of o.
Freeing(o) == F(IF o = Ses THEN "freeSession" ELSE "freeConn", o)

\* What o was told is what its struct and the stack say.
Logged(o) ==
  /\ InLog(o, "up") <=> obj[o].callDisc
  /\ InLog(o, "disconnected") => obj[o].cancelled /\ ~Cascades(o)
  /\ obj[o].cancelled /\ obj[o].callDisc => InLog(o, "disconnected") \/ Cascades(o)
  /\ InLog(o, "destroy") => (\E i \in 1..Len(stack) : stack[i] = Freeing(o)) /\ ~Cascades(o)

LInv == /\ Undisturbed(stack) /\ Opened(obj, stack) /\ OneCascade(stack)
        /\ \A o \in Obj : obj[o].mem = "live" => Logged(o)

-----------------------------------------------------------------------------
(* The events of the life cycle.                                           *)

\* What a step may tell whom, in terms of the life cycle.
Allowed(o, e) ==
  /\ e \in {"error", "up", "answer", "traffic"} =>
       \A v \in {"error", "answer", "disconnected", "destroy"} : ~InLog(o, v)
  /\ e \in {"up", "answer"} => ~InLog(o, "up")
  /\ e = "traffic" => InLog(o, "up")
  /\ e = "disconnected" => /\ InLog(o, "up")
                           /\ ~InLog(o, "disconnected") /\ ~InLog(o, "destroy")
  /\ e = "destroy" => /\ ~InLog(o, "destroy")
                      /\ InLog(o, "up") => InLog(o, "disconnected")

\* A step that tells what it may is a step of the life cycle; a repetition of
\* cbRead or cbSent is none.
LEMMA LifeStep ==
  ASSUME TypeOK, NEW fs \in Seq(Frame), told' = Told(fs),
         \A o \in Obj, e \in Events : Tells(o, e, fs) => Allowed(o, e)
  PROVE  [Life!Next]_told
<1>1. CASE fs # <<>> /\ Head(fs).pc \in Callbacks
  <2>1. Head(fs) \in Frame
    BY <1>1, EmptySeq, LenProperties
  <2>2. PICK o \in Obj : o = Head(fs).o
    BY <2>1 DEF Frame
  <2>3. PICK e \in Events : e = Event[Head(fs).pc]
    BY <1>1, Events6
  <2>4. Allowed(o, e)
    BY <1>1, <2>2, <2>3 DEF Tells
  <2>5. told' = [told EXCEPT ![o] = Record(@, e)]
    BY <1>1, <2>2, <2>3 DEF Told
  <2>6. \/ told' = [told EXCEPT ![o] = Append(@, e)]
        \/ told' = told
    <3>1. CASE Record(told[o], e) = Append(told[o], e)
      BY <2>5, <3>1, Zenon DEF TypeOK
    <3>2. CASE Record(told[o], e) = told[o]
      BY <2>5, <3>2 DEF TypeOK
    <3> QED BY <3>1, <3>2 DEF Record
  <2>7. ASSUME told' = [told EXCEPT ![o] = Append(@, e)] PROVE Life!Next
    <3>1. Life!Tell(o, e)
      BY <2>7 DEF Life!Tell
    <3>2. \A v : Life!Had(o, v) <=> InLog(o, v)
      BY DEF Life!Had, InLog
    <3>3. Life!Over(o) <=> \E v \in {"error", "answer", "disconnected", "destroy"} : InLog(o, v)
      BY <3>2 DEF Life!Over
    <3>4. \/ Life!Error(o) \/ Life!Up(o) \/ Life!Answer(o) \/ Life!Traffic(o)
          \/ Life!Disconnected(o) \/ Life!Destroy(o)
      <4>1. CASE e = "error"
        BY <2>4, <3>1, <3>3, <4>1 DEF Allowed, Life!Error
      <4>2. CASE e = "up"
        BY <2>4, <3>1, <3>2, <3>3, <4>2 DEF Allowed, Life!Up
      <4>3. CASE e = "answer"
        BY <2>4, <3>1, <3>2, <3>3, <4>3 DEF Allowed, Life!Answer
      <4>4. CASE e = "traffic"
        BY <2>4, <3>1, <3>2, <3>3, <4>4 DEF Allowed, Life!Traffic
      <4>5. CASE e = "disconnected"
        BY <2>4, <3>1, <3>2, <4>5 DEF Allowed, Life!Disconnected
      <4>6. CASE e = "destroy"
        BY <2>4, <3>1, <3>2, <4>6 DEF Allowed, Life!Destroy
      <4> QED BY <4>1, <4>2, <4>3, <4>4, <4>5, <4>6 DEF Events
    <3> QED BY <3>4 DEF Life!Next
  <2> QED BY <2>6, <2>7
<1>2. CASE ~(fs # <<>> /\ Head(fs).pc \in Callbacks)
  BY <1>2 DEF Told
<1> QED BY <1>1, <1>2

-----------------------------------------------------------------------------
(* What a step may tell.                                                   *)

\* What a step tells whom, in terms of the struct and of the innermost frame.
MayTell(o, e) ==
  /\ stack # <<>> /\ obj[o].mem = "live"
  /\ e \in {"error", "up", "answer", "traffic"} =>
       stack[1].pc \in Service /\ ~obj[o].cancelled
  /\ e \in {"up", "answer"} => ~obj[o].callDisc
  /\ e = "traffic" => obj[o].callDisc
  /\ e = "disconnected" =>
       /\ obj[o].callDisc /\ obj'[o].cancelled
       /\ o = Ses => stack[1].pc = "cascade"
       /\ o # Ses => stack[1] = Disc(o) /\ ~obj[o].cancelled
  /\ e = "destroy" =>
       stack[1] = F(IF o = Ses THEN "closeSession" ELSE "destroyConn", o)

\* The session's last two functions stand at the bottom, a connection's below
\* everything else of it: cbDestroy comes once.
LEMMA NotFreedTwice ==
  ASSUME SInv, stack # <<>>, NEW o \in Obj,
         stack[1] = F(IF o = Ses THEN "closeSession" ELSE "destroyConn", o)
  PROVE  /\ \A k \in 1..Len(stack) : stack[k] # Freeing(o)
         /\ obj[o].cancelled
         /\ o = Ses => \A k \in 1..Len(stack) : k = 1
<1>1. TypeOK /\ Frames /\ stack \in Seq(Frame)
  BY DEF SInv, TInv, TypeOK
<1>2. 1 \in 1..Len(stack) /\ Len(stack) \in Nat /\ Head(stack) = stack[1]
      /\ Len(Tail(stack)) = Len(stack) - 1
  BY <1>1, Popped
<1>3. stack[1].o = o /\ stack[1].pc = IF o = Ses THEN "closeSession" ELSE "destroyConn"
  BY DEF F
<1>4. obj[o].cancelled
  <2>1. stack[1].pc \in {"destroyConn", "closeSession", "cascade"}
    BY <1>3
  <2> QED BY <1>1, <1>2, <1>3, <2>1 DEF Frames, Dying
<1>5. o = Ses => \A k \in 1..Len(stack) : k = 1
  <2> SUFFICES ASSUME o = Ses PROVE \A k \in 1..Len(stack) : k = 1
    OBVIOUS
  <2>1. Tail(stack) = <<>>
    BY <1>1, <1>2, <1>3, Bottom
  <2>2. PICK n \in Nat : n = Len(stack) /\ n = 1
    <3>1. Len(<<>>) = 0
      OBVIOUS
    <3>2. Len(stack) \in Nat /\ Len(Tail(stack)) = 0
      BY <1>2, <2>1, <3>1, Zenon
    <3>3. Len(stack) - 1 = 0
      BY <1>2, <3>2, Zenon
    <3> QED BY <3>2, <3>3
  <2> QED BY <2>2
<1>6. ASSUME NEW k \in 1..Len(stack) PROVE stack[k] # Freeing(o)
  <2>1. Freeing(o).o = o /\ Freeing(o).pc = IF o = Ses THEN "freeSession" ELSE "freeConn"
    BY DEF Freeing, F
  <2>2. CASE k = 1
    BY <1>3, <2>1, <2>2
  <2>3. CASE k # 1 /\ o # Ses
    <3>1. 1 < k
      BY <1>2, <2>3
    <3> QED BY <1>1, <1>2, <1>3, <2>1, <2>3, <3>1 DEF Frames, Lasts
  <2> QED BY <1>5, <2>2, <2>3
<1> QED BY <1>4, <1>5, <1>6

\* Whatever the stack holds of the end of an object, it is cancelled.
LEMMA FreeingCancelled ==
  ASSUME SInv, NEW o \in Obj, NEW k \in 1..Len(stack), stack[k] = Freeing(o)
  PROVE  obj[o].cancelled
<1>1. Frames
  BY DEF SInv
<1>2. stack[k].o = o /\ stack[k].pc \in {"freeConn", "freeSession"}
  BY DEF Freeing, F
<1> QED BY <1>1, <1>2 DEF Frames, Dying

\* Nothing of the end of an object stands below the functions that serve it.
LEMMA ServiceAlone ==
  ASSUME SInv, LInv, stack # <<>>, stack[1].pc \in Service, NEW o \in Obj,
         NEW k \in 1..Len(stack)
  PROVE  stack[k] # Disc(o) /\ stack[k] # Freeing(o) /\ stack[k].pc # "cascade"
<1>1. stack \in Seq(Frame)
  BY DEF SInv, TInv, TypeOK
<1>2. 1 \in 1..Len(stack) /\ Len(stack) \in Nat
  BY <1>1, Popped
<1>3. stack[k].pc \in Service
  <2>1. CASE k = 1
    BY <2>1
  <2>2. CASE k # 1
    <3>1. 1 < k
      BY <1>2, <2>2
    <3> QED BY <1>2, <3>1 DEF LInv, Undisturbed
  <2> QED BY <2>1, <2>2
<1> QED BY <1>3 DEF Service, Disc, Freeing, F

\* What a step may tell by the struct is what the life cycle allows.
LEMMA Permitted ==
  ASSUME SInv, LInv, NEW o \in Obj, NEW e \in Events, MayTell(o, e)
  PROVE  Allowed(o, e)
<1>1. TypeOK /\ Frames /\ Ending /\ Logged(o) /\ stack \in Seq(Frame)
  BY DEF SInv, TInv, LInv, MayTell, TypeOK
<1>2. 1 \in 1..Len(stack) /\ Len(stack) \in Nat
  BY <1>1, Popped DEF MayTell
<1>3. CASE e \in {"error", "up", "answer", "traffic"}
  <2>1. stack # <<>> /\ stack[1].pc \in Service /\ ~obj[o].cancelled /\ obj[o].mem = "live"
    BY <1>3 DEF MayTell
  <2>2. ~Doomed(o)
    BY <2>1, ServiceAlone DEF Doomed
  <2>3. ~InLog(o, "error") /\ ~InLog(o, "answer")
    BY <1>1, <2>1, <2>2 DEF Ending, Over
  <2>4. ~InLog(o, "disconnected")
    BY <1>1, <2>1 DEF Logged
  <2>5. ~InLog(o, "destroy")
    BY <1>1, <2>1, ServiceAlone DEF Logged
  <2>6. e \in {"up", "answer"} => ~InLog(o, "up")
    BY <1>1 DEF MayTell, Logged
  <2>7. e = "traffic" => InLog(o, "up")
    BY <1>1 DEF MayTell, Logged
  <2> QED BY <1>3, <2>3, <2>4, <2>5, <2>6, <2>7 DEF Allowed
<1>4. CASE e = "disconnected"
  <2>1. InLog(o, "up")
    BY <1>1, <1>4 DEF MayTell, Logged
  <2>2. CASE o = Ses
    <3>1. Cascades(o)
      BY <1>2, <1>4, <2>2 DEF MayTell, Cascades
    <3> QED BY <1>1, <1>4, <2>1, <3>1 DEF Logged, Allowed
  <2>3. CASE o # Ses
    <3>1. ~obj[o].cancelled
      BY <1>4, <2>3 DEF MayTell
    <3>2. ~InLog(o, "disconnected") /\ ~InLog(o, "destroy")
      BY <1>1, <3>1, FreeingCancelled DEF Logged
    <3> QED BY <1>4, <2>1, <3>2 DEF Allowed
  <2> QED BY <2>2, <2>3
<1>5. CASE e = "destroy"
  <2>1. stack # <<>> /\ stack[1] = F(IF o = Ses THEN "closeSession" ELSE "destroyConn", o)
    BY <1>5 DEF MayTell
  <2>2. ~InLog(o, "destroy")
    BY <1>1, <2>1, NotFreedTwice DEF Logged
  <2>3. ~Cascades(o)
    <3>1. o = Ses => \A k \in 1..Len(stack) : stack[k].pc = "closeSession"
      BY <2>1, NotFreedTwice DEF F
    <3> QED BY <3>1 DEF Cascades
  <2>4. InLog(o, "up") => InLog(o, "disconnected")
    BY <1>1, <2>1, <2>3, NotFreedTwice DEF Logged
  <2> QED BY <1>5, <2>2, <2>4 DEF Allowed
<1> QED BY <1>3, <1>4, <1>5 DEF Events

-----------------------------------------------------------------------------
(* Proper steps.                                                           *)

HasCascade(fs) == \E i \in 1..Len(fs) : fs[i].pc = "cascade"

\* What a step changes of o, and what it tells of it.
Keeping(o, fs, r) ==
  /\ obj[o].mem = "none" => ~obj'[o].cancelled
  /\ obj[o].mem \in {"none", "live"}
  /\ obj'[o].callDisc <=> obj[o].callDisc \/ Tells(o, "up", fs)
  /\ obj[o].cancelled => obj'[o].cancelled
  /\ obj'[o].cancelled /\ ~obj[o].cancelled =>
       IF o = Ses THEN HasCascade(fs)
       ELSE obj'[o].callDisc => Tells(o, "disconnected", fs)
  /\ Tells(o, "destroy", fs) => \E i \in 1..Len(fs) : fs[i] = Freeing(o)
  /\ stack # <<>> /\ stack[1] = Freeing(o) => r = stack
  /\ Tells(o, "disconnected", fs) /\ o = Ses => r # stack /\ ~HasCascade(fs)

\* The loop of sesDisconnect is entered once, and left with cbDisconnected.
Looping(fs, r) ==
  /\ \A i \in 1..Len(fs) : fs[i].pc = "cascade" =>
       /\ i = Len(fs) /\ r # stack /\ stack # <<>>
       /\ stack[1].pc = "cascade" \/ ~obj[Ses].cancelled
  /\ stack # <<>> /\ stack[1].pc = "cascade" /\ r # stack /\ obj'[Ses].mem = "live" =>
       HasCascade(fs) \/ (obj'[Ses].callDisc => Tells(Ses, "disconnected", fs))

\* A step of the library, of the application or of the bridge, as far as the
\* life cycle of the callbacks is concerned.
Proper(fs, r) ==
  /\ Steps(fs, r)
  /\ \A o \in Obj, e \in Events : Tells(o, e, fs) => MayTell(o, e)
  /\ Undisturbed(fs)
  /\ (\E i \in 1..Len(fs) : fs[i].pc \in Service) => \A j \in 1..Len(r) : r[j].pc \in Service
  /\ Opened(obj', fs)
  /\ Looping(fs, r)
  /\ \A o \in Obj : obj'[o].mem = "live" => Keeping(o, fs, r)

\* The stack keeps its order.
LEMMA OrderKept ==
  ASSUME SInv, LInv, NEW fs, NEW r, Proper(fs, r)
  PROVE  Undisturbed(stack') /\ OneCascade(stack')
<1>1. /\ TypeOK /\ Steps(fs, r) /\ Undisturbed(fs) /\ Undisturbed(stack) /\ OneCascade(stack)
      /\ Looping(fs, r) /\ stack \in Seq(Frame)
      /\ (\E i \in 1..Len(fs) : fs[i].pc \in Service) => \A j \in 1..Len(r) : r[j].pc \in Service
  BY DEF SInv, TInv, LInv, Proper, TypeOK
<1>2. /\ Len(fs) \in Nat /\ Len(r) \in Nat /\ Len(stack') = Len(fs) + Len(r)
      /\ \A i \in 1..Len(fs) : stack'[i] = fs[i]
      /\ \A i \in 1..Len(stack') : i > Len(fs) =>
           i - Len(fs) \in 1..Len(r) /\ stack'[i] = r[i - Len(fs)]
  BY <1>1, Stacked DEF Steps
<1>3. PICK d \in {0, 1} : /\ \A i \in 1..Len(r) : i + d \in 1..Len(stack) /\ r[i] = stack[i + d]
                          /\ r # stack => d = 1
  <2>1. CASE r = stack
    <3>1. \A i \in 1..Len(r) : i + 0 \in 1..Len(stack) /\ r[i] = stack[i + 0]
      BY <1>2, <2>1
    <3> QED BY <2>1, <3>1
  <2>2. CASE stack # <<>> /\ r = Tail(stack)
    <3>1. /\ Len(stack) \in Nat /\ Len(r) = Len(stack) - 1
          /\ \A i \in 1..Len(r) : r[i] = stack[i + 1]
      BY <1>1, <2>2, Popped
    <3>2. \A i \in 1..Len(r) : i + 1 \in 1..Len(stack) /\ r[i] = stack[i + 1]
      BY <3>1
    <3> QED BY <3>2
  <2> QED BY <1>1, <2>1, <2>2 DEF Steps
<1>4. Undisturbed(r)
  <2> SUFFICES ASSUME NEW i \in 1..Len(r), NEW j \in 1..Len(r), r[i].pc \in Service, i < j
               PROVE  r[j].pc \in Service
    BY DEF Undisturbed
  <2>1. i + d \in 1..Len(stack) /\ j + d \in 1..Len(stack) /\ i + d < j + d
        /\ r[i] = stack[i + d] /\ r[j] = stack[j + d]
    BY <1>2, <1>3
  <2> QED BY <1>1, <2>1 DEF Undisturbed
<1>5. OneCascade(r)
  <2> SUFFICES ASSUME NEW i \in 1..Len(r), NEW j \in 1..Len(r), r[i].pc = "cascade", r[j].pc = "cascade"
               PROVE  i = j
    BY DEF OneCascade
  <2>1. i + d \in 1..Len(stack) /\ j + d \in 1..Len(stack)
        /\ r[i] = stack[i + d] /\ r[j] = stack[j + d]
    BY <1>2, <1>3
  <2>2. i + d = j + d
    BY <1>1, <2>1 DEF OneCascade
  <2> QED BY <1>2, <1>3, <2>2
<1>6. HasCascade(fs) => ~HasCascade(r)
  <2> SUFFICES ASSUME HasCascade(fs), NEW j \in 1..Len(r), r[j].pc = "cascade" PROVE FALSE
    BY DEF HasCascade
  <2>1. r # stack /\ stack # <<>> /\ (stack[1].pc = "cascade" \/ ~obj[Ses].cancelled)
    BY <1>1 DEF HasCascade, Looping
  <2>2. j + 1 \in 1..Len(stack) /\ stack[j + 1].pc = "cascade" /\ 1 \in 1..Len(stack)
    <3>1. 1 \in 1..Len(stack)
      BY <1>1, <2>1, Popped
    <3> QED BY <1>2, <1>3, <2>1, <3>1
  <2>3. obj[Ses].cancelled
    BY <2>2 DEF SInv, Cascading
  <2>4. j + 1 # 1
    BY <1>2
  <2> QED BY <1>1, <2>1, <2>2, <2>3, <2>4 DEF OneCascade
<1>7. Undisturbed(stack')
  <2> SUFFICES ASSUME NEW i \in 1..Len(stack'), NEW j \in 1..Len(stack'),
                      stack'[i].pc \in Service, i < j
               PROVE  stack'[j].pc \in Service
    BY DEF Undisturbed
  <2>1. CASE j <= Len(fs)
    <3>1. i \in 1..Len(fs) /\ j \in 1..Len(fs) /\ stack'[i] = fs[i] /\ stack'[j] = fs[j]
      BY <1>2, <2>1
    <3> QED BY <1>1, <3>1 DEF Undisturbed
  <2>2. CASE i <= Len(fs) /\ j > Len(fs)
    <3>1. i \in 1..Len(fs) /\ stack'[i] = fs[i]
          /\ j - Len(fs) \in 1..Len(r) /\ stack'[j] = r[j - Len(fs)]
      BY <1>2, <2>2
    <3> QED BY <1>1, <3>1
  <2>3. CASE i > Len(fs)
    <3>1. /\ i - Len(fs) \in 1..Len(r) /\ stack'[i] = r[i - Len(fs)]
          /\ j - Len(fs) \in 1..Len(r) /\ stack'[j] = r[j - Len(fs)]
          /\ i - Len(fs) < j - Len(fs)
      BY <1>2, <2>3
    <3> QED BY <1>4, <3>1 DEF Undisturbed
  <2> QED BY <1>2, <2>1, <2>2, <2>3
<1>8. OneCascade(stack')
  <2>1. ASSUME NEW i \in 1..Len(stack'), NEW j \in 1..Len(stack'),
               stack'[i].pc = "cascade", stack'[j].pc = "cascade", i < j
        PROVE  FALSE
    <3>1. CASE j <= Len(fs)
      <4>1. i \in 1..Len(fs) /\ j \in 1..Len(fs) /\ stack'[i] = fs[i] /\ stack'[j] = fs[j]
        BY <1>2, <2>1, <3>1
      <4>2. i = Len(fs) /\ j = Len(fs)
        BY <1>1, <2>1, <4>1 DEF Looping
      <4> QED BY <2>1, <1>2, <4>2
    <3>2. CASE i <= Len(fs) /\ j > Len(fs)
      <4>1. i \in 1..Len(fs) /\ stack'[i] = fs[i]
            /\ j - Len(fs) \in 1..Len(r) /\ stack'[j] = r[j - Len(fs)]
        BY <1>2, <3>2
      <4> QED BY <1>6, <2>1, <4>1 DEF HasCascade
    <3>3. CASE i > Len(fs)
      <4>1. /\ i - Len(fs) \in 1..Len(r) /\ stack'[i] = r[i - Len(fs)]
            /\ j - Len(fs) \in 1..Len(r) /\ stack'[j] = r[j - Len(fs)]
            /\ i - Len(fs) # j - Len(fs)
        BY <1>2, <2>1, <3>3
      <4> QED BY <1>5, <2>1, <4>1 DEF OneCascade
    <3> QED BY <1>2, <3>1, <3>2, <3>3
  <2>2. \A i, j \in 1..Len(stack') : i < j \/ j < i \/ i = j
    BY <1>2
  <2> QED BY <2>1, <2>2 DEF OneCascade
<1> QED BY <1>7, <1>8

-----------------------------------------------------------------------------
(* Proper steps keep the invariant.                                        *)

\* A stream stays opened while functions of it are on the stack.
LEMMA OpenedKept ==
  ASSUME SInv, LInv, SInv', NEW fs, NEW r, Proper(fs, r)
  PROVE  Opened(obj', stack')
<1>1. TypeOK /\ Steps(fs, r) /\ Opened(obj, stack) /\ Opened(obj', fs)
  BY DEF SInv, TInv, LInv, Proper
<1>2. stack' \in Seq(Frame) /\ Frames'
  BY DEF SInv, TInv, TypeOK
<1> SUFFICES ASSUME NEW i \in 1..Len(stack'), stack'[i].pc \in {"readLoop", "ready"}
             PROVE  obj'[stack'[i].o].callDisc
  BY DEF Opened
<1>3. stack'[i].o \in Obj /\ obj'[stack'[i].o].mem = "live"
  BY <1>2, FrameOwner DEF Frames, Working
<1>4. CASE \E k \in 1..Len(fs) : stack'[i] = fs[k]
  BY <1>1, <1>4 DEF Opened
<1>5. CASE \E k \in 1..Len(stack) : stack'[i] = stack[k]
  <2>1. obj[stack'[i].o].callDisc
    BY <1>1, <1>5 DEF Opened
  <2> QED BY <1>3, <2>1 DEF Proper, Keeping
<1> QED BY <1>1, <1>4, <1>5, FrameFrom

\* What o was told stays what its struct and the stack say.
LEMMA LoggedKept ==
  ASSUME SInv, LInv, NEW fs, NEW r, Proper(fs, r), NEW o \in Obj, obj'[o].mem = "live"
  PROVE  Logged(o)'
<1>1. TypeOK /\ Structs /\ Steps(fs, r) /\ fs \in Seq(Frame) /\ told' = Told(fs)
      /\ Keeping(o, fs, r) /\ Looping(fs, r) /\ stack \in Seq(Frame)
  BY DEF SInv, TInv, Proper, Steps, TypeOK
<1>2. \A e : InLog(o, e)' <=> InLog(o, e) \/ Tells(o, e, fs)
  BY <1>1, Logs
<1>3. \A e \in Events : Tells(o, e, fs) => MayTell(o, e)
  BY DEF Proper
<1>4. \A i \in 1..Len(stack') :
        \/ \E k \in 1..Len(fs) : stack'[i] = fs[k]
        \/ \E k \in 1..Len(stack) : stack'[i] = stack[k] /\ (k > 1 \/ r = stack)
  BY <1>1, FrameFrom
<1>5. \A k \in 1..Len(stack) : k > 1 \/ r = stack => \E i \in 1..Len(stack') : stack'[i] = stack[k]
  BY <1>1, FrameTo
<1>6. \A k \in 1..Len(fs) : \E i \in 1..Len(stack') : stack'[i] = fs[k]
  <2>1. /\ Len(fs) \in Nat /\ Len(r) \in Nat /\ Len(stack') = Len(fs) + Len(r)
        /\ \A i \in 1..Len(fs) : stack'[i] = fs[i]
    BY <1>1, Stacked DEF Steps
  <2>2. \A k \in 1..Len(fs) : k \in 1..Len(stack')
    BY <2>1
  <2> QED BY <2>1, <2>2
<1>7. stack # <<>> => 1 \in 1..Len(stack)
  BY <1>1, Popped
<1>8. \A k \in 1..Len(stack) : k > 1 \/ k = 1
  OBVIOUS
<1>9. "up" \in Events /\ "disconnected" \in Events /\ "destroy" \in Events
  BY DEF Events
<1>10. CASE obj[o].mem = "none"
  <2>1. obj[o] = Unused /\ told[o] = <<>>
    BY <1>1, <1>10 DEF Structs
  <2>2. ~obj[o].callDisc
    <3>1. Unused = [Zeroed EXCEPT !["mem"] = "none", !["fd"] = "none"]
      BY Zenon DEF Unused
    <3> QED BY <2>1, <3>1 DEF Zeroed
  <2>3. \A e : ~InLog(o, e)
    BY <2>1 DEF InLog
  <2>4. \A e \in Events : ~Tells(o, e, fs)
    BY <1>3, <1>10 DEF MayTell
  <2>5. ~InLog(o, "up")' /\ ~InLog(o, "disconnected")' /\ ~InLog(o, "destroy")'
    BY <1>2, <1>9, <2>3, <2>4
  <2>6. ~obj'[o].cancelled /\ ~obj'[o].callDisc
    BY <1>1, <1>9, <1>10, <2>2, <2>4 DEF Keeping
  <2> QED BY <2>5, <2>6 DEF Logged
<1>11. CASE obj[o].mem = "live"
  <2>0. Logged(o)
    BY <1>11 DEF LInv
  <2>1. InLog(o, "up")' <=> obj'[o].callDisc
    BY <1>1, <1>2, <2>0 DEF Keeping, Logged
  <2>2. Cascades(o)' => Cascades(o) \/ (HasCascade(fs) /\ o = Ses)
    BY <1>4 DEF Cascades, HasCascade
  <2>3. HasCascade(fs) => r # stack /\ stack # <<>> /\ (stack[1].pc = "cascade" \/ ~obj[Ses].cancelled)
    BY <1>1 DEF HasCascade, Looping
  <2>4. HasCascade(fs) /\ obj[Ses].cancelled /\ o = Ses => Cascades(o)
    BY <1>7, <2>3 DEF Cascades
  <2>5. InLog(o, "disconnected")' => obj'[o].cancelled /\ ~Cascades(o)'
    <3>1. CASE InLog(o, "disconnected")
      <4>1. obj[o].cancelled /\ ~Cascades(o)
        BY <2>0, <3>1 DEF Logged
      <4>2. obj'[o].cancelled
        BY <1>1, <4>1 DEF Keeping
      <4> QED BY <2>2, <2>4, <4>1, <4>2
    <3>2. CASE Tells(o, "disconnected", fs)
      <4>1. obj'[o].cancelled /\ stack # <<>> /\ (o = Ses => stack[1].pc = "cascade")
        BY <1>3, <1>9, <3>2 DEF MayTell
      <4>2. CASE o # Ses
        BY <4>1, <4>2 DEF Cascades
      <4>3. CASE o = Ses
        <5>1. r # stack /\ ~HasCascade(fs)
          BY <1>1, <3>2, <4>3 DEF Keeping
        <5>2. \A k \in 1..Len(stack) : k > 1 => stack[k].pc # "cascade"
          <6>1. OneCascade(stack)
            BY DEF LInv
          <6> QED BY <1>7, <4>1, <4>3, <6>1 DEF OneCascade
        <5>3. ~Cascades(o)'
          BY <1>4, <5>1, <5>2 DEF Cascades, HasCascade
        <5> QED BY <4>1, <5>3
      <4> QED BY <4>2, <4>3
    <3> QED BY <1>2, <3>1, <3>2
  <2>6. obj'[o].cancelled /\ obj'[o].callDisc => InLog(o, "disconnected")' \/ Cascades(o)'
    <3> SUFFICES ASSUME obj'[o].cancelled, obj'[o].callDisc, ~Tells(o, "disconnected", fs),
                        ~(o = Ses /\ HasCascade(fs))
                 PROVE  InLog(o, "disconnected")' \/ Cascades(o)'
      <4>1. o = Ses /\ HasCascade(fs) => Cascades(o)'
        BY <1>6 DEF HasCascade, Cascades
      <4>2. Tells(o, "disconnected", fs) => InLog(o, "disconnected")'
        BY <1>2
      <4> QED BY <4>1, <4>2
    <3>1. obj[o].cancelled
      BY <1>1 DEF Keeping
    <3>2. ~Tells(o, "up", fs)
      BY <1>3, <1>9, <3>1 DEF MayTell
    <3>3. obj[o].callDisc
      BY <1>1, <3>2 DEF Keeping
    <3>4. InLog(o, "disconnected") \/ Cascades(o)
      BY <2>0, <3>1, <3>3 DEF Logged
    <3>5. CASE Cascades(o)
      <4>1. o = Ses
        BY <3>5 DEF Cascades
      <4>2. PICK k \in 1..Len(stack) : stack[k].pc = "cascade"
        BY <3>5 DEF Cascades
      <4>3. stack # <<>>
        BY <4>2, NoFrames
      <4>4. k > 1 \/ r = stack
        <5>1. CASE k = 1 /\ r # stack
          BY <1>1, <4>1, <4>2, <4>3, <5>1 DEF Looping
        <5> QED BY <1>8, <5>1
      <4>5. Cascades(o)'
        BY <1>5, <4>1, <4>2, <4>4 DEF Cascades
      <4> QED BY <4>5
    <3>6. CASE InLog(o, "disconnected")
      BY <1>2, <3>6
    <3> QED BY <3>4, <3>5, <3>6
  <2>7. InLog(o, "destroy")' => (\E i \in 1..Len(stack') : stack'[i] = Freeing(o)) /\ ~Cascades(o)'
    <3>1. CASE InLog(o, "destroy")
      <4>1. PICK k \in 1..Len(stack) : stack[k] = Freeing(o)
        BY <2>0, <3>1 DEF Logged
      <4>2. ~Cascades(o) /\ obj[o].cancelled
        BY <2>0, <3>1, <4>1, FreeingCancelled DEF Logged
      <4>3. stack # <<>>
        BY <4>1, NoFrames
      <4>4. k > 1 \/ r = stack
        BY <1>1, <1>8, <4>1, <4>3 DEF Keeping
      <4>5. \E i \in 1..Len(stack') : stack'[i] = Freeing(o)
        BY <1>5, <4>1, <4>4
      <4> QED BY <2>2, <2>4, <4>2, <4>5
    <3>2. CASE Tells(o, "destroy", fs)
      <4>1. stack # <<>> /\ stack[1] = F(IF o = Ses THEN "closeSession" ELSE "destroyConn", o)
        BY <1>3, <1>9, <3>2 DEF MayTell
      <4>2. obj[o].cancelled /\ (o = Ses => \A k \in 1..Len(stack) : k = 1)
        BY <4>1, NotFreedTwice
      <4>3. ~Cascades(o)
        <5>1. o = Ses => \A k \in 1..Len(stack) : stack[k].pc = "closeSession"
          BY <4>1, <4>2 DEF F
        <5> QED BY <5>1 DEF Cascades
      <4>4. \E i \in 1..Len(stack') : stack'[i] = Freeing(o)
        BY <1>1, <1>6, <3>2 DEF Keeping
      <4> QED BY <2>2, <2>4, <4>2, <4>3, <4>4
    <3> QED BY <1>2, <3>1, <3>2
  <2>8. (\E i \in 1..Len(stack') : stack'[i] = Freeing(o)) => (\E i \in 1..Len(stack) : stack[i] = Freeing(o))'
    BY DEF Freeing
  <2> QED BY <2>1, <2>5, <2>6, <2>7, <2>8 DEF Logged
<1> QED BY <1>1, <1>10, <1>11 DEF Keeping

\* A proper step keeps the invariant, and is one of the life cycle.
LEMMA ProperStep ==
  ASSUME SInv, LInv, SInv', NEW fs, NEW r, Proper(fs, r)
  PROVE  LInv' /\ [Life!Next]_told
<1>1. LInv'
  <2>1. \A o \in Obj : obj'[o].mem = "live" => Logged(o)'
    BY LoggedKept
  <2>2. Undisturbed(stack') /\ OneCascade(stack') /\ Opened(obj', stack')
    BY OrderKept, OpenedKept
  <2> QED BY <2>1, <2>2 DEF LInv
<1>2. [Life!Next]_told
  <2>1. TypeOK /\ fs \in Seq(Frame) /\ told' = Told(fs)
    BY DEF SInv, TInv, Proper, Steps
  <2>2. \A o \in Obj, e \in Events : Tells(o, e, fs) => Allowed(o, e)
    BY Permitted DEF Proper
  <2> QED BY <2>1, <2>2, LifeStep
<1> QED BY <1>1, <1>2

-----------------------------------------------------------------------------
(* Functions that serve an object.                                         *)

\* What a function of o may leave in its struct, and do next, while o is served.
Serves(o, s, fs) ==
  /\ fs \in Seq(Frame) /\ SameLife(obj[o], s)
  /\ \A i \in 1..Len(fs) : fs[i].o = o /\ fs[i].pc # "cascade"
  /\ Undisturbed(fs) /\ Opened([x \in Obj |-> s], fs)
  /\ s.callDisc <=> obj[o].callDisc \/ Tells(o, "up", fs)
  /\ \A e \in Events : Tells(o, e, fs) =>
       /\ ~obj[o].cancelled /\ e \notin {"disconnected", "destroy"}
       /\ e \in {"up", "answer"} => ~obj[o].callDisc
       /\ e = "traffic" => obj[o].callDisc

\* A function that serves o is one.
Served(o) == \E s, fs : Serves(o, s, fs) /\ Run(o, s, fs)

\* A function that serves an object is a proper step.
LEMMA ServedProper ==
  ASSUME SInv, LInv, stack # <<>>, NEW o \in Obj, Head(stack).o = o,
         Head(stack).pc \in Service, Served(o)
  PROVE  \E fs, r : Proper(fs, r)
<1>1. PICK s, fs : Serves(o, s, fs) /\ Run(o, s, fs)
  BY DEF Served
<1> DEFINE r == Tail(stack)
<1>2. TypeOK /\ fs \in Seq(Frame) /\ stack \in Seq(Frame) /\ obj[o].mem = "live"
  BY <1>1, Runner DEF SInv, TInv, TypeOK, Serves
<1>3. /\ Steps(fs, r) /\ obj'[o] = s /\ Head(stack) = stack[1]
      /\ \A x \in Obj : x # o => obj'[x] = obj[x]
  BY <1>1, <1>2, RunSteps
<1>4. Len(stack) \in Nat \ {0} /\ Len(r) = Len(stack) - 1 /\ \A i \in 1..Len(r) : r[i] = stack[i + 1]
  BY <1>2, Popped
<1> HIDE DEF r
<1>5. r # stack
  <2>1. Len(stack) \in Nat /\ Len(r) = Len(stack) - 1
    BY <1>4, Zenon
  <2>2. Len(r) # Len(stack)
    BY <2>1
  <2> QED BY <2>2
<1>6. \A x \in Obj : \A e : Tells(x, e, fs) => x = o
  <2>1. fs # <<>> => 1 \in 1..Len(fs) /\ Head(fs) = fs[1]
    BY <1>2, Popped
  <2> QED BY <1>1, <2>1 DEF Tells, Serves
<1>7. \A x \in Obj, e \in Events : Tells(x, e, fs) => MayTell(x, e)
  BY <1>1, <1>2, <1>3, <1>6 DEF Serves, MayTell
<1>8. \A j \in 1..Len(r) : r[j].pc \in Service
  <2> SUFFICES ASSUME NEW j \in 1..Len(r) PROVE r[j].pc \in Service
    OBVIOUS
  <2>1. 1 \in 1..Len(stack) /\ j + 1 \in 1..Len(stack) /\ 1 < j + 1 /\ r[j] = stack[j + 1]
    BY <1>4
  <2> QED BY <1>3, <2>1 DEF LInv, Undisturbed
<1>9. Undisturbed(fs) /\ Opened(obj', fs)
  BY <1>1, <1>3 DEF Serves, Opened
<1>10. ~HasCascade(fs)
  BY <1>1 DEF Serves, HasCascade
<1>11. stack[1].pc \in Service
  BY <1>3
<1>12. Looping(fs, r)
  BY <1>10, <1>11 DEF Looping, HasCascade, Service
<1>13. ASSUME NEW x \in Obj, obj'[x].mem = "live" PROVE Keeping(x, fs, r)
  <2>1. obj[x].mem = "live" /\ obj'[x].cancelled = obj[x].cancelled
    BY <1>1, <1>2, <1>3, <1>13 DEF Serves, SameLife
  <2>2. obj'[x].callDisc <=> obj[x].callDisc \/ Tells(x, "up", fs)
    <3>1. CASE x = o
      BY <1>1, <1>3, <3>1 DEF Serves
    <3>2. CASE x # o
      BY <1>3, <1>6, <3>2
    <3> QED BY <3>1, <3>2
  <2>3. ~Tells(x, "disconnected", fs) /\ ~Tells(x, "destroy", fs)
    BY <1>1, <1>6 DEF Serves, Events
  <2>4. stack[1] # Freeing(x)
    BY <1>11 DEF Freeing, F, Service
  <2> QED BY <2>1, <2>2, <2>3, <2>4 DEF Keeping
<1>14. Proper(fs, r)
  BY <1>3, <1>7, <1>8, <1>9, <1>12, <1>13 DEF Proper
<1> QED BY <1>14

\* What the handlers make of a struct, as to callDisconnectCB.
LEMMA HandlersKeepOpen ==
  ASSUME NEW s \in Struct
  PROVE  /\ Idle(s).callDisc = s.callDisc
         /\ \A b : Buffer(s, b).callDisc = s.callDisc
         /\ \A n : Queue(s, n).callDisc = s.callDisc
         /\ \A k : /\ SendingCommand(s, k).callDisc = s.callDisc
                   /\ AwaitingLine(s, k).callDisc = s.callDisc
         /\ Created(s).callDisc = TRUE /\ Streaming(s).callDisc = TRUE
<1> USE DEF Struct
<1>1. Idle(s).callDisc = s.callDisc
  <2>1. Idle(s) = [s EXCEPT !["procR"] = "null", !["procW"] = "null"]
    BY Zenon DEF Idle
  <2> QED BY <2>1
<1>2. ASSUME NEW b PROVE Buffer(s, b).callDisc = s.callDisc
  <2>1. Buffer(s, b) = [s EXCEPT !["aio"] = b]
    BY Zenon DEF Buffer
  <2> QED BY <2>1
<1>3. ASSUME NEW n PROVE Queue(s, n).callDisc = s.callDisc
  <2>1. Queue(s, n) = [s EXCEPT !["out"] = n]
    BY Zenon DEF Queue
  <2> QED BY <2>1
<1>4. ASSUME NEW k PROVE SendingCommand(s, k).callDisc = s.callDisc
  <2>1. SendingCommand(s, k) = [s EXCEPT !["procR"] = "null", !["procW"] = "cmdSender",
                                         !["check"] = k, !["aio"] = "cmd"]
    BY Zenon DEF SendingCommand
  <2> QED BY <2>1
<1>5. ASSUME NEW k PROVE AwaitingLine(s, k).callDisc = s.callDisc
  <2>1. AwaitingLine(s, k) = [s EXCEPT !["procR"] = "replyReader", !["procW"] = "null",
                                       !["check"] = k, !["aio"] = "fresh"]
    BY Zenon DEF AwaitingLine
  <2> QED BY <2>1
<1>6. Created(s).callDisc = TRUE
  <2>1. Created(s) = [s EXCEPT !["procR"] = "null", !["procW"] = "null", !["callDisc"] = TRUE]
    BY Zenon DEF Created
  <2> QED BY <2>1
<1>7. Streaming(s).callDisc = TRUE
  <2>1. Streaming(s) = [s EXCEPT !["procR"] = "dataReader", !["procW"] = "dataWriter",
                                 !["callDisc"] = TRUE, !["aio"] = "stream"]
    BY Zenon DEF Streaming
  <2> QED BY <2>1
<1> QED BY <1>1, <1>2, <1>3, <1>4, <1>5, <1>6, <1>7

\* A struct as the function found it, as to its life and callDisconnectCB.
Same(s, t) == SameLife(s, t) /\ t.callDisc = s.callDisc

\* A function that leaves nothing to do.
LEMMA ServesNothing ==
  ASSUME NEW o \in Obj, NEW s, Same(obj[o], s), Run(o, s, <<>>)
  PROVE  Served(o)
<1> DEFINE fs == <<>>
<1>1. fs \in Seq(Frame) /\ Len(fs) = 0 /\ ~(fs # <<>>)
  OBVIOUS
<1>2. Run(o, s, fs)
  OBVIOUS
<1> HIDE DEF fs
<1>3. Serves(o, s, fs)
  BY <1>1 DEF Serves, Undisturbed, Opened, Tells, Same
<1> QED BY <1>2, <1>3 DEF Served

\* One frame for o.
LEMMA ServesOne ==
  ASSUME NEW o \in Obj, NEW s, SameLife(obj[o], s),
         NEW p \in Pcs \ {"cascade", "cbDisconnected", "cbDestroy"}, Run(o, s, <<F(p, o)>>),
         p \in {"readLoop", "ready"} => s.callDisc,
         p \in Callbacks => ~obj[o].cancelled,
         s.callDisc <=> obj[o].callDisc \/ p \in {"cbCreated", "cbConnected", "cbAccepted"},
         p \in {"cbCreated", "cbConnected", "cbAccepted", "cbAnswer"} => ~obj[o].callDisc,
         p \in {"cbRead", "cbSent"} => obj[o].callDisc
  PROVE  Served(o)
<1>1. PICK f \in Frame : f = F(p, o) /\ f.pc = p /\ f.o = o
  BY DEF F, Frame
<1>2. PICK fs : fs = <<f>> /\ fs # <<>> /\ Len(fs) = 1 /\ fs[1] = f /\ Head(fs) = f /\ fs \in Seq(Frame)
  <2>1. <<f>> # <<>> /\ Len(<<f>>) = 1 /\ <<f>>[1] = f /\ Head(<<f>>) = f /\ <<f>> \in Seq(Frame)
    OBVIOUS
  <2> QED BY <2>1, Zenon
<1>3. \A i \in 1..Len(fs) : i = 1 /\ fs[i] = f
  BY <1>2
<1>4. \A e \in Events : Tells(o, e, fs) <=> p \in Callbacks /\ e = Event[p]
  BY <1>1, <1>2 DEF Tells
<1>5. "up" \in Events
  BY DEF Events
<1>6. p \in {"cbCreated", "cbConnected", "cbAccepted"} => p \in Callbacks
  BY DEF Callbacks
<1>7. Tells(o, "up", fs) <=> p \in {"cbCreated", "cbConnected", "cbAccepted"}
  BY <1>4, <1>5, <1>6, Events6
<1>8. \A e \in Events : Tells(o, e, fs) =>
       /\ ~obj[o].cancelled /\ e \notin {"disconnected", "destroy"}
       /\ e \in {"up", "answer"} => ~obj[o].callDisc
       /\ e = "traffic" => obj[o].callDisc
  BY <1>4, Events6
<1>9. Undisturbed(fs) /\ Opened([x \in Obj |-> s], fs)
  BY <1>1, <1>3 DEF Undisturbed, Opened
<1>10. \A i \in 1..Len(fs) : fs[i].o = o /\ fs[i].pc # "cascade"
  BY <1>1, <1>3
<1>11. s.callDisc <=> obj[o].callDisc \/ Tells(o, "up", fs)
  BY <1>7
<1>12. fs \in Seq(Frame)
  BY <1>2
<1>13. Serves(o, s, fs)
  BY <1>8, <1>9, <1>10, <1>11, <1>12, Zenon DEF Serves
<1> QED BY <1>1, <1>2, <1>13 DEF Served

\* A callback for o, and what follows it.
LEMMA ServesTwo ==
  ASSUME NEW o \in Obj, NEW s, SameLife(obj[o], s),
         NEW p \in Callbacks \ {"cbDisconnected", "cbDestroy"},
         NEW q \in {"readLoop", "ready", "sesDisconnect", "connDisconnect"},
         Run(o, s, <<F(p, o), F(q, o)>>),
         q \in {"readLoop", "ready"} => s.callDisc,
         ~obj[o].cancelled,
         s.callDisc <=> obj[o].callDisc \/ p \in {"cbCreated", "cbConnected", "cbAccepted"},
         p \in {"cbCreated", "cbConnected", "cbAccepted", "cbAnswer"} => ~obj[o].callDisc,
         p \in {"cbRead", "cbSent"} => obj[o].callDisc
  PROVE  Served(o)
<1>1. PICK f \in Frame, g \in Frame : /\ f = F(p, o) /\ f.pc = p /\ f.o = o
                                      /\ g = F(q, o) /\ g.pc = q /\ g.o = o
  BY DEF F, Frame, Pcs
<1>2. PICK fs : /\ fs = <<f, g>> /\ fs # <<>> /\ Len(fs) = 2 /\ fs \in Seq(Frame)
                /\ fs[1] = f /\ fs[2] = g /\ Head(fs) = f
  <2>1. /\ <<f, g>> # <<>> /\ Len(<<f, g>>) = 2 /\ <<f, g>> \in Seq(Frame)
        /\ <<f, g>>[1] = f /\ <<f, g>>[2] = g /\ Head(<<f, g>>) = f
    OBVIOUS
  <2> QED BY <2>1, Zenon
<1>3. \A i \in 1..Len(fs) : (i = 1 /\ fs[i] = f) \/ (i = 2 /\ fs[i] = g)
  BY <1>2
<1>4. \A e \in Events : Tells(o, e, fs) <=> e = Event[p]
  BY <1>1, <1>2 DEF Tells
<1>5. "up" \in Events
  BY DEF Events
<1>7. Tells(o, "up", fs) <=> p \in {"cbCreated", "cbConnected", "cbAccepted"}
  BY <1>4, <1>5, Events6
<1>8. \A e \in Events : Tells(o, e, fs) =>
       /\ ~obj[o].cancelled /\ e \notin {"disconnected", "destroy"}
       /\ e \in {"up", "answer"} => ~obj[o].callDisc
       /\ e = "traffic" => obj[o].callDisc
  BY <1>4, Events6
<1>9. p \notin Service
  BY DEF Callbacks, Service
<1>10. Undisturbed(fs)
  BY <1>1, <1>3, <1>9 DEF Undisturbed
<1>11. Opened([x \in Obj |-> s], fs)
  BY <1>1, <1>3, <1>9 DEF Opened, Service
<1>12. \A i \in 1..Len(fs) : fs[i].o = o /\ fs[i].pc # "cascade"
  BY <1>1, <1>3 DEF Callbacks
<1>13. s.callDisc <=> obj[o].callDisc \/ Tells(o, "up", fs)
  BY <1>7
<1>14. fs \in Seq(Frame)
  BY <1>2
<1>15. Serves(o, s, fs)
  BY <1>8, <1>10, <1>11, <1>12, <1>13, <1>14, Zenon DEF Serves
<1> QED BY <1>1, <1>2, <1>15 DEF Served

\* sesError and connError, of an object that is in use.
LEMMA ServesFail ==
  ASSUME NEW o \in Obj, NEW s, Same(obj[o], s), ~obj[o].cancelled, Fail(o, s)
  PROVE  Served(o)
<1>1. PICK q \in {"sesDisconnect", "connDisconnect"} :
        q = IF o = Ses THEN "sesDisconnect" ELSE "connDisconnect"
  OBVIOUS
<1>2. Run(o, s, <<F("cbError", o), F(q, o)>>)
  BY <1>1 DEF Fail, ErrorFrames
<1>3. PICK p \in Callbacks \ {"cbDisconnected", "cbDestroy"} : p = "cbError"
  BY DEF Callbacks
<1> QED BY <1>2, <1>3, ServesTwo DEF Same

-----------------------------------------------------------------------------
(* The handshake.                                                          *)

\* sam3aSendCmdWaitReply for an object that is in use.
LEMMA ServesSend ==
  ASSUME NEW o \in Obj, NEW s \in Struct, Same(obj[o], s), ~obj[o].cancelled, NEW k,
         SendCmdWaitReply(o, s, k)
  PROVE  Served(o)
<1>0. SameLife(s, SendingCommand(s, k)) /\ SendingCommand(s, k).callDisc = s.callDisc
  BY HandlersKeepLife, HandlersKeepOpen
<1>1. Same(obj[o], SendingCommand(s, k))
  BY <1>0 DEF Same, SameLife
<1> QED BY <1>1, ServesNothing, ServesFail DEF SendCmdWaitReply

\* What the processors find when they are called.
LEMMA Called ==
  ASSUME SInv, NEW o \in Obj, CallR(o) \/ CallW(o)
  PROVE  /\ ~obj[o].cancelled /\ obj[o] \in Struct /\ Same(obj[o], obj[o])
         /\ obj[o].procR = "replyReader" => ~obj[o].callDisc
         /\ obj[o].procR = "dataReader" \/ obj[o].procW = "dataWriter" => obj[o].callDisc
<1>1. obj[o] \in SoundStruct /\ ~obj[o].cancelled
  BY DEF SInv, TInv, CallR, CallW, IsActive
<1> QED BY <1>1 DEF Same, SameLife, SoundStruct, IsIdle, IsConnecting, IsSending, IsAwaiting, IsStreaming

\* aioSesConnected, aioConnConnected; aioSesCmdSender, aioConnCmdSender.
LEMMA ServesWriters ==
  ASSUME NEW o \in Obj, obj[o] \in Struct, ~obj[o].cancelled, Connected(o) \/ CmdSender(o)
  PROVE  Served(o)
<1>1. Same(obj[o], obj[o])
  BY DEF Same, SameLife
<1>2. Same(obj[o], AwaitingLine(obj[o], obj[o].check))
  <2>1. PICK s \in Struct : s = obj[o]
    OBVIOUS
  <2>0. PICK k : k = obj[o].check
    OBVIOUS
  <2>2. SameLife(s, AwaitingLine(s, k)) /\ AwaitingLine(s, k).callDisc = s.callDisc
    BY HandlersKeepLife, HandlersKeepOpen
  <2> QED BY <2>0, <2>1, <2>2 DEF Same
<1>3. CASE Connected(o)
  BY <1>1, <1>3, ServesSend, ServesFail DEF Connected
<1>4. CASE CmdSender(o)
  BY <1>1, <1>2, <1>4, ServesNothing, ServesFail DEF CmdSender
<1> QED BY <1>3, <1>4

\* A reply reader that has no whole line yet.
LEMMA ServesNoLine ==
  ASSUME NEW o \in Obj, obj[o] \in Struct, ~obj[o].cancelled, NoLine(o)
  PROVE  Served(o)
<1>1. Same(obj[o], obj[o])
  BY DEF Same, SameLife
<1>2. Same(obj[o], Buffer(obj[o], "partial"))
  BY HandlersKeepLife, HandlersKeepOpen DEF Same, Buffers
<1> QED BY <1>1, <1>2, ServesNothing, ServesFail DEF NoLine

\* The struct a checker gets, and what it may make of it.
LEMMA CheckedOpen ==
  ASSUME NEW o \in Obj, obj[o] \in Struct, NEW s, s = Buffer(obj[o], "full")
  PROVE  /\ s \in Struct /\ Same(obj[o], s) /\ Idle(s) \in Struct /\ Same(obj[o], Idle(s))
         /\ \A k : Same(obj[o], AwaitingLine(s, k))
         /\ SameLife(obj[o], Created(s)) /\ Created(s).callDisc
         /\ SameLife(obj[o], Streaming(s)) /\ Streaming(s).callDisc
<1>1. s \in Struct /\ Same(obj[o], s)
  BY HandlersKeepLife, HandlersKeepOpen DEF Same, Buffers
<1>2. \A t : SameLife(s, t) => SameLife(obj[o], t)
  BY <1>1 DEF Same, SameLife
<1>3. \A t : Same(s, t) => Same(obj[o], t)
  BY <1>1 DEF Same, SameLife
<1>4. Idle(s) \in Struct /\ Same(s, Idle(s)) /\ \A k : Same(s, AwaitingLine(s, k))
  BY <1>1, HandlersKeepLife, HandlersKeepOpen DEF Same
<1>5. /\ SameLife(s, Created(s)) /\ Created(s).callDisc
      /\ SameLife(s, Streaming(s)) /\ Streaming(s).callDisc
  BY <1>1, HandlersKeepLife, HandlersKeepOpen
<1> QED BY <1>1, <1>2, <1>3, <1>4, <1>5

\* The one answer of a key generation or a name lookup.
LEMMA ServesAnswer ==
  ASSUME NEW s, Same(obj[Ses], s), ~obj[Ses].cancelled, ~obj[Ses].callDisc,
         Run(Ses, s, <<F("cbAnswer", Ses), F("sesDisconnect", Ses)>>)
  PROVE  Served(Ses)
<1>1. PICK p \in Callbacks \ {"cbDisconnected", "cbDestroy"} : p = "cbAnswer"
  BY DEF Callbacks
<1>2. PICK q \in {"readLoop", "ready", "sesDisconnect", "connDisconnect"} : q = "sesDisconnect"
  OBVIOUS
<1>3. Ses \in Obj
  BY DEF Obj
<1>4. Run(Ses, s, <<F(p, Ses), F(q, Ses)>>)
  BY <1>1, <1>2
<1>5. s.callDisc <=> obj[Ses].callDisc \/ p \in {"cbCreated", "cbConnected", "cbAccepted"}
  BY <1>1 DEF Same
<1> QED BY <1>1, <1>2, <1>3, <1>4, <1>5, ServesTwo DEF Same

\* aioSesCmdReplyReader and the checkers of a session.
LEMMA ServesSesReader ==
  ASSUME obj[Ses] \in Struct, ~obj[Ses].cancelled, ~obj[Ses].callDisc, aioSesCmdReplyReader
  PROVE  Served(Ses)
<1>0. Ses \in Obj
  BY DEF Obj
<1>1. CASE NoLine(Ses)
  BY <1>0, <1>1, ServesNoLine
<1>2. CASE ~NoLine(Ses)
  <2>1. PICK s : s = Buffer(obj[Ses], "full")
    OBVIOUS
  <2>2. PICK r : r = Line(Ses)
    OBVIOUS
  <2>3. \/ aioSesHelloChecker(s, r) \/ aioSesCreateChecker(s, r) \/ aioSesNameMeChecker(s, r)
        \/ aioSesKeyGenChecker(s, r) \/ aioSesNameResChecker(s, r)
    BY <1>2, <2>1, <2>2 DEF aioSesCmdReplyReader
  <2>4. /\ s \in Struct /\ Same(obj[Ses], s) /\ Idle(s) \in Struct /\ Same(obj[Ses], Idle(s))
        /\ SameLife(obj[Ses], Created(s)) /\ Created(s).callDisc
    BY <1>0, <2>1, CheckedOpen
  <2>5. CASE Fail(Ses, s)
    BY <1>0, <2>4, <2>5, ServesFail
  <2>6. ASSUME NEW k, SendCmdWaitReply(Ses, s, k) \/ SendCmdWaitReply(Ses, Idle(s), k)
        PROVE  Served(Ses)
    BY <1>0, <2>4, <2>6, ServesSend
  <2>7. CASE aioSesHelloChecker(s, r)
    BY <2>5, <2>6, <2>7 DEF aioSesHelloChecker, aioSesHandshacked, aioSesKeyGenHandshacked,
                            aioSesNameResHandshacked, aioSesSendCmdWaitReply
  <2>8. CASE aioSesCreateChecker(s, r)
    BY <2>5, <2>6, <2>8 DEF aioSesCreateChecker, aioSesSendCmdWaitReply
  <2>9. CASE aioSesNameMeChecker(s, r)
    <3>1. CASE Run(Ses, Created(s), <<F("cbCreated", Ses)>>)
      <4>1. PICK p \in Pcs \ {"cascade", "cbDisconnected", "cbDestroy"} : p = "cbCreated"
        BY DEF Pcs, Callbacks
      <4>2. PICK t : t = Created(s)
        OBVIOUS
      <4>3. Run(Ses, t, <<F(p, Ses)>>)
        BY <3>1, <4>1, <4>2
      <4> QED BY <1>0, <2>4, <4>1, <4>2, <4>3, ServesOne
    <3> QED BY <2>5, <2>9, <3>1 DEF aioSesNameMeChecker
  <2>10. CASE aioSesKeyGenChecker(s, r)
    BY <2>4, <2>5, <2>10, ServesAnswer DEF aioSesKeyGenChecker
  <2>11. CASE aioSesNameResChecker(s, r)
    <3>1. CASE Run(Ses, s, <<>>)
      BY <1>0, <2>4, <3>1, ServesNothing
    <3>2. CASE Run(Ses, s, <<F("crashed", Ses)>>)
      <4>1. PICK p \in Pcs \ {"cascade", "cbDisconnected", "cbDestroy"} :
              p = "crashed" /\ p \notin Callbacks
        BY DEF Pcs, Callbacks
      <4>2. Run(Ses, s, <<F(p, Ses)>>)
        BY <3>2, <4>1
      <4> QED BY <1>0, <2>4, <4>1, <4>2, ServesOne DEF Same
    <3>3. CASE Run(Ses, s, <<F("cbAnswer", Ses), F("sesDisconnect", Ses)>>)
      BY <2>4, <3>3, ServesAnswer
    <3> QED BY <2>5, <2>11, <3>1, <3>2, <3>3 DEF aioSesNameResChecker
  <2> QED BY <2>3, <2>7, <2>8, <2>9, <2>10, <2>11
<1> QED BY <1>1, <1>2

\* aioConnCmdReplyReader and the checkers of a connection.
LEMMA ServesConnReader ==
  ASSUME NEW c \in Conns, obj[c] \in Struct, ~obj[c].cancelled, ~obj[c].callDisc,
         aioConnCmdReplyReader(c)
  PROVE  Served(c)
<1>0. c \in Obj
  BY DEF Obj
<1>1. CASE NoLine(c)
  BY <1>0, <1>1, ServesNoLine
<1>2. CASE ~NoLine(c)
  <2>1. PICK s : s = Buffer(obj[c], "full")
    OBVIOUS
  <2>2. PICK r : r = Line(c)
    OBVIOUS
  <2>3. \/ aioConnHelloChecker(c, s, r) \/ aioConnConnectChecker(c, s, r)
        \/ aioConnAcceptChecker(c, s, r) \/ aioConnAcceptCheckerA(c, s, r)
    BY <1>2, <2>1, <2>2 DEF aioConnCmdReplyReader
  <2>4. /\ s \in Struct /\ Same(obj[c], s) /\ Idle(s) \in Struct /\ Same(obj[c], Idle(s))
        /\ SameLife(obj[c], Streaming(s)) /\ Streaming(s).callDisc
        /\ \A k : Same(obj[c], AwaitingLine(s, k))
    BY <1>0, <2>1, CheckedOpen
  <2>5. CASE Fail(c, s)
    BY <1>0, <2>4, <2>5, ServesFail
  <2>6. ASSUME NEW k, SendCmdWaitReply(c, Idle(s), k)
        PROVE  Served(c)
    BY <1>0, <2>4, <2>6, ServesSend
  <2>7. CASE aioConnHelloChecker(c, s, r)
    BY <2>5, <2>6, <2>7 DEF aioConnHelloChecker, aioConConnectHandshacked,
                            aioConAcceptHandshacked, aioConnSendCmdWaitReply
  <2>8. CASE \E p \in {"cbConnected", "cbAccepted"} : Run(c, Streaming(s), <<F(p, c), F("ready", c)>>)
    <3>0. PICK t : t = Streaming(s)
      OBVIOUS
    <3>1. PICK p \in Callbacks \ {"cbDisconnected", "cbDestroy"} :
            /\ p \in {"cbConnected", "cbAccepted"}
            /\ Run(c, t, <<F(p, c), F("ready", c)>>)
      BY <2>8, <3>0 DEF Callbacks
    <3>2. PICK q \in {"readLoop", "ready", "sesDisconnect", "connDisconnect"} : q = "ready"
      OBVIOUS
    <3>3. Run(c, t, <<F(p, c), F(q, c)>>)
      BY <3>1, <3>2
    <3>4. SameLife(obj[c], t) /\ t.callDisc
      BY <2>4, <3>0
    <3> QED BY <1>0, <3>1, <3>2, <3>3, <3>4, ServesTwo
  <2>9. CASE \E k : Run(c, AwaitingLine(s, k), <<>>)
    BY <1>0, <2>4, <2>9, ServesNothing
  <2> QED BY <2>3, <2>5, <2>7, <2>8, <2>9
          DEF aioConnConnectChecker, aioConnAcceptChecker, aioConnAcceptCheckerA
<1> QED BY <1>1, <1>2

-----------------------------------------------------------------------------
(* Streams, and the processors.                                            *)

\* A function that leaves the struct alone and calls another, or a callback.
LEMMA ServesCalls ==
  ASSUME NEW o \in Obj,
         NEW p \in {"readLoop", "cbSent", "connDisconnect"}, Run(o, obj[o], <<F(p, o)>>),
         p \in {"readLoop", "cbSent"} => obj[o].callDisc,
         p = "cbSent" => ~obj[o].cancelled
  PROVE  Served(o)
<1>1. PICK s : s = obj[o] /\ SameLife(obj[o], s)
  BY DEF SameLife
<1>2. p \in Pcs \ {"cascade", "cbDisconnected", "cbDestroy"}
  BY DEF Pcs, Callbacks
<1>3. Run(o, s, <<F(p, o)>>)
  BY <1>1
<1>4. p \in Callbacks => p = "cbSent"
  BY DEF Callbacks
<1> QED BY <1>1, <1>2, <1>3, <1>4, ServesOne

\* The round of a stream that was readable.
LEMMA ServesDataReader ==
  ASSUME NEW c \in Conns, obj[c] \in Struct, obj[c].callDisc, aioConnDataReader(c)
  PROVE  Served(c)
<1>1. c \in Obj /\ Same(obj[c], obj[c]) /\ SameLife(obj[c], obj[c])
  BY DEF Obj, Same, SameLife
<1>2. CASE Run(c, obj[c], <<>>)
  BY <1>1, <1>2, ServesNothing
<1>3. CASE IsActive(obj[c]) /\ Run(c, obj[c], <<F("cbRead", c), F("readLoop", c)>>)
  <2>1. PICK s : s = obj[c]
    OBVIOUS
  <2>2. PICK p \in Callbacks \ {"cbDisconnected", "cbDestroy"} : p = "cbRead"
    BY DEF Callbacks
  <2>3. PICK q \in {"readLoop", "ready", "sesDisconnect", "connDisconnect"} : q = "readLoop"
    OBVIOUS
  <2>4. Run(c, s, <<F(p, c), F(q, c)>>)
    BY <1>3, <2>1, <2>2, <2>3
  <2>5. ~obj[c].cancelled
    BY <1>3 DEF IsActive
  <2> QED BY <1>1, <2>1, <2>2, <2>3, <2>4, <2>5, ServesTwo
<1>4. CASE Run(c, obj[c], <<F("connDisconnect", c)>>)
  BY <1>1, <1>4, ServesCalls
<1>5. CASE IsActive(obj[c]) /\ Fail(c, obj[c])
  BY <1>1, <1>5, ServesFail DEF IsActive
<1> QED BY <1>2, <1>3, <1>4, <1>5 DEF aioConnDataReader

\* The write processor of a stream.
LEMMA ServesDataWriter ==
  ASSUME NEW c \in Conns, obj[c] \in Struct, obj[c].callDisc, ~obj[c].cancelled,
         aioConnDataWriter(c)
  PROVE  Served(c)
<1>1. c \in Obj /\ Same(obj[c], obj[c])
  BY DEF Obj, Same, SameLife
<1>2. \A n : Same(obj[c], Queue(obj[c], n))
  BY HandlersKeepLife, HandlersKeepOpen DEF Same
<1>3. CASE Run(c, obj[c], <<>>)
  BY <1>1, <1>3, ServesNothing
<1>4. ASSUME NEW n, Run(c, Queue(obj[c], n), <<>>) PROVE Served(c)
  BY <1>1, <1>2, <1>4, ServesNothing
<1>5. CASE Run(c, Queue(obj[c], 0), <<F("cbSent", c)>>)
  <2>1. PICK s : s = Queue(obj[c], 0)
    OBVIOUS
  <2>2. PICK p \in Pcs \ {"cascade", "cbDisconnected", "cbDestroy"} : p = "cbSent"
    BY DEF Pcs, Callbacks
  <2>3. Run(c, s, <<F(p, c)>>)
    BY <1>5, <2>1, <2>2
  <2>4. SameLife(obj[c], s) /\ s.callDisc
    BY <1>2, <2>1 DEF Same
  <2> QED BY <1>1, <2>2, <2>3, <2>4, ServesOne
<1>6. CASE Fail(c, obj[c])
  BY <1>1, <1>6, ServesFail
<1> QED BY <1>3, <1>4, <1>5, <1>6 DEF aioConnDataWriter

\* The processors of a round of sam3aProcessSessionIO, and what is left to do
\* of a stream when a callback has returned.
LEMMA ProcessorsProper ==
  ASSUME SInv, LInv,
         \/ ReadSession \/ WriteSession
         \/ \E c \in Conns : ReadConn(c) \/ WriteConn(c) \/ aioConnDataReader(c) \/ ready(c)
  PROVE  \E fs, r : Proper(fs, r)
<1>0. Ses \in Obj /\ Conns \subseteq Obj
  BY DEF Obj
<1>1. ASSUME NEW o \in Obj, Skip(o) PROVE Served(o)
  <2>1. Same(obj[o], obj[o])
    BY DEF Same, SameLife
  <2> QED BY <1>1, <2>1, ServesNothing DEF Skip
<1>2. ASSUME NEW o \in Obj, Served(o),
             At("readIO", o) \/ At("writeIO", o) \/ At("readLoop", o) \/ At("ready", o)
      PROVE  \E fs, r : Proper(fs, r)
  <2>1. stack # <<>> /\ Head(stack).o = o /\ Head(stack).pc \in Service
    BY <1>2 DEF At, F, Service
  <2> QED BY <1>2, <2>1, ServedProper
<1>3. CASE ReadSession
  <2>1. CASE CallR(Ses) /\ obj[Ses].procR = "replyReader" /\ aioSesCmdReplyReader
    <3>1. Served(Ses)
      BY <1>0, <2>1, Called, ServesSesReader
    <3> QED BY <1>0, <1>2, <1>3, <3>1 DEF ReadSession
  <2> QED BY <1>0, <1>1, <1>2, <1>3, <2>1 DEF ReadSession
<1>4. CASE WriteSession
  <2>1. CASE CallW(Ses) /\ (aioSesConnected \/ aioSesCmdSender)
    <3>1. Served(Ses)
      BY <1>0, <2>1, Called, ServesWriters DEF aioSesConnected, aioSesCmdSender
    <3> QED BY <1>0, <1>2, <1>4, <3>1 DEF WriteSession
  <2> QED BY <1>0, <1>1, <1>2, <1>4, <2>1 DEF WriteSession
<1>5. ASSUME NEW c \in Conns, ReadConn(c) PROVE \E fs, r : Proper(fs, r)
  <2>1. CASE CallR(c) /\ obj[c].procR = "replyReader" /\ aioConnCmdReplyReader(c)
    <3>1. Served(c)
      BY <1>0, <2>1, Called, ServesConnReader
    <3> QED BY <1>0, <1>2, <1>5, <3>1 DEF ReadConn
  <2>2. CASE CallR(c) /\ obj[c].procR = "dataReader" /\ Run(c, obj[c], <<F("readLoop", c)>>)
    <3>1. obj[c].callDisc
      BY <1>0, <2>2, Called
    <3>2. Served(c)
      BY <1>0, <2>2, <3>1, ServesCalls
    <3> QED BY <1>0, <1>2, <1>5, <3>2 DEF ReadConn
  <2> QED BY <1>0, <1>1, <1>2, <1>5, <2>1, <2>2 DEF ReadConn
<1>6. ASSUME NEW c \in Conns, WriteConn(c) PROVE \E fs, r : Proper(fs, r)
  <2>1. CASE CallW(c) /\ (aioConnConnected(c) \/ aioConnCmdSender(c))
    <3>1. Served(c)
      BY <1>0, <2>1, Called, ServesWriters DEF aioConnConnected, aioConnCmdSender
    <3> QED BY <1>0, <1>2, <1>6, <3>1 DEF WriteConn
  <2>2. CASE CallW(c) /\ obj[c].procW = "dataWriter" /\ aioConnDataWriter(c)
    <3>1. obj[c].callDisc /\ ~obj[c].cancelled /\ obj[c] \in Struct
      BY <1>0, <2>2, Called
    <3>2. Served(c)
      BY <1>0, <2>2, <3>1, ServesDataWriter
    <3> QED BY <1>0, <1>2, <1>6, <3>2 DEF WriteConn
  <2> QED BY <1>0, <1>1, <1>2, <1>6, <2>1, <2>2 DEF WriteConn
<1>7. ASSUME NEW c \in Conns, aioConnDataReader(c) \/ ready(c) PROVE \E fs, r : Proper(fs, r)
  <2>1. stack # <<>> /\ Head(stack).o = c /\ Head(stack).pc \in {"readLoop", "ready"}
    BY <1>7 DEF aioConnDataReader, ready, At, F
  <2>2. obj[c] \in Struct /\ stack[1].o = c /\ stack[1].pc \in {"readLoop", "ready"} /\ 1 \in 1..Len(stack)
    BY <1>0, <2>1, Runner
  <2>3. obj[c].callDisc
    BY <2>2 DEF LInv, Opened
  <2>4. CASE aioConnDataReader(c)
    <3>1. Served(c)
      BY <2>2, <2>3, <2>4, ServesDataReader
    <3> QED BY <1>0, <1>2, <2>4, <3>1 DEF aioConnDataReader
  <2>5. CASE ready(c)
    <3>1. Served(c)
      <4>1. CASE IsActive(obj[c]) /\ Run(c, obj[c], <<F("cbSent", c)>>)
        BY <1>0, <2>3, <4>1, ServesCalls DEF IsActive
      <4>2. CASE Run(c, obj[c], <<>>)
        <5>1. Same(obj[c], obj[c])
          BY DEF Same, SameLife
        <5> QED BY <1>0, <4>2, <5>1, ServesNothing
      <4> QED BY <2>5, <4>1, <4>2 DEF ready
    <3> QED BY <1>0, <1>2, <2>5, <3>1 DEF ready
  <2> QED BY <1>7, <2>4, <2>5
<1> QED BY <1>3, <1>4, <1>5, <1>6, <1>7

-----------------------------------------------------------------------------
(* Disconnecting.                                                          *)

\* Returning from a frame changes the stack.
LEMMA TailDiffers ==
  ASSUME NEW st \in Seq(Frame), st # <<>>
  PROVE  Tail(st) # st
<1>1. PICK t : t = Tail(st)
  OBVIOUS
<1>2. Len(st) \in Nat /\ Len(t) = Len(st) - 1
  BY <1>1, Popped
<1>3. Len(t) # Len(st)
  BY <1>2
<1> QED BY <1>1, <1>3

\* The lives of the structs are what they were; new ones begin theirs.
LivesKept == \A o \in Obj : obj'[o].mem = "live" =>
  /\ obj[o].mem \in {"none", "live"} /\ (obj[o].mem = "none" => ~obj'[o].cancelled)
  /\ obj'[o].cancelled = obj[o].cancelled /\ obj'[o].callDisc = obj[o].callDisc

\* A step that tells nothing and ends nothing.
LEMMA SilentProper ==
  ASSUME SInv, NEW fs, NEW r, Steps(fs, r), LivesKept,
         fs # <<>> => fs[1].pc \notin Callbacks,
         Undisturbed(fs),
         (\E i \in 1..Len(fs) : fs[i].pc \in Service) => \A j \in 1..Len(r) : r[j].pc \in Service,
         \A i \in 1..Len(fs) : fs[i].pc \notin {"cascade", "readLoop", "ready"},
         \/ r = stack
         \/ stack[1].pc # "cascade" /\ \A o \in Obj : obj'[o].mem = "live" => stack[1] # Freeing(o)
  PROVE  Proper(fs, r)
<1>1. \A o \in Obj : \A e : ~Tells(o, e, fs)
  <2>1. fs # <<>> => Head(fs) = fs[1]
    BY Popped DEF Steps
  <2> QED BY <2>1 DEF Tells
<1>2. Opened(obj', fs)
  BY DEF Opened
<1>3. Looping(fs, r)
  BY DEF Looping
<1>4. ~HasCascade(fs)
  BY DEF HasCascade
<1>5. \A o \in Obj : obj'[o].mem = "live" => Keeping(o, fs, r)
  BY <1>1, <1>4 DEF Keeping, LivesKept
<1> QED BY <1>1, <1>2, <1>3, <1>5 DEF Proper

\* ... and leaves nothing to do that serves a descriptor.
LEMMA PlainProper ==
  ASSUME SInv, NEW fs, NEW r, Steps(fs, r), LivesKept,
         fs # <<>> => fs[1].pc \notin Callbacks,
         \A i \in 1..Len(fs) : fs[i].pc \notin Service \cup {"cascade"},
         \/ r = stack
         \/ stack[1].pc # "cascade" /\ \A o \in Obj : obj'[o].mem = "live" => stack[1] # Freeing(o)
  PROVE  Proper(fs, r)
<1>1. Undisturbed(fs)
  BY DEF Undisturbed
<1>2. \A i \in 1..Len(fs) : fs[i].pc \notin Service /\ fs[i].pc \notin {"cascade", "readLoop", "ready"}
  BY DEF Service
<1> QED BY <1>1, <1>2, SilentProper

\* The disconnect functions leave callDisconnectCB alone.
LEMMA DisconnectKeepsOpen ==
  ASSUME NEW s \in Struct
  PROVE  Quiet(s).callDisc = s.callDisc /\ Cancelled(Quiet(s)).callDisc = s.callDisc
<1> USE DEF Struct
<1>1. Quiet(s) = [s EXCEPT !["procR"] = "null", !["procW"] = "null", !["aio"] = "null",
                           !["check"] = "null", !["out"] = 0]
  BY Zenon DEF Quiet
<1> DEFINE q == Quiet(s)
<1>2. q.callDisc = s.callDisc
      /\ DOMAIN q = {"mem", "kind", "fd", "cancelled", "procR", "procW", "check", "callDisc", "aio", "out"}
  BY <1>1
<1> HIDE DEF q
<1>3. Cancelled(q) = [q EXCEPT !["cancelled"] = TRUE]
  BY Zenon DEF Cancelled
<1>4. Cancelled(q).callDisc = q.callDisc
  BY <1>2, <1>3
<1> QED BY <1>2, <1>4 DEF q

\* connDisconnect cancels an active connection, and tells it so if it was told
\* that it is open.
LEMMA ConnDisconnectProper ==
  ASSUME SInv, NEW c \in Conns, connDisconnect(c)
  PROVE  \E fs, r : Proper(fs, r)
<1>0. c \in Obj /\ c # Ses /\ TypeOK /\ stack \in Seq(Frame)
  BY ConstantsAssumption DEF Obj, SInv, TInv, TypeOK
<1>1. stack # <<>> /\ Head(stack).o = c /\ Head(stack) = Disc(c)
  BY <1>0 DEF connDisconnect, At, F, Disc
<1>2. obj[c].mem = "live" /\ obj[c].fd = "own" /\ obj[c] \in Struct /\ Head(stack) = stack[1]
  BY <1>0, <1>1, Runner
<1>3. stack[1] = Disc(c) /\ stack[1].pc = "connDisconnect" /\ \A o : stack[1] # Freeing(o)
  BY <1>0, <1>1, <1>2 DEF Disc, Freeing, F
<1>4. Tail(stack) # stack
  BY <1>0, <1>1, TailDiffers
<1>5. CASE ~IsActive(obj[c])
  <2>1. PICK s : s = Quiet(obj[c])
    OBVIOUS
  <2>2. SameLife(obj[c], s) /\ s.callDisc = obj[c].callDisc
    BY <1>2, <2>1, DisconnectLife, DisconnectKeepsOpen
  <2>3. Run(c, s, <<>>)
    BY <1>5, <2>1 DEF connDisconnect
  <2>4. /\ Steps(<<>>, Tail(stack)) /\ obj'[c] = s
        /\ \A x \in Obj : x # c => obj'[x] = obj[x]
    BY <1>0, <1>1, <2>3, RunSteps, NothingPushed
  <2>5. LivesKept
    <3>1. \A x \in Obj : obj[x].mem \in {"none", "live", "closed"}
                         /\ (obj[x].mem = "none" => obj[x] = Unused)
      BY <1>0 DEF SInv, Structs, TypeOK, Struct
    <3> QED BY <1>2, <2>2, <2>4, <3>1, ZeroedIs DEF SameLife, LivesKept
  <2> QED BY <1>3, <2>4, <2>5, NoFrames, PlainProper
<1>6. CASE IsActive(obj[c])
  <2>1. PICK s : s = Cancelled(Quiet(obj[c]))
    OBVIOUS
  <2>2. s.mem = "live" /\ s.cancelled /\ s.callDisc = obj[c].callDisc
    BY <1>2, <2>1, DisconnectLife, DisconnectKeepsOpen
  <2>3. PICK fs : /\ fs = (IF obj[c].callDisc THEN <<F("cbDisconnected", c)>> ELSE <<>>)
                  /\ Run(c, s, fs)
    BY <1>6, <2>1 DEF connDisconnect
  <2>4. /\ fs \in Seq(Frame)
        /\ obj[c].callDisc => fs # <<>> /\ Len(fs) = 1 /\ fs[1] = F("cbDisconnected", c)
                              /\ Head(fs) = F("cbDisconnected", c)
        /\ ~obj[c].callDisc => fs = <<>>
    <3>1. PICK f \in Frame : f = F("cbDisconnected", c)
      BY <1>0 DEF F, Frame, Pcs, Callbacks
    <3>2. CASE obj[c].callDisc
      <4>1. fs = <<f>>
        BY <2>3, <3>1, <3>2
      <4> QED BY <3>1, <3>2, <4>1
    <3>3. CASE ~obj[c].callDisc
      <4>1. fs = <<>>
        BY <2>3, <3>3
      <4> QED BY <3>3, <4>1
    <3> QED BY <3>2, <3>3
  <2>5. \A i \in 1..Len(fs) : fs[i] = F("cbDisconnected", c)
    BY <2>4, NoFrames
  <2>6. /\ Steps(fs, Tail(stack)) /\ obj'[c] = s
        /\ \A x \in Obj : x # c => obj'[x] = obj[x]
    BY <1>0, <1>1, <2>3, <2>4, RunSteps
  <2>7. "cbDisconnected" \in Callbacks /\ Event["cbDisconnected"] = "disconnected"
    BY DEF Callbacks, Event
  <2>8. \A x \in Obj : \A e : Tells(x, e, fs) <=> obj[c].callDisc /\ x = c /\ e = "disconnected"
    BY <2>4, <2>7 DEF Tells, F
  <2>9. ~obj[c].cancelled
    BY <1>6 DEF IsActive
  <2>10. \A x \in Obj, e \in Events : Tells(x, e, fs) => MayTell(x, e)
    BY <1>0, <1>1, <1>2, <1>3, <2>2, <2>6, <2>8, <2>9 DEF MayTell
  <2>11. \A i \in 1..Len(fs) : fs[i].pc = "cbDisconnected"
    BY <2>5 DEF F
  <2>12. Undisturbed(fs) /\ Opened(obj', fs) /\ \A i \in 1..Len(fs) : fs[i].pc \notin Service
    BY <2>11 DEF Undisturbed, Opened, Service
  <2>13. ~HasCascade(fs) /\ Looping(fs, Tail(stack))
    BY <1>3, <2>11 DEF HasCascade, Looping
  <2>14. ASSUME NEW x \in Obj, obj'[x].mem = "live" PROVE Keeping(x, fs, Tail(stack))
    <3>1. CASE x = c
      BY <1>0, <1>2, <1>3, <2>2, <2>6, <2>8, <3>1 DEF Keeping
    <3>2. CASE x # c
      BY <1>3, <2>6, <2>8, <2>14, <3>2 DEF Keeping
    <3> QED BY <3>1, <3>2
  <2> QED BY <2>6, <2>10, <2>12, <2>13, <2>14 DEF Proper
<1> QED BY <1>5, <1>6

\* sesDisconnect cancels an active session, and enters its loop.
LEMMA SesDisconnectProper ==
  ASSUME SInv, sesDisconnect
  PROVE  \E fs, r : Proper(fs, r)
<1>0. Ses \in Obj /\ TypeOK /\ stack \in Seq(Frame)
  BY DEF Obj, SInv, TInv, TypeOK
<1>1. stack # <<>> /\ Head(stack).o = Ses /\ Head(stack) = Disc(Ses)
  BY <1>0 DEF sesDisconnect, At, F, Disc
<1>2. obj[Ses].mem = "live" /\ obj[Ses].fd = "own" /\ obj[Ses] \in Struct /\ Head(stack) = stack[1]
  BY <1>0, <1>1, Runner
<1>3. stack[1] = Disc(Ses) /\ stack[1].pc = "sesDisconnect" /\ \A o : stack[1] # Freeing(o)
  BY <1>0, <1>1, <1>2 DEF Disc, Freeing, F
<1>4. Tail(stack) # stack
  BY <1>0, <1>1, TailDiffers
<1>5. CASE ~IsActive(obj[Ses])
  <2>1. PICK s : s = Quiet(obj[Ses])
    OBVIOUS
  <2>2. SameLife(obj[Ses], s) /\ s.callDisc = obj[Ses].callDisc
    BY <1>2, <2>1, DisconnectLife, DisconnectKeepsOpen
  <2>3. Run(Ses, s, <<>>)
    BY <1>5, <2>1 DEF sesDisconnect
  <2>4. /\ Steps(<<>>, Tail(stack)) /\ obj'[Ses] = s
        /\ \A x \in Obj : x # Ses => obj'[x] = obj[x]
    BY <1>0, <1>1, <2>3, RunSteps, NothingPushed
  <2>5. LivesKept
    <3>1. \A x \in Obj : obj[x].mem \in {"none", "live", "closed"}
                         /\ (obj[x].mem = "none" => obj[x] = Unused)
      BY <1>0 DEF SInv, Structs, TypeOK, Struct
    <3> QED BY <1>2, <2>2, <2>4, <3>1, ZeroedIs DEF SameLife, LivesKept
  <2> QED BY <1>3, <2>4, <2>5, NoFrames, PlainProper
<1>6. CASE IsActive(obj[Ses])
  <2>1. PICK s : s = Cancelled(Quiet(obj[Ses]))
    OBVIOUS
  <2>2. s.mem = "live" /\ s.cancelled /\ s.callDisc = obj[Ses].callDisc
    BY <1>2, <2>1, DisconnectLife, DisconnectKeepsOpen
  <2>3. PICK fs : fs = <<F("cascade", Ses)>> /\ Run(Ses, s, fs)
    BY <1>6, <2>1 DEF sesDisconnect
  <2>4. fs \in Seq(Frame) /\ Len(fs) = 1 /\ fs[1].pc = "cascade" /\ Head(fs).pc = "cascade"
    BY <1>0, <2>3 DEF F, Frame, Pcs
  <2>5. /\ Steps(fs, Tail(stack)) /\ obj'[Ses] = s
        /\ \A x \in Obj : x # Ses => obj'[x] = obj[x]
    BY <1>0, <1>1, <2>3, <2>4, RunSteps
  <2>6. \A x \in Obj : \A e : ~Tells(x, e, fs)
    BY <2>4 DEF Tells, Callbacks
  <2>7. Undisturbed(fs) /\ Opened(obj', fs) /\ \A i \in 1..Len(fs) : fs[i].pc \notin Service
    BY <2>4 DEF Undisturbed, Opened, Service
  <2>8. HasCascade(fs)
    BY <2>4 DEF HasCascade
  <2>9. ~obj[Ses].cancelled
    BY <1>6 DEF IsActive
  <2>10. Looping(fs, Tail(stack))
    BY <1>1, <1>3, <1>4, <2>4, <2>9 DEF Looping
  <2>11. ASSUME NEW x \in Obj, obj'[x].mem = "live" PROVE Keeping(x, fs, Tail(stack))
    <3>1. CASE x = Ses
      BY <1>2, <1>3, <2>2, <2>5, <2>6, <2>8, <3>1 DEF Keeping
    <3>2. CASE x # Ses
      <4>1. obj'[x] = obj[x]
        BY <2>5, <3>2
      <4> QED BY <1>3, <2>6, <2>11, <3>2, <4>1 DEF Keeping
    <3> QED BY <3>1, <3>2
  <2> QED BY <2>5, <2>6, <2>7, <2>10, <2>11 DEF Proper
<1> QED BY <1>5, <1>6

-----------------------------------------------------------------------------
(* Closing and freeing.                                                    *)

\* A frame is what it was made of.
LEMMA AFrame ==
  ASSUME NEW o \in Obj, NEW p \in Pcs
  PROVE  F(p, o) \in Frame /\ F(p, o).pc = p /\ F(p, o).o = o
BY DEF F, Frame

\* Two frames of o, of which the first tells it something.
LEMMA TwoFrames ==
  ASSUME NEW o \in Obj, NEW x \in Obj, NEW p \in Pcs, NEW q \in Pcs,
         NEW fs, fs = <<F(p, o), F(q, x)>>
  PROVE  /\ fs \in Seq(Frame) /\ fs # <<>> /\ Len(fs) = 2 /\ Head(fs) = F(p, o)
         /\ fs[1] = F(p, o) /\ fs[2] = F(q, x)
         /\ fs[1].pc = p /\ fs[1].o = o /\ fs[2].pc = q /\ fs[2].o = x
         /\ \A i \in 1..Len(fs) : fs[i].pc = p \/ fs[i].pc = q
<1>1. PICK f \in Frame, g \in Frame : f = F(p, o) /\ g = F(q, x)
  BY DEF F, Frame
<1>2. fs = <<f, g>>
  BY <1>1
<1>3. /\ fs \in Seq(Frame) /\ fs # <<>> /\ Len(fs) = 2 /\ Head(fs) = f
      /\ fs[1] = f /\ fs[2] = g /\ \A i \in 1..Len(fs) : i = 1 \/ i = 2
  BY <1>2
<1> QED BY <1>1, <1>3 DEF F

\* The loop of sesDisconnect goes on, or the session is told that it is
\* disconnected if it was told that it is open.
LEMMA CascadeProper ==
  ASSUME SInv, NEW o \in Obj, sesDisconnectLoop(o)
  PROVE  \E fs, r : Proper(fs, r)
<1>0. Ses \in Obj /\ TypeOK /\ Structs /\ stack \in Seq(Frame) /\ connlist \in Seq(Conns)
  BY DEF Obj, SInv, TInv, TypeOK
<1>1. stack # <<>> /\ Head(stack).o = o /\ Head(stack).pc = "cascade"
  BY DEF sesDisconnectLoop, At, F
<1>2. 1 \in 1..Len(stack) /\ Head(stack) = stack[1] /\ stack[1].pc = "cascade"
      /\ \A x : stack[1] # Freeing(x)
  BY <1>0, <1>1, Runner DEF Freeing, F
<1>3. Tail(stack) # stack
  BY <1>0, <1>1, TailDiffers
<1>4. obj[Ses].cancelled /\ obj[Ses].mem = "live"
  <2>1. obj[Ses].cancelled
    BY <1>2 DEF SInv, Cascading
  <2>2. obj[Ses].mem \in {"none", "live", "closed"}
    BY <1>0 DEF TypeOK, Struct
  <2> QED BY <1>0, <2>1, <2>2, ZeroedIs DEF Structs
<1>5. obj' = obj
  BY <1>0, SameStruct DEF sesDisconnectLoop
<1>6. ASSUME NEW fs \in Seq(Frame), Run(Ses, obj[Ses], fs),
             \A x \in Obj : \A e : Tells(x, e, fs) <=>
               obj[Ses].callDisc /\ ~HasCascade(fs) /\ x = Ses /\ e = "disconnected",
             \A i \in 1..Len(fs) : fs[i].pc \notin Service /\ (fs[i].pc = "cascade" => i = Len(fs))
      PROVE  \E gs, r : Proper(gs, r)
  <2>1. Steps(fs, Tail(stack))
    BY <1>0, <1>1, <1>6, RunSteps
  <2>2. \A x \in Obj, e \in Events : Tells(x, e, fs) => MayTell(x, e)
    BY <1>1, <1>2, <1>4, <1>5, <1>6 DEF MayTell
  <2>3. Undisturbed(fs) /\ Opened(obj', fs)
    BY <1>6 DEF Undisturbed, Opened, Service
  <2>4. Looping(fs, Tail(stack))
    BY <1>0, <1>1, <1>2, <1>3, <1>5, <1>6 DEF Looping
  <2>5. ASSUME NEW x \in Obj, obj'[x].mem = "live" PROVE Keeping(x, fs, Tail(stack))
    BY <1>2, <1>3, <1>5, <1>6, <2>5 DEF Keeping
  <2> QED BY <1>6, <2>1, <2>2, <2>3, <2>4, <2>5 DEF Proper
<1>7. {"connDisconnect", "cascade", "cbDisconnected"} \subseteq Pcs
      /\ "cbDisconnected" \in Callbacks /\ "connDisconnect" \notin Callbacks
      /\ Event["cbDisconnected"] = "disconnected"
      /\ Service \cap {"connDisconnect", "cascade", "cbDisconnected"} = {}
  BY DEF Pcs, Callbacks, Event, Service
<1>8. CASE HasNext(o)
  <2>1. PICK c : c = Successor(o)
    OBVIOUS
  <2>2. PICK fs : fs = <<F("connDisconnect", c), F("cascade", c)>>
    OBVIOUS
  <2>3. Run(Ses, obj[Ses], fs)
    BY <1>8, <2>1, <2>2 DEF sesDisconnectLoop
  <2>4. c \in Obj
    <3>1. Pos(o) + 1 \in 1..Len(connlist)
      BY <1>0, <1>8, PosType, LenProperties DEF HasNext
    <3> QED BY <1>0, <2>1, <3>1 DEF Successor, Obj
  <2>5. /\ fs \in Seq(Frame) /\ Len(fs) = 2 /\ Head(fs).pc = "connDisconnect"
        /\ fs[1].pc = "connDisconnect" /\ fs[2].pc = "cascade"
        /\ \A i \in 1..Len(fs) : i = 1 \/ i = 2
    <3>1. fs \in Seq(Frame) /\ Len(fs) = 2 /\ Head(fs) = fs[1]
          /\ fs[1].pc = "connDisconnect" /\ fs[2].pc = "cascade"
      BY <1>7, <2>2, <2>4, TwoFrames
    <3> QED BY <3>1
  <2>6. HasCascade(fs)
    BY <2>5 DEF HasCascade
  <2>7. \A x \in Obj : \A e : ~Tells(x, e, fs)
    BY <1>7, <2>5 DEF Tells
  <2>8. \A i \in 1..Len(fs) : fs[i].pc \notin Service /\ (fs[i].pc = "cascade" => i = Len(fs))
    BY <1>7, <2>5
  <2> QED BY <1>6, <2>3, <2>5, <2>6, <2>7, <2>8
<1>9. CASE ~HasNext(o) /\ obj[Ses].callDisc
  <2>1. PICK f \in Frame : f = F("cbDisconnected", Ses) /\ f.pc = "cbDisconnected" /\ f.o = Ses
    <3>1. "cbDisconnected" \in Pcs
      BY <1>7
    <3> QED BY <1>0, <3>1, AFrame, Zenon
  <2>2. PICK fs : fs = <<f>>
    OBVIOUS
  <2>3. Run(Ses, obj[Ses], fs)
    BY <1>9, <2>1, <2>2 DEF sesDisconnectLoop
  <2>4. fs \in Seq(Frame) /\ fs # <<>> /\ Head(fs) = f /\ \A i \in 1..Len(fs) : fs[i] = f
    BY <2>2
  <2>5. ~HasCascade(fs) /\ \A i \in 1..Len(fs) : fs[i].pc \notin Service /\ fs[i].pc # "cascade"
    BY <1>7, <2>1, <2>4 DEF HasCascade
  <2>6. \A x \in Obj : \A e : Tells(x, e, fs) <=> x = Ses /\ e = "disconnected"
    BY <1>7, <2>1, <2>4 DEF Tells
  <2> QED BY <1>6, <1>9, <2>3, <2>4, <2>5, <2>6
<1>10. CASE ~HasNext(o) /\ ~obj[Ses].callDisc
  <2>1. PICK fs : fs = <<>>
    OBVIOUS
  <2>2. Run(Ses, obj[Ses], fs)
    BY <1>10, <2>1 DEF sesDisconnectLoop
  <2>3. fs \in Seq(Frame) /\ \A i \in 1..Len(fs) : FALSE
    BY <2>1, NoFrames
  <2>4. \A x \in Obj : \A e : ~Tells(x, e, fs)
    BY <2>1 DEF Tells
  <2> QED BY <1>6, <1>10, <2>2, <2>3, <2>4
<1> QED BY <1>8, <1>9, <1>10

\* cbDestroy of o, after which o is freed.
LEMMA DestroysProper ==
  ASSUME SInv, NEW o \in Obj, stack # <<>>,
         Head(stack) = F(IF o = Ses THEN "closeSession" ELSE "destroyConn", o),
         Run(o, obj[o], <<F("cbDestroy", o), Freeing(o)>>)
  PROVE  \E fs, r : Proper(fs, r)
<1>0. TypeOK /\ stack \in Seq(Frame)
  BY DEF SInv, TInv, TypeOK
<1>1. Head(stack).o = o /\ Head(stack).pc \in {"closeSession", "destroyConn"}
  BY DEF F
<1>2. obj[o].mem = "live" /\ Head(stack) = stack[1]
  BY <1>1, Runner
<1>3. stack[1].pc # "cascade" /\ \A x \in Obj : stack[1] # Freeing(x)
  BY <1>1, <1>2 DEF Freeing, F
<1>4. PICK q \in {"freeSession", "freeConn"} : Freeing(o) = F(q, o)
  BY DEF Freeing
<1>5. q \in Pcs /\ "cbDestroy" \in Pcs /\ "cbDestroy" \in Callbacks
      /\ Event["cbDestroy"] = "destroy"
      /\ Service \cap {"freeSession", "freeConn", "cbDestroy"} = {}
  BY DEF Pcs, Callbacks, Event, Service
<1>6. PICK fs : fs = <<F("cbDestroy", o), F(q, o)>>
  OBVIOUS
<1>7. /\ fs \in Seq(Frame) /\ fs # <<>> /\ Len(fs) = 2 /\ Head(fs) = F("cbDestroy", o)
      /\ fs[2] = F(q, o) /\ fs[1].pc = "cbDestroy" /\ fs[1].o = o /\ Head(fs) = fs[1]
      /\ \A i \in 1..Len(fs) : fs[i].pc \in {"cbDestroy", "freeSession", "freeConn"}
  BY <1>5, <1>6, TwoFrames
<1>8. Run(o, obj[o], fs)
  BY <1>4, <1>6
<1>9. Steps(fs, Tail(stack)) /\ obj' = obj
  BY <1>0, <1>1, <1>7, <1>8, RunSteps, SameStruct
<1>10. \A x \in Obj : \A e : Tells(x, e, fs) <=> x = o /\ e = "destroy"
  BY <1>5, <1>7 DEF Tells
<1>11. \A x \in Obj, e \in Events : Tells(x, e, fs) => MayTell(x, e)
  BY <1>2, <1>10 DEF MayTell
<1>12. Undisturbed(fs) /\ Opened(obj', fs) /\ \A i \in 1..Len(fs) : fs[i].pc \notin Service
  BY <1>5, <1>7 DEF Undisturbed, Opened, Service
<1>13. ~HasCascade(fs) /\ Looping(fs, Tail(stack))
  BY <1>3, <1>7 DEF HasCascade, Looping
<1>14. \E i \in 1..Len(fs) : fs[i] = Freeing(o)
  BY <1>4, <1>7
<1>15. ASSUME NEW x \in Obj, obj'[x].mem = "live" PROVE Keeping(x, fs, Tail(stack))
  BY <1>3, <1>9, <1>10, <1>14, <1>15 DEF Keeping
<1> QED BY <1>9, <1>11, <1>12, <1>13, <1>15 DEF Proper

\* Freeing o: what is left of it is no object.
LEMMA FreesProper ==
  ASSUME SInv, NEW o \in Obj, stack # <<>>, Head(stack) = Freeing(o), Run(o, Zeroed, <<>>)
  PROVE  \E fs, r : Proper(fs, r)
<1>0. TypeOK /\ Structs /\ stack \in Seq(Frame)
  BY DEF SInv, TInv, TypeOK
<1>1. Head(stack).o = o /\ Head(stack).pc # "cascade"
      /\ \A x : x # o => Head(stack) # Freeing(x)
  BY DEF Freeing, F
<1>2. Head(stack) = stack[1]
  BY <1>1, Runner
<1>3. /\ Steps(<<>>, Tail(stack)) /\ obj'[o] = Zeroed
      /\ \A x \in Obj : x # o => obj'[x] = obj[x]
  BY <1>0, RunSteps, NothingPushed
<1>4. obj'[o].mem # "live"
  BY <1>3, ZeroedIs
<1>5. LivesKept
  BY <1>3, <1>4 DEF LivesKept
<1> QED BY <1>1, <1>2, <1>3, <1>4, <1>5, NoFrames, PlainProper

\* sam3aCloseSession closes the next connection, or calls cbDestroy.
LEMMA CloseSessionProper ==
  ASSUME SInv, closeSession
  PROVE  \E fs, r : Proper(fs, r)
<1>0. Ses \in Obj /\ TypeOK /\ stack \in Seq(Frame) /\ connlist \in Seq(Conns) /\ ListIntegrity
  BY DEF Obj, SInv, TInv, TypeOK, Listing
<1>1. stack # <<>> /\ Head(stack) = F("closeSession", Ses)
  BY DEF closeSession, At
<1>2. Head(stack).o = Ses /\ Head(stack).pc = "closeSession"
  BY <1>1 DEF F
<1>3. obj[Ses].mem = "live" /\ Head(stack) = stack[1]
  BY <1>0, <1>1, <1>2, Runner
<1>4. CASE connlist # <<>>
  <2>1. PICK c : c = Head(connlist)
    OBVIOUS
  <2>2. c \in Conns /\ obj[c].mem = "live"
    <3>1. 1 \in 1..Len(connlist) /\ c = connlist[1]
      BY <1>0, <1>4, <2>1, EmptySeq, LenProperties
    <3> QED BY <1>0, <3>1, ListedLive
  <2>3. PICK cf : cf = CloseConnFrames(c)
    OBVIOUS
  <2>4. PICK g \in Frame : g = F("closeSession", Ses) /\ g.pc = "closeSession"
    <3>1. "closeSession" \in Pcs
      BY DEF Pcs
    <3> QED BY <1>0, <3>1, AFrame, Zenon
  <2>5. PICK fs : fs = cf \o <<g>>
    OBVIOUS
  <2>6. Run(Ses, obj[Ses], fs)
    BY <1>4, <2>1, <2>3, <2>4, <2>5 DEF closeSession
  <2>7. cf \in Seq(Frame) /\ Len(cf) = 2 /\ cf[1].pc = "connDisconnect" /\ cf[2].pc = "destroyConn"
    BY <2>2, <2>3, CloseFrames
  <2>8. /\ fs \in Seq(Frame) /\ Len(fs) = Len(cf) + Len(<<g>>)
        /\ \A i \in 1..Len(cf) : fs[i] = cf[i]
        /\ \A i \in 1..Len(<<g>>) : fs[Len(cf) + i] = <<g>>[i]
    BY <2>5, <2>7, OneMore
  <2>9. fs \in Seq(Frame) /\ Len(fs) = 3 /\ fs[1] = cf[1] /\ fs[2] = cf[2] /\ fs[3] = g
    <3>1. Len(<<g>>) = 1 /\ <<g>>[1] = g
      OBVIOUS
    <3>2. fs \in Seq(Frame) /\ Len(fs) = 3
          /\ (\A i \in 1..2 : fs[i] = cf[i]) /\ \A i \in 1..1 : fs[2 + i] = <<g>>[i]
      BY <2>7, <2>8, <3>1
    <3> QED BY <3>1, <3>2
  <2>10. \A i \in 1..Len(fs) : fs[i].pc \in {"connDisconnect", "destroyConn", "closeSession"}
    <3>1. \A i \in 1..Len(fs) : i = 1 \/ i = 2 \/ i = 3
      BY <2>9
    <3> QED BY <2>4, <2>7, <2>9, <3>1
  <2>11. fs[1].pc \notin Callbacks
    BY <2>7, <2>9 DEF Callbacks
  <2>12. \A i \in 1..Len(fs) : fs[i].pc \notin Service \cup {"cascade"}
    BY <2>10 DEF Service
  <2>13. Steps(fs, Tail(stack)) /\ obj' = obj
    BY <1>0, <1>1, <2>6, <2>9, RunSteps, SameStruct
  <2>14. LivesKept
    BY <2>13, ZeroedIs DEF LivesKept
  <2>15. stack[1].pc # "cascade" /\ \A x \in Obj : stack[1] # Freeing(x)
    BY <1>2, <1>3 DEF Freeing, F
  <2> QED BY <2>11, <2>12, <2>13, <2>14, <2>15, PlainProper
<1>5. CASE connlist = <<>>
  <2>1. Run(Ses, obj[Ses], <<F("cbDestroy", Ses), Freeing(Ses)>>)
    BY <1>3, <1>5 DEF closeSession, Freeing
  <2>2. Head(stack) = F(IF Ses = Ses THEN "closeSession" ELSE "destroyConn", Ses)
    BY <1>1
  <2> QED BY <1>0, <1>1, <2>1, <2>2, DestroysProper
<1> QED BY <1>4, <1>5

\* The functions that end something.
LEMMA TeardownProper ==
  ASSUME SInv, Teardown
  PROVE  \E fs, r : Proper(fs, r)
<1>0. Ses \in Obj /\ \A c \in Conns : c \in Obj /\ c # Ses
  BY ConstantsAssumption DEF Obj
<1>1. ASSUME NEW c \in Conns, destroyConn(c) PROVE \E fs, r : Proper(fs, r)
  <2>1. Run(c, obj[c], <<F("cbDestroy", c), Freeing(c)>>)
        /\ stack # <<>> /\ Head(stack) = F(IF c = Ses THEN "closeSession" ELSE "destroyConn", c)
    BY <1>0, <1>1 DEF destroyConn, Freeing, At
  <2> QED BY <1>0, <2>1, DestroysProper
<1>2. ASSUME NEW c \in Conns, freeConn(c) PROVE \E fs, r : Proper(fs, r)
  <2>1. Run(c, Zeroed, <<>>) /\ stack # <<>> /\ Head(stack) = Freeing(c)
    BY <1>0, <1>2 DEF freeConn, Freeing, At
  <2> QED BY <1>0, <2>1, FreesProper
<1>3. CASE freeSession
  <2>1. Run(Ses, Zeroed, <<>>) /\ stack # <<>> /\ Head(stack) = Freeing(Ses)
    BY <1>3 DEF freeSession, Freeing, At
  <2> QED BY <1>0, <2>1, FreesProper
<1> QED BY <1>1, <1>2, <1>3, ConnDisconnectProper, SesDisconnectProper, CascadeProper,
           CloseSessionProper DEF Teardown

-----------------------------------------------------------------------------
(* The round, and what the application calls.                              *)

\* The round of sam3aProcessSessionIO goes on with a connection, or ends.
LEMMA WalkProper ==
  ASSUME SInv, NEW o \in Obj, Walk(o)
  PROVE  \E fs, r : Proper(fs, r)
<1>0. TypeOK /\ Frames /\ ListIntegrity /\ connlist \in Seq(Conns)
  BY DEF SInv, TInv, Listing, TypeOK
<1>1. stack # <<>> /\ Head(stack).o = o /\ Head(stack).pc = "walk"
  BY DEF Walk, At, F
<1>2. /\ Head(stack) = stack[1] /\ stack[1].pc # "cascade"
      /\ \A x : stack[1] # Freeing(x)
  BY <1>1, Runner DEF Freeing, F
<1>3. Tail(stack) = <<>> /\ \A j \in 1..Len(Tail(stack)) : FALSE
  <2>1. Tail(stack) = <<>>
    BY <1>0, <1>1, Bottom
  <2> QED BY <2>1, NoFrames
<1>4. ASSUME NEW fs \in Seq(Frame), Run(o, obj[o], fs),
             \A i \in 1..Len(fs) : fs[i].pc \in {"readIO", "writeIO", "walk"}
      PROVE  \E gs, r : Proper(gs, r)
  <2>1. Steps(fs, Tail(stack)) /\ obj' = obj
    BY <1>0, <1>1, <1>4, RunSteps, SameStruct
  <2>2. LivesKept
    BY <2>1 DEF LivesKept
  <2>3. \A i \in 1..Len(fs) : /\ fs[i].pc \notin {"cascade", "readLoop", "ready"}
                              /\ fs[i].pc \notin Callbacks /\ fs[i].pc \in Service
    BY <1>4 DEF Callbacks, Service
  <2>4. fs # <<>> => fs[1].pc \notin Callbacks
    <3>1. fs # <<>> => 1 \in 1..Len(fs)
      BY Popped
    <3> QED BY <2>3, <3>1
  <2>5. Undisturbed(fs)
    BY <2>3 DEF Undisturbed
  <2> QED BY <1>2, <1>3, <2>1, <2>2, <2>3, <2>4, <2>5, SilentProper
<1>5. {"readIO", "writeIO", "walk"} \subseteq Pcs
  BY DEF Pcs
<1>6. ASSUME NEW i \in DOMAIN connlist, Run(o, obj[o], Visit(connlist[i]))
      PROVE  \E gs, r : Proper(gs, r)
  <2>1. PICK d \in Obj : d = connlist[i]
    BY <1>0 DEF Obj
  <2>2. PICK fs : fs = Visit(d) /\ Run(o, obj[o], fs)
    BY <1>6, <2>1
  <2>3. PICK hs : hs = <<F("writeIO", d), F("walk", d)>>
    OBVIOUS
  <2>4. hs \in Seq(Frame) /\ \A k \in 1..Len(hs) : hs[k].pc \in {"readIO", "writeIO", "walk"}
    <3>1. hs \in Seq(Frame) /\ \A k \in 1..Len(hs) : hs[k].pc = "writeIO" \/ hs[k].pc = "walk"
      BY <1>5, <2>3, TwoFrames
    <3> QED BY <3>1
  <2>5. PICK g \in Frame : g = F("readIO", d) /\ g.pc = "readIO"
    <3>1. "readIO" \in Pcs
      BY <1>5
    <3> QED BY <3>1, AFrame, Zenon
  <2>6. PICK gs : gs = IF CallR(d) THEN <<g>> ELSE <<>>
    OBVIOUS
  <2>7. gs \in Seq(Frame) /\ \A k \in 1..Len(gs) : gs[k].pc \in {"readIO", "writeIO", "walk"}
    <3>1. CASE CallR(d)
      <4>1. gs = <<g>>
        BY <2>6, <3>1
      <4>2. gs \in Seq(Frame) /\ Len(gs) = 1 /\ gs[1] = g
        BY <4>1
      <4> QED BY <2>5, <4>2
    <3>2. CASE ~CallR(d)
      <4>1. gs = <<>>
        BY <2>6, <3>2
      <4> QED BY <4>1, NoFrames
    <3> QED BY <3>1, <3>2
  <2>8. fs = gs \o hs
    BY <2>2, <2>3, <2>5, <2>6 DEF Visit
  <2>9. /\ fs \in Seq(Frame) /\ Len(gs) \in Nat
        /\ \A k \in 1..Len(gs) : fs[k] = gs[k]
        /\ \A k \in 1..Len(fs) : k > Len(gs) => k - Len(gs) \in 1..Len(hs) /\ fs[k] = hs[k - Len(gs)]
    BY <2>4, <2>7, <2>8, Stacked
  <2>10. ASSUME NEW k \in 1..Len(fs) PROVE fs[k].pc \in {"readIO", "writeIO", "walk"}
    <3>1. CASE k <= Len(gs)
      <4>1. k \in 1..Len(gs)
        BY <2>9, <3>1
      <4> QED BY <2>7, <2>9, <4>1
    <3>2. CASE k > Len(gs)
      BY <2>4, <2>9, <3>2
    <3> QED BY <2>9, <3>1, <3>2
  <2> QED BY <1>4, <2>2, <2>9, <2>10
<1>7. CASE Run(o, obj[o], <<>>)
  BY <1>4, <1>7, NothingPushed, NoFrames
<1> QED BY <1>6, <1>7 DEF Walk

\* A round begins between two calls of the application.
LEMMA SelectProper ==
  ASSUME SInv, Select
  PROVE  \E fs, r : Proper(fs, r)
<1>0. TypeOK /\ stack = <<>> /\ Ses \in Obj /\ \A j \in 1..Len(stack) : FALSE
  BY NoFrames DEF SInv, TInv, Select, Obj
<1> DEFINE fs == <<F("readIO", Ses), F("writeIO", Ses), F("walk", Ses)>>
<1>1. Call(fs) /\ obj' = obj
  BY DEF Select
<1>2. fs \in Seq(Frame) /\ Len(fs) = 3 /\ fs[1].pc = "readIO" /\ fs[2].pc = "writeIO" /\ fs[3].pc = "walk"
  BY <1>0 DEF F, Frame, Pcs
<1> HIDE DEF fs
<1>3. \A i \in 1..Len(fs) : /\ fs[i].pc \notin {"cascade", "readLoop", "ready"}
                            /\ fs[i].pc \in Service
  BY <1>2 DEF Service
<1>4. fs[1].pc \notin Callbacks
  BY <1>2 DEF Callbacks
<1>5. Undisturbed(fs)
  BY <1>3 DEF Undisturbed
<1>6. Steps(fs, stack)
  BY <1>0, <1>1, <1>2 DEF Steps, Call, TypeOK
<1>7. LivesKept
  BY <1>1 DEF LivesKept
<1> QED BY <1>0, <1>3, <1>4, <1>5, <1>6, <1>7, SilentProper

\* A callback returns.
LEMMA ReturnProper ==
  ASSUME SInv, Return
  PROVE  \E fs, r : Proper(fs, r)
<1>1. stack \in Seq(Frame) /\ stack # <<>>
  BY DEF SInv, TInv, TypeOK, Return
<1>2. Tail(stack) \in Seq(Frame) /\ Head(stack) = stack[1]
  BY <1>1, Popped
<1>3. Told(<<>>) = told
  BY DEF Told
<1>4. Steps(<<>>, Tail(stack))
  BY <1>1, <1>2, <1>3, NothingPushed DEF Steps, Return
<1>5. LivesKept
  BY DEF LivesKept, Return
<1>6. stack[1].pc # "cascade" /\ \A x : stack[1] # Freeing(x)
  BY <1>2 DEF Return, Callbacks, Freeing, F
<1> QED BY <1>4, <1>5, <1>6, NoFrames, PlainProper

\* What the application calls to end something.
LEMMA EndCallsProper ==
  ASSUME SInv,
         \/ sam3aCancelSession \/ sam3aCloseSession
         \/ \E c \in Conns : sam3aCancelConnection(c) \/ sam3aCloseConnection(c)
  PROVE  \E fs, r : Proper(fs, r)
<1>0. TypeOK /\ stack \in Seq(Frame) /\ Ses \in Obj /\ Conns \subseteq Obj
  BY DEF SInv, TInv, TypeOK, Obj
<1>1. {"sesDisconnect", "connDisconnect", "destroyConn", "closeSession"} \subseteq Pcs
      /\ {"sesDisconnect", "connDisconnect", "destroyConn", "closeSession"} \cap Callbacks = {}
      /\ {"sesDisconnect", "connDisconnect", "destroyConn", "closeSession"} \cap (Service \cup {"cascade"}) = {}
  BY DEF Pcs, Callbacks, Service
<1>2. ASSUME NEW fs \in Seq(Frame), ApiCall(fs), fs # <<>>,
             \A i \in 1..Len(fs) :
               fs[i].pc \in {"sesDisconnect", "connDisconnect", "destroyConn", "closeSession"}
      PROVE  \E gs, r : Proper(gs, r)
  <2>1. Steps(fs, stack) /\ obj' = obj
    BY <1>0, <1>2 DEF Steps, ApiCall, Call
  <2>2. LivesKept
    BY <2>1 DEF LivesKept
  <2>3. 1 \in 1..Len(fs)
    BY <1>2, Popped
  <2> QED BY <1>1, <1>2, <2>1, <2>2, <2>3, PlainProper
<1>3. ASSUME NEW o \in Obj, NEW pc \in {"sesDisconnect", "connDisconnect"}, ApiCall(<<F(pc, o)>>)
      PROVE  \E gs, r : Proper(gs, r)
  <2>1. PICK f \in Frame : f = F(pc, o) /\ f.pc = pc
    <3>1. pc \in Pcs
      BY <1>1
    <3> QED BY <3>1, AFrame, Zenon
  <2>2. PICK fs : fs = <<f>>
    OBVIOUS
  <2>3. fs \in Seq(Frame) /\ fs # <<>> /\ \A i \in 1..Len(fs) : fs[i] = f
    BY <2>2
  <2>4. ApiCall(fs)
    BY <1>3, <2>1, <2>2
  <2> QED BY <1>2, <2>1, <2>3, <2>4
<1>4. ASSUME NEW o \in Obj, NEW p, NEW q, ApiCall(<<F(p, o), F(q, o)>>),
             {p, q} \subseteq {"sesDisconnect", "connDisconnect", "destroyConn", "closeSession"}
      PROVE  \E gs, r : Proper(gs, r)
  <2>1. PICK fs : fs = <<F(p, o), F(q, o)>>
    OBVIOUS
  <2>2. fs \in Seq(Frame) /\ fs # <<>> /\ \A i \in 1..Len(fs) : fs[i].pc = p \/ fs[i].pc = q
    <3>1. p \in Pcs /\ q \in Pcs
      BY <1>1, <1>4
    <3> QED BY <2>1, <3>1, TwoFrames
  <2>3. ApiCall(fs)
    BY <1>4, <2>1
  <2> QED BY <1>2, <1>4, <2>2, <2>3
<1> QED BY <1>0, <1>3, <1>4
        DEF sam3aCancelSession, sam3aCloseSession, sam3aCancelConnection, sam3aCloseConnection,
            CloseConnFrames

\* A step that only opens something, or changes nothing of the objects' lives.
LEMMA QuietProper ==
  ASSUME SInv, LivesKept, stack' = stack, told' = told
  PROVE  \E fs, r : Proper(fs, r)
<1>1. Told(<<>>) = told
  BY DEF Told
<1>2. stack \in Seq(Frame) /\ <<>> \o stack = stack
  BY DEF SInv, TInv, TypeOK
<1>3. Steps(<<>>, stack)
  BY <1>1, <1>2, NothingPushed DEF Steps
<1> QED BY <1>3, NoFrames, PlainProper

\* A struct whose connect() is in progress has not been opened.
LEMMA OpensProper ==
  ASSUME SInv, NEW o \in Obj, obj[o].mem = "none", NEW k,
         obj' = [obj EXCEPT ![o] = Connecting(k)], stack' = stack, told' = told
  PROVE  \E fs, r : Proper(fs, r)
<1>1. obj'[o] = Connecting(k) /\ \A x \in Obj : x # o => obj'[x] = obj[x]
  BY DEF SInv, TInv, TypeOK
<1>2. obj[o] = Unused
  BY DEF SInv, Structs
<1>3. /\ Connecting(k).cancelled = FALSE /\ Connecting(k).callDisc = FALSE
      /\ Unused.cancelled = FALSE /\ Unused.callDisc = FALSE
  <2>1. Connecting(k) = [Zeroed EXCEPT !["mem"] = "live", !["kind"] = k,
                                       !["fd"] = "own", !["procW"] = "connected"]
    BY Zenon DEF Connecting
  <2>2. Unused = [Zeroed EXCEPT !["mem"] = "none", !["fd"] = "none"]
    BY Zenon DEF Unused
  <2> QED BY <2>1, <2>2 DEF Zeroed
<1>4. \A x \in Obj : obj[x].mem = "none" => obj[x] = Unused
  BY DEF SInv, Structs
<1>5. LivesKept
  BY <1>1, <1>2, <1>3, <1>4 DEF LivesKept
<1> QED BY <1>5, QuietProper

\* sam3aSend queues, and touches nothing else.
LEMMA SendProper ==
  ASSUME SInv, NEW c \in Conns, sam3aSend(c)
  PROVE  \E fs, r : Proper(fs, r)
<1>0. c \in Obj /\ obj[c] \in Struct /\ Structs /\ TypeOK
  BY DEF SInv, TInv, TypeOK, Obj
<1>1. PICK s : s = Queue(obj[c], obj[c].out + 1) /\ obj' = [obj EXCEPT ![c] = s]
  BY DEF sam3aSend
<1>2. obj'[c] = s /\ \A x \in Obj : x # c => obj'[x] = obj[x]
  BY <1>0, <1>1 DEF TypeOK
<1>3. SameLife(obj[c], s) /\ s.callDisc = obj[c].callDisc
  BY <1>0, <1>1, HandlersKeepLife, HandlersKeepOpen
<1>4. \A x \in Obj : obj[x].mem = "none" => ~obj[x].cancelled
  BY <1>0, ZeroedIs DEF Structs
<1>5. LivesKept
  BY <1>0, <1>2, <1>3, <1>4 DEF LivesKept, SameLife
<1> QED BY <1>5, QuietProper DEF sam3aSend

\* Every step is proper.
LEMMA NextProper ==
  ASSUME SInv, LInv, [Next]_vars
  PROVE  \E fs, r : Proper(fs, r)
<1>0. Ses \in Obj /\ Conns \subseteq Obj
  BY DEF Obj
<1>1. CASE sam3aCreateSessionEx \/ sam3aGenerateKeysEx \/ sam3aNameLookupEx
  <2>1. PICK kinds : OpenSession(kinds)
    BY <1>1 DEF sam3aCreateSessionEx, sam3aGenerateKeysEx, sam3aNameLookupEx
  <2>2. PICK k : obj' = [obj EXCEPT ![Ses] = Connecting(k)]
    BY <2>1 DEF OpenSession
  <2> QED BY <1>0, <2>1, <2>2, OpensProper DEF OpenSession
<1>2. ASSUME NEW c \in Conns, sam3aStreamConnectEx(c) \/ sam3aStreamAcceptEx(c)
      PROVE  \E fs, r : Proper(fs, r)
  <2>1. PICK k : OpenConnection(c, k)
    BY <1>2 DEF sam3aStreamConnectEx, sam3aStreamAcceptEx
  <2> QED BY <1>0, <2>1, OpensProper DEF OpenConnection
<1>3. CASE App
  BY <1>1, <1>2, <1>3, EndCallsProper, SendProper DEF App
<1>4. CASE Library
  BY <1>4, TeardownProper, ProcessorsProper, WalkProper DEF Library
<1>5. CASE Bridge \/ Done \/ UNCHANGED vars
  <2>1. obj' = obj /\ stack' = stack /\ told' = told
    BY <1>5 DEF Bridge, TcpConnect, Answer, AnswerPart, PeerArrives, SendData, Hangup,
                BridgeChanges, Done, vars
  <2>2. LivesKept
    BY <2>1 DEF LivesKept
  <2> QED BY <2>1, <2>2, QuietProper
<1> QED BY <1>3, <1>4, <1>5, ReturnProper, SelectProper DEF Next

\* Nothing has been told.
LEMMA InitLInv == Init => LInv /\ Life!Init
<1> SUFFICES ASSUME Init PROVE LInv /\ Life!Init
  OBVIOUS
<1>1. stack = <<>> /\ \A j \in 1..Len(stack) : FALSE
  BY NoFrames DEF Init
<1>2. \A o \in Obj : obj[o].mem = "none"
  BY ZeroedIs DEF Init
<1>3. LInv
  BY <1>1, <1>2 DEF LInv, Undisturbed, Opened, OneCascade
<1> QED BY <1>3 DEF Init, Life!Init

\* A step keeps the invariant, and is one of the life cycle.
LEMMA NextLife ==
  ASSUME ~CloseInSessionCallbacks, SInv, LInv, [Next]_vars
  PROVE  SInv' /\ LInv' /\ [Life!Next]_told
<1>1. SInv'
  BY NextSInv
<1>2. PICK fs, r : Proper(fs, r)
  BY NextProper
<1> QED BY <1>1, <1>2, ProperStep

-----------------------------------------------------------------------------
(* The results.                                                            *)

\* What the callbacks have told is what the structs and the stack say.
THEOREM LifeSound == ~CloseInSessionCallbacks => (Spec => []LInv)
<1> SUFFICES ASSUME ~CloseInSessionCallbacks PROVE Spec => []LInv
  OBVIOUS
<1>1. Init => SInv /\ LInv
  BY InitSInv, InitLInv
<1>2. (SInv /\ LInv) /\ [Next]_vars => (SInv /\ LInv)'
  BY NextLife
<1> QED BY <1>1, <1>2, PTL DEF Spec

\* The library implements the life cycle of the callbacks.
THEOREM AsyncCallbacksFollowLife == ~CloseInSessionCallbacks => (Spec => CallbacksFollowLife)
<1> SUFFICES ASSUME ~CloseInSessionCallbacks PROVE Spec => CallbacksFollowLife
  OBVIOUS
<1>1. Init => (SInv /\ LInv) /\ Life!Init
  BY InitSInv, InitLInv
<1>2. (SInv /\ LInv) /\ [Next]_vars => (SInv /\ LInv)' /\ [Life!Next]_told
  BY NextLife
<1> QED BY <1>1, <1>2, PTL DEF Spec, CallbacksFollowLife, Life!Spec

=============================================================================
