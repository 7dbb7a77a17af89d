# libsam3: a verification project

`libsam3` is a C client of the SAM v3 bridge of I2P. It holds two libraries that
speak the same line protocol and share no code at run time:

* `src/libsam3` blocks: every function opens a socket, exchanges a few lines and returns;
* `src/libsam3a` never blocks: the application runs `select()`, and the library calls it
  back, from the middle of its own functions, when something has happened.

This directory models both as TLA+ state machines, checks them with TLC on small
instances, and proves results about them with TLAPS for every instance.

## 1. Inventory

| Component | State | Operations | What makes it correct |
|---|---|---|---|
| **Async session and connections** (`libsam3a.c`, structs of `libsam3a.h:84-186`) | `fd`, `cancelled`, `connlist`, two I/O processors, reply checker, `aio` buffer, `callDisconnectCB` | create / keygen / lookup, stream connect / accept, cancel, close, send | callbacks follow the life cycle of the header; no use of a connection that is freed; sockets are shut when their object ends, and no other descriptor is |
| **Async handshake** (817-1055, 1143-1175, 1214-1249, 1295-1366, 1471-1548, 1584-1647) | processors, checker, buffer: exchanged as a set at each step | command sender, line reader, nine reply checkers | commands and replies stay in step, nobody becomes deaf, an error is final |
| **Async stream I/O** (1369-1468, 1681-1708) | send buffer `data/dataSize/dataUsed/dataPos` | data reader loop, data writer, `sam3aSend` | bytes go out once and in order; queued data leaves |
| **Select loop** (1757-1814 and the examples' `main`) | `fd_set`s of a `select()` that is over, `maxfd` | `sam3aAddSessionToFDS`, `sam3aProcessSessionIO` | stale readiness and a list that changes underneath do no harm; `maxfd` reaches every descriptor in the sets |
| **Sync library** (`libsam3.c`) | `Sam3Session` (`fd`, `fwd_fd`, `silent`, `error`, `connlist`), `Sam3Connection`, the descriptor table | create, silent create, connect, accept, forward, keygen, lookup, datagram send / receive, close | every socket has one owner whatever step fails; errors are told; dialogue in step; calls return |
| **Reply parser** (`libsam3.c:307-349`, `413-567`, `573-596`; copied in `libsam3a.c`) | line buffer, `SAMFieldList`, the heap | line reader, tokenizer, field list, `IsGoodReply`, `FindField` | one line is taken whatever its segments; the list is what the line means; no memory is lost; the two ways to look at a list agree |
| **Base32** (`libsam3.c:1276-1336`) | source, destination | encoder | RFC 4648; the announced length; no byte behind the buffer |
| **Examples** (`examples/sam3`, `examples/sam3a`) | a session, a stream or datagrams, a key file | echo servers and clients | answers whole and in order; the programs end |
| **Channel names / PRNG**, **host lookup**, **UDP sockets** | none | random letters, system calls | see section 8 |
| **Bridge, peers, network** | external | answers, hangs up, resets, cuts lines | - |

The libraries are single threaded. What is hard in them is *re-entrancy* (the
application closes, cancels and opens things inside a callback while library functions
are suspended on the stack below it), *order* (data, replies and hang-ups arrive between
any two steps), *partial failure* (any of a dialogue's steps), and *stale data* (the
ready sets, `c->next`, a cleared struct). `PROJECT.json` lists each such place under
`hazards`, at its line, with the properties that watch it.

## 2. Modules

```
SamProtocol            lines of the protocol, kinds of fault, verdict of the parser
  Sam3aState           async structs, call stack, sockets, descriptors; type invariant
    Sam3aTeardown      disconnect, error, close: cut at every callback
      Sam3aHandlers    I/O processors and reply checkers
        Sam3a          API, select loop, composition    (with SamBridge)
          Sam3aProperties   (INSTANCE CallbackLife)  -> MCSam3a, runs
          Sam3aTypeProofs   types and buffers; commands and replies in step
            Sam3aStackProofs   call stack, connection list, descriptors, ends
              Sam3aLifeProofs  the histories of callbacks; Sam3a implements CallbackLife
    SamBridge          the other end of each async socket
  Sam3                 sync library and its bridge
    Sam3Properties  -> MCSam3, runs
      Sam3Proofs       types, who owns which socket, errors; commands and replies in step
CallbackLife           abstract: what an application may be told, in what order
Sam3aSendBuffer        the bytes of a connection's send buffer
  Sam3aSendBufferProofs
SamReply               line reader and parser of replies
  SamReplyProperties   what a reply means             -> MCSamReply, run
    SamReplyProofs
Base32                 the encoder, and RFC 4648      -> MCBase32, run
  Base32Proofs
ExamplePrograms        key file and faults
  EchoStreams          streams.c, test_ss.c with streamc.c, test_sc.c
  EchoDatagrams        dgrams.c with any number of dgramc.c
    Examples           composition and properties     -> runs
      ExamplesProofs
```

### Async library

The C call stack is explicit: `stack` is a sequence of frames `[pc, o]`, innermost
first. A callback is a frame at which *the application runs*; it may call any API
function there, which pushes frames, or return. The code between two callbacks of a
function is one step, which replaces its frame by the frames still to run. So
`sesError` is `<<cbError, sesDisconnect>>`, `sam3aCloseConnection` is
`<<connDisconnect, destroyConn>>`, and `sesDisconnect`'s loop is a `cascade` frame that
remembers the connection it is at and looks for `c->next` only when it runs again -
as the code does. Each object is a record of the fields that control the library:

| Model | C |
|---|---|
| `obj[o].mem` none / live / closed | not created / in use / `memset` (and, for connections, `free`d) |
| `fd` none / own / zero | -1 / its socket / 0, what `memset` leaves: the descriptor of standard input |
| `procR`, `procW`, `check` | `cbAIOProcessorR`, `cbAIOProcessorW`, `cbReplyCheck*` |
| `aio` null / cmd / fresh / partial / full / stream | `aio.data`: none, an unsent command, an empty line buffer, one with part of a line, one with a line, a send buffer |
| `out` | `dataUsed - dataPos` of a stream, in chunks |
| `callDisc`, `cancelled` | `callDisconnectCB`, `cancelled` |
| `kind` | which constructor made it (`aio.udata`, the function that continues after HELLO) |
| `connlist` | the linked list, newest first |
| `rds`, `wrs` | the `fd_set`s being processed |
| `told` | history variable: callbacks made, for the properties |
| `desc`, `net` | descriptors of the process, the other end of each socket |

Handlers that the source has twice, for sessions and for connections, are written once
for an object `o` and named for each.

`CallbackLife` is the abstract specification: at most one error, at most one opening,
traffic only in between, `cbDisconnected` once and only after an opening, `cbDestroy`
last. `Sam3aProperties` instantiates it over `told`, and `CallbacksFollowLife` says that
every step of the library is a step of it or a stutter.

The application of the model obeys one rule that `libsam3a.h:54` leaves as a TODO
("block sam3aClose*() in callbacks"): it does not close an object inside a callback of
that object, and closes the session outside of callbacks. The run `CloseInCallback` lifts
it. One life per object; every callback is installed; a constructor that fails at once
leaves the struct as it was and is no step.

The bridge acts when the application has control. That loses nothing: a library
step between two callbacks makes at most one system call that the model distinguishes by
what has arrived, and what arrives meanwhile is seen at the next. Connections that are
not ready are passed over in one step of `Walk`, as nothing changes there.

The loop is that of `test_ss.c`: one session, its connections, one `maxfd`. `test00.c:155-163` adds three
sessions to the same sets and keeps only the last `maxfd` of the three; `MaxFdCovers` says nothing of that. After
`cbSent` the buffer may shrink; that is in `Sam3aSendBuffer` only, as to `Sam3a` a queue is empty or not.

### Sync library

A call in progress is the record `call`: the function, the socket it talks on, and
`todo`, the replies it has still to read (its *script*). Calls differ in the script, in
where the socket is kept after HELLO (`Hold`), in how they fail (`Fail*`) and in how
they end (`Succeed`). Descriptors are numbers, handed out lowest first, as POSIX has it,
and there are only `MaxFd + 1`: so a number that was closed under a struct that still
holds it comes back as another socket. `Crash` is the state after a null pointer is
read. The application: closes a session struct once (`libsam3.h:213`), uses a
datagram session only to close it after a failure (as the header asks), and calls
key generation and lookup on structs that are not sessions (`libsam3.h:273`, `283`).
Styles RAW and DATAGRAM are one, since the source does not tell them apart.
A lookup without a name is turned away before it does anything: its result is `rejected`, not
`failed`, as nothing is written to the struct. NULL pointers to structs are not passed.
`to` says of a line which command it answers: `dgram` is the header of a datagram, `other` a stray
line of the bridge, `part` half a line, `data` what is no line at all - stream data, or a payload.

### Send buffer

`Sam3aSendBuffer` keeps what `Sam3aState` abstracts to a count: which bytes stand where
in `aio.data` while sends append, the kernel takes any prefix, the rest moves to the
front, and the buffer grows and, after `cbSent`, shrinks to 8192 (`Shrunk`). Bytes are
numbered in the order in which they are accepted.

### Replies

`SamReply` follows one reply through `sam3ReadReply`: a step of `sam3tcpReceiveStr` is one
`recv()` of any number of bytes, a step of `ParseWords` or `ParseField` is one item of the
list, of whose allocations any may fail. A character is one the parser treats as
different: a letter, a blank, `=`, a quote, a backslash. `heap` is the set of blocks that
have not been freed. `SamReplyProperties` says what a line means without the parser -
quotes pair up over the whole line, blanks outside of them are between words - where the
parser starts anew at each word. The composed models use the verdicts that follow
(`Unparsable` and `Good` of `SamProtocol`).

### Base32

One step of `Base32` is one turn of the encoder's loop; `Character` is RFC 4648, section 6,
bit by bit, and `MCBase32` assumes of it the vectors of `test_b32.c`, so that the reference
is tied to the tests and the encoder to the reference.

### Examples

`EchoStreams` has the four stream programs as processes (`streamss.c` and `streamcs.c`
differ in the silent session only: `client.silent`), `EchoDatagrams` the datagram server and
its clients; `Examples` runs either. A blocking program takes a step per call of the
library, an asynchronous one a step per round of `select()`; a line is a word and its end,
which travel by themselves, so that any `recv()` may see half a line or two. What the
libraries do below is abstracted to what these programs can tell apart: the value that is
returned, the callback that is made. The bridges and the network deliver streams in order
until the tunnel breaks (`cut`), and datagrams in any order, with loss and duplication.
The key file is `none`, `stale` or `fresh`, and any of the three when a program starts. That
the bridge answers a silent `CONNECT` as the library expects is an assumption.

An end of stream is one of two things. A reset, or what the library makes of it, is an error, and the
program ends by its `goto error`. A FIN puts a program of the blocking library into the state `spin`: its
line reader never comes back (the run `HangupSpins`), so neither does `streams.c`, `streamc.c`, `dgrams.c` or
`dgramc.c`, and what stands behind the call - removing the key file, closing the session - is not
done. `sam3DatagramSend` may fail (fault `send`), at the server and at a client.

## 3. Runs

| Run | Instance | Question |
|---|---|---|
| `Sam3aConn` | stream, raw, key generation and lookup sessions, one connection, all faults, all calls | callbacks' life cycle, lockstep, deafness, errors, descriptors, buffers, `maxfd`; one-shot sessions end |
| `Sam3aTwoConns` | stream session, two connections (symmetric), refused connects | list, loops and suspended frames while callbacks open, cancel, close |
| `Sam3aLive` | stream, keygen, lookup; one connection | under fairness: handshakes end, close ends, data drains |
| `SendBuffer` | 8 bytes, buffer shrinking to 2 | bytes in order, buffer large enough |
| `Sam3OneSession` | one sync session, two connections, three free descriptors, all faults, all functions | dialogue in step, errors told, descriptor 0 left alone, one owner per socket; under fairness: calls return |
| `SamReply` | all lines of up to 5 characters, all tails of up to 5 behind two words, a buffer of 10 | reader, parser, memory, verdict |
| `Base32` | all sources of up to 6 bytes of three values, all of up to 11 with one bit, buffers around each size | the encoder is RFC 4648, and stays in its buffer |
| `Examples` | each of two servers with each of two clients (silent or not), all faults together; or the datagram server and two clients, one kind of fault at a time | answers whole, in order, to the right question; under fairness: the programs end |

Four further runs expect a *violation*: each checks one sentence that a comment or
header of the repository says and the code does not do. Section 6 lists them.

**Bounds.** `Conns` and `Sessions` bound the objects: one connection reaches every
handler and every pair of session and connection in each other's callbacks; two reach
the list operations at the head, at the end and on a neighbour of the place a loop stands
at. `MaxOut = 1`, `MaxIn = 1` bound queued chunks and stream data in flight - empty and
not empty are what the code tests; replies and segments are not bounded by them. `MaxFd`
leaves fewer descriptors than the objects need, so the table is full in some states. One sync session is enough for
that: with its forward and two connections it wants four sockets and has three; for sessions that compete there is the
theorem `Ownership`.
`Faults`, `Calls`, `Ops`, `SessionKinds` and `ConnKinds` choose which failures and calls
occur in a run, and keep the two-object runs small. `MaxBytes`, `Quota`, `Shrunk` and
`Initial` bound the send buffer; four times the shrunk size is queued. The faults `early` and
`badArg` concern functions only the sync library has. `Lines` and `RepSize` bound the
replies: the shortest reply with a field behind its two words has five characters, and five
more hold every pair of quote, backslash, blank and `=`; the buffer is one that some of the lines
fill and some overflow, as `ReadsOneLine` is about its last bytes. `Sources` and `DestSizes`:
six bytes are a whole block and a short one of each length is among them; single bits in eleven
bytes reach every place of a third block. `MaxDuplicates` bounds the datagrams that come twice, and
`MaxFaults` the *kinds* of fault of one behaviour, each of which may strike at every step: the streams meet
all four of theirs, the datagrams, whose number on the network multiplies the states, one at a time. For more than
one at a time, more than two clients or duplicates there is the theorem `AnswersMatchHolds`.

**Fairness** (`Sam3a!Fairness`): library code runs on (`WF`); callbacks return and the
application keeps calling `select` (`SF`, since other things the application does
may interrupt the condition); the bridge accepts and answers (`SF`, since the model lets
it act only while the application has control). These are what a single thread in the
loop of the examples gives. Nothing is assumed of peers, of data, or of the application
closing anything. `aioConnDataReader` loops while data arrives, so a peer that is always
faster keeps the library in it: `HandshakeEnds` and `SendsDrain` say *unless* that
happens (`ReadLoopForEver`). In `Sam3!FairSpec` the library runs on and the bridge answers; `CallReturns` makes exceptions of the
reader that spins at the end of its stream (`HangupSpins`) and of a null pointer. In `Examples` each program is an
operating system process that runs while it can (`WF`), and a datagram that is not lost arrives
(`WF(Deliver)`); that a tunnel breaks, that a datagram is lost or comes twice is never owed.

## 4. Properties

Async, safety: `CallbacksFollowLife` (refinement), `CascadeComplete`, `ListIntegrity`,
`FramesAreLive`, `Lockstep`, `NeverDeaf`, `ErrorIsFatal`, `OneShotIsOver`,
`OnlyOwnDescriptors`, `SocketsShut`, `ProcessorsHaveBuffers`, `MaxFdCovers`, `InOrder`; liveness:
`HandshakeEnds`, `CloseEnds`, `SendsDrain`. Sync, safety: `OneOwner`, `OnlyOwnFds`,
`ConnlistIntegrity`, `InStep`, `ErrorTold`; liveness: `CallReturns`. Replies: `ReadsOneLine`,
`ParsesReply`, `HeapAccounted`, `VerdictAgrees`. Base32: `EncodesRfc4648`, `SizeTells`,
`WithinBuffer`. Examples: `EchoWhole`, `AnswersMatch`; liveness: `StreamsEnd`, `DatagramsEnd`. Each is stated and
explained in its module with the lines it is about. Two need a word. `InStep` tells data from replies by `to`;
the header of a datagram that has overtaken the answer to `NAMING LOOKUP` is read in its place, and the property says
that it is not a good one. `ErrorTold` leaves out the connect of a silent session, which does not touch the field
when it goes well, and a lookup that is rejected, which the run `LookupRejected` shows. Section 6 has all three. For each property `PROJECT.json` names a
mutant - a plausible bug in one definition - that breaks it.

## 5. Proofs

| Theorem | Module | Says |
|---|---|---|
| `TypeCorrect` | `Sam3aTypeProofs` | `[]TypeOK`, closing inside callbacks included |
| `BuffersCorrect` | `Sam3aTypeProofs` | `[]ProcessorsHaveBuffers`, closing inside callbacks included |
| `AsyncLockstep` | `Sam3aTypeProofs` | `[]Lockstep`, closing inside callbacks included |
| `StackSound` | `Sam3aStackProofs` | `[]SInv`, the inductive invariant of the next eight |
| `AsyncFramesAreLive` | `Sam3aStackProofs` | `[]FramesAreLive` |
| `AsyncListIntegrity` | `Sam3aStackProofs` | `[]ListIntegrity` |
| `AsyncOnlyOwnDescriptors` | `Sam3aStackProofs` | `[]OnlyOwnDescriptors` |
| `AsyncSocketsShut` | `Sam3aStackProofs` | `[]SocketsShut` |
| `AsyncCascadeComplete` | `Sam3aStackProofs` | `[]CascadeComplete` |
| `AsyncErrorIsFatal` | `Sam3aStackProofs` | `[]ErrorIsFatal` |
| `AsyncOneShotIsOver` | `Sam3aStackProofs` | `[]OneShotIsOver` |
| `AsyncNeverDeaf` | `Sam3aStackProofs` | `[]NeverDeaf` |
| `AsyncMaxFdCovers` | `Sam3aStackProofs` | `[]MaxFdCovers`, closing inside callbacks included |
| `LifeSound` | `Sam3aLifeProofs` | `[]LInv`, the inductive invariant of the next |
| `AsyncCallbacksFollowLife` | `Sam3aLifeProofs` | `CallbacksFollowLife`: `Sam3a` implements `CallbackLife` |
| `SentInOrder`, `QueueFitsBuffer` | `Sam3aSendBufferProofs` | if `Quota <= Shrunk` then `[]InOrder`, `[]TypeOK`, for all sizes |
| `Ownership` | `Sam3Proofs` | `[]OInv`, the inductive invariant of the next four |
| `SyncTypeOK` | `Sam3Proofs` | `[]TypeOK` |
| `SyncOneOwner` | `Sam3Proofs` | `[]OneOwner` |
| `SyncOnlyOwnFds` | `Sam3Proofs` | `[]OnlyOwnFds` |
| `SyncConnlistIntegrity` | `Sam3Proofs` | `[]ConnlistIntegrity` |
| `SyncErrorTold` | `Sam3Proofs` | `[]ErrorTold`: calls that fail set the field, calls that succeed clear it; silent connects and rejected lookups excepted |
| `Dialogue` | `Sam3Proofs` | `[]DInv`, what every socket may carry |
| `SyncInStep` | `Sam3Proofs` | `[]InStep`: no data, payload or earlier reply is read for a reply, and an early datagram's header is turned away |
| `ReadsOneLineHolds` | `SamReplyProofs` | `[]ReadsOneLine`, for every set of lines and every buffer size |
| `HeapAccountedHolds` | `SamReplyProofs` | `[]HeapAccounted`, for every line, alphabet and failing `malloc()` |
| `ReplyTypeCorrect` | `SamReplyProofs` | `[]TypeOK`, for every line, alphabet and buffer size |
| `ParsesReplyHolds` | `SamReplyProofs` | `[]ParsesReply`, for lines of any length |
| `VerdictAgreesHolds` | `SamReplyProofs` | `[]VerdictAgrees`, for lines of any length |
| `ExamplesTypeCorrect` | `ExamplesProofs` | `[]TypeOK`, for any programs, clients, duplicates and faults |
| `EchoWholeHolds` | `ExamplesProofs` | `[]EchoWhole`, for any server, client and faults |
| `AnswersMatchHolds` | `ExamplesProofs` | `[]AnswersMatch`, for any number of clients and duplicates |
| `EncodesRfc4648Holds`, `SizeTellsHolds`, `WithinBufferHolds`, `EncoderTypes` | `Base32Proofs` | `[]EncodesRfc4648`, `[]SizeTells`, `[]WithinBuffer`, `[]TypeOK`, for every source and buffer size |

Each is a consequence of its module's `Spec` for every value of the constants that the named
assumptions admit: any number of connections and sessions, any bounds, faults and calls.

### The asynchronous library: shapes of a struct

`TypeOK` alone is not inductive for the buffers: a handler may assume of its struct
more than its fields' types. The inductive invariant is `TInv == TypeOK /\ obj \in
[Obj -> SoundStruct]`. `SoundStruct` admits five shapes of a struct: idle, connecting,
sending a command, awaiting a line, streaming; each fixes the processors, the buffer, the
checkers and the queue together. Each action maps one shape to another, whatever the
stack is; so no assumption on frames is needed, and the theorem holds also when the
application closes inside callbacks. `BuffersCorrect` and `AsyncMaxFdCovers` follow from the shapes.

### The asynchronous library: dialogue

`Lockstep` speaks of what must not happen at a send and at a read; nothing in it says what a step in between
leaves on the socket. The invariant `KInv` says what struct and socket agree on (`Agree`): before a command is
sent the socket is `Silent` - no request, nothing unread, no half line; while a line is awaited, it or the bridge's debt
for it is there (`ReplyAwaited`); an accept may wait for a peer, whose announcement stands behind the answer
(`PeerAwaited`). It is owed only to an object that is `InService`: allocated, not cancelled, not told of an error.
So the proof needs no assumption on the stack but one: the loop of `aioConnDataReader` runs for a connection that has
been opened (`LoopsOpen`), as what it reads is data and no reply. Two kinds of step change a socket.
The library's change the struct with it, and there is one lemma for each handler (`CmdSenderKeeps`, `SesReaderKeeps`,
...). The bridge's append to what is unread, possibly behind a first part of a line: `ReplyAppend` and
`AgreeAppend` say that the answer of the bridge is the one that is awaited, whatever else was there.

### The asynchronous library: the call stack

`FramesAreLive` - no suspended function works on a freed connection - says nothing of the
moment before the free, so no step preserves it by itself. The invariant `SInv` says what
the stack looks like, and what each frame on it may rely on:

* `Nested`: what stands directly above the code of a connection is code or a callback of that
  connection. It speaks of neighbours only, so pushing and popping frames touches one pair of
  it. `NoWorkLeft` turns it into what closing needs: if the application runs in no callback
  of `c`, there is no code of `c` anywhere on the stack, however deep. (If there were, what stands
  above it would be `c`'s as well, up to the innermost frame, which is a callback.)
* `Lasts`: below a `destroyConn` or `freeConn` of a connection there is nothing more of it.
* `Dying`: a frame that ends an object finds it cancelled, or stands below the disconnect
  that will have cancelled it.
* `Cascading`: the loop of `sesDisconnect` has cancelled all that stands before the connection it is
  at. New connections are put at the head of the list, which is before that: that none is lost by it
  is because a session that is cancelled opens none.
* `Ending`: whoever was told of an error or an answer (`Over`), or has no processor left (`Deaf`), has
  its disconnect on the stack (`Doomed`), or is cancelled already. With an empty stack this is
  `ErrorIsFatal`, `OneShotIsOver` and `NeverDeaf`.
* `Listing`, `Shutting`, `Structs`, `Closing`: the list and the descriptors, the two values a struct that
  is not in use can have, and that the session is freed with its list empty.

The theorems of this and the next section, `AsyncMaxFdCovers` excepted, have the hypothesis
`~CloseInSessionCallbacks`: the application does not close its session inside a callback. The run
`CloseInCallback` shows that `OnlyOwnDescriptors` is false without it. (That a connection is not closed inside its own callbacks is a guard of the
model, see section 2.) The hypothesis is that of the runs `Sam3aConn`, `Sam3aTwoConns` and `Sam3aLive`.

### The asynchronous library: the life cycle of callbacks

`CallbackLife` says which histories of callbacks an object may see. The refinement maps its variable to the
history `told`, and the proof is that each step of `Sam3a` that pushes a callback appends what `CallbackLife!Next`
admits, and every other step leaves `told` as it is. `SInv` says what follows from an error or an answer,
but not that nothing is read, sent or opened after an object was told of its end. `LInv` adds:

* `Undisturbed`: what serves a descriptor - `readIO`, `writeIO`, `readLoop`, `ready`, `walk` - has
  only frames of that kind below it, as `sam3aProcessSessionIO` is called by no callback. So no
  disconnect of the object is under way when it is served; by `Ending` it was not told of an error or an answer.
* `Opened`: a stream is read, and its first `cbSent` made, only when it has been opened.
* `OneCascade`: there is one loop of `sesDisconnect` at most.
* `Logged`: an object was told that it is open exactly when its `callDisconnectCB` is set; that it is disconnected,
  as soon as it is cancelled besides and the loop is over, and not before; and `cbDestroy` came only if
  nothing but the free remains.

A step is `Proper` if what it tells is `Allowed` by the history, and if what it pushes and changes agrees with the
above. `ProperStep` shows that a proper step keeps `LInv` and is a step of `CallbackLife`; `NextProper`, that each action
of the library, the application and the bridge is proper.

### The synchronous library: who owns a socket

`OneOwner` counts the owners of each open socket. What keeps it true is in `OInv`: `Owned` says the
same without counting - an owner's descriptor is open, two owners' differ, each open one has an
owner - and `CallShape`, `Holding` and `Settled` say who that is at every step of every dialogue: the call itself
before the bridge has said hello, the struct from then on, nobody else ever. `Remaining` lists what may be left
to read of each script. Each way out of a call (`FailCreate`, `FailOpen`, `FailForward`, `FailOnce`, `FailReceive`,
`Succeed`) has a lemma about the owners it leaves. A descriptor that is closed comes back under the same
number; the proof never assumes otherwise. `ErrorTold` is inductive relative to `OInv`.

### The synchronous library: dialogue

`InStep` speaks of the moment a command is sent or a line is taken; in between, the bridge, the peers and the
network write to *every* socket. `DInv` says what each may carry: the socket of the call in progress is
`Quiet` before a command is sent and `Awaits` an answer afterwards, a datagram session carries headers and
payloads by turns, a connection carries data. A session whose bridge lets a datagram in early is `Overtaken`:
that header comes before the answer. `Moves` is what happens to a socket from outside, `Reads` what a
read takes, and one lemma per shape says that each survives a move. That a call leaves the
sockets of all other owners alone is `Apart` and `SocksKept`, which rest on `OInv`.

### Send buffer, replies, Base32

For the send buffer the invariant adds to `InOrder` that the data fits the buffer and
that during `cbSent` no more than `Quota` is queued; the shrinking step is the only one
that needs `Quota <= Shrunk`, and the run `SendBufferShrinks` shows that it is needed. The
lemmas `CutAndJoin` and `FreshContinues` are about sequences only.

For the reader the invariant adds that a reader at work has taken neither the end of the line
nor the last byte of its buffer. For the list it is `WordInv`: the parser stands at a gap between words, `k` words begin before
that place, and the list is what the first `k` words mean. What keeps it is about one word: `xstrtokend` starts anew at each, not
knowing the quotes before, and yet stops where the quotes of the *whole* line say (`WordEnds`), as a gap is outside of
quotes (`BoundaryGap`) and the scan turns as the line does (`Rounds`). `NextWord` and `OneMoreWord` count the words; `FieldIs` and `ItemAdded`
say that a word is cut at its first `=` as the reference cuts it. `VerdictAgrees` rests on the loops of `sam3FindField` and
`sam3IsGoodReply` stopping at the same item (`FindLooks`, `GoodLooks`). These are inductions over a line and over a list. They are done with
`DownInduction` and `UpInduction`, about a *set* of numbers, which follow from `Least`: a set that is not empty has
a smallest member. The scans are recursive functions for that reason. For the memory, `HeapAccounted` with "the list is a sequence" is
inductive: `AddItemHeap` goes through the allocations of one item, and `Grown` says that a longer list
points to what the shorter one did, and more.

For Base32 the invariant `Counts` says that while bytes are left, five have been taken for
every eight characters, and what is still to come makes up the announced length. `BitOfBlock` says that bit
`m` of a block is bit `40n + m` of the source, zeros behind its end included; `GroupsAreBits` that each of the
eight shifts and masks is the sum of its five bits. So a block's characters are those of
RFC 4648 at their places, and the rest is counting.

### Examples

`EchoWhole` compares what has been read with what was echoed, and that with what was said; a step that moves a
symbol from one place to the next changes neither. So the invariant of the streams is about all places together.
`Upstream`: what the server has taken (`Taken`: echoed, queued, or a line not yet complete), what is on the wire, what is lost
and what the client has not written are, one behind the other, what the client has to say; `Downstream` the same for the
way back. Only the end of a stream is lost: `lost` is empty unless the tunnel is cut or the receiver has closed, and
behind something lost nothing arrives. `ClientAt` and `ServerAt` say where each program is, with what. A "quit" is the last
thing said (`Quits`, `NothingFollows`), so a server that has taken one has taken everything, and `Finished` that it leaves with all
of it answered. A text is taken apart and put together again in each lemma; `++` is `\o` under a name that the provers do not look
into, with its few laws (`Joins`, `Assoc`, `TextFacts`).

For datagrams, `Under(c)` collects the words of client `c` wherever they are: on the network, in the server's queue,
in its hands, in the queue of `c`. `Waiting` says that each was asked; and, if nothing comes twice, that there is one at
most (`Alone`), none while the client is about to send, and that it is the last word asked. `Alone` is what a shorter invariant
lacks: without it an answer could arrive behind another, and `dgramc.c` take the wrong one. What other clients do leaves `Under(c)`
alone (`OthersStay`). This needs `AddressAssumption`: to a client at the server's address its own questions would come as answers.
`ExamplesInv` says that one of the two holds, as the initial state has chosen.

### Assumptions

Those of the modules, which TLC evaluates in every run: `ConstantsAssumption`, `FaultsAssumption`,
`ApplicationAssumption`, `SyncAssumption`, `BufferAssumption`, `ReplyAssumption`, `Base32Assumption`,
`ProgramsAssumption`, `AddressAssumption`. They give the constants their types (`ProgramsAssumption`: the programs are the
four of the repository); some say more: that `"fd0"` is no object and `"none"` no session or
connection, as these strings stand for the foreign descriptor and for no connection at all; that `NULL`
is no text and no number; that the address of the datagram server is no client's.

### Only model-checked

* Liveness under fairness: `HandshakeEnds`, `CloseEnds`, `SendsDrain`, `CallReturns`, `StreamsEnd`, `DatagramsEnd`. Out of the
  prover's reach.

Every invariant of a passing run, and the refinement of `CallbackLife`, is stated by one of the theorems above; where a
theorem has a hypothesis on the constants, it is `~CloseInSessionCallbacks` or `Quota <= Shrunk`, which the run satisfies. The runs
`CloseInCallback` and `SendBufferShrinks` show for one property each what happens without it.

## 6. Disagreements between the code and what it says

| Run | The repository says | The code does |
|---|---|---|
| `CloseInCallback` | `test00.c:44,51,67` "it's safe here" | the interrupted function goes on with the cleared struct and shuts down descriptor 0 |
| `SendBufferShrinks` | `libsam3a.h:302` "can be used in cbSent() callback" | more than 8192 bytes queued there are cut off |
| `HangupSpins` | `libsam3.c:329` "error or connection closed; alas" | the line reader never ends at end of file |
| `LookupRejected` | `libsam3.h:284` "will set 'error' field" | a NULL or empty name returns -1 and leaves the field as it was (789, 822) |

Also seen while modelling, present in the models, and not given a run of their own:

* From `SESSION STATUS` on the bridge may send datagrams over the session's connection. `sam3CreateSession` reads the
  next line for the answer to `NAMING LOOKUP` (`libsam3.c:947` "get public key"): the header of a datagram that
  comes first is an "invalid NAMING reply" (957), and the session is given up (fault `early`).
* In a silent session `sam3StreamConnect` reads the status and does not look at it (`libsam3.c:1017`): it returns a
  connection when the bridge has refused the stream, and leaves `error` as it was. `libsam3.h:234,238`: "open stream connection
  to 'destkey' endpoint", "sets ses->error on error".
* `cbDestroy` runs when the descriptor has been shut down but not closed, and nothing closes
  it later; `libsam3a.h:109` says "called when fd is already closed" (also 158).
* A session closed by `sam3aCloseSession` has `fd` 0 and `cancelled` 0, so
  `sam3aIsActiveSession` is true of it; `libsam3a.h:190`: "check if session is active (i.e.
  have opened socket)".
* End of file during a handshake is "do nothing" for `aioLineReader` (838), and a created
  session has no processor at all (991-993), so the end of the bridge is reported by no callback;
  `libsam3a.h:203-204`: "all network errors indicated with cbError() callback".
* A reply line that reaches the asynchronous library in two segments is an `IO_ERROR`: `recv` is asked for what is
  left of the line and its result compared with the length of all of it (`libsam3a.c:851`, fault `part`). The
  comment at 853 calls this branch "the thing that should not be".
* A `NAMING REPLY` without `RESULT` is compared through a null pointer (`libsam3a.c:1225`, frame `crashed`).
* An idle open connection is in the write set in every round (1783-1786: the braces leave `FD_SET` outside of the
  test), so `select()` returns at once as long as there is one. `MaxFdCovers` holds nevertheless.
* When the allocation of a third or later word's item fails, `sam3ParseReply` returns without freeing the list
  (`libsam3.c:523`, state `lost`).
* `sam3Base32Encode` writes its terminator behind a buffer that the text fills exactly (1330-1332), which
  `WithinBuffer` allows and no caller in the repository can cause.
* The four blocking examples read with the line reader of `HangupSpins`: a FIN leaves them in it for ever
  (`streams.c:70`, `streamc.c:87`, `dgrams.c:96`, `dgramc.c:96`, state `spin`). `streams.c` then never removes its key
  file. In `StreamsEnd` and `DatagramsEnd` this is an exception, and the first claims the end of a server only
  while the client stays and the tunnel holds. If the client has said "quit", `streams.c` ends even if it leaves.
* `test_ss.c` leaves its loop only in `cbSent` after a "quit". If the client closes before that answer is on its
  way, the library drops what is queued (`libsam3a.c:1410-1415`) and the server stays for ever: the same
  exception. `test_sc.c` never leaves its loop once its connection has ended.
* `dgramc.c` waits without a timeout, and takes any datagram for its answer: a lost one, a server that has failed, or
  another client's "quit", leaves it waiting, a duplicate shifts its answers. These are the exceptions
  in `DatagramsEnd` and `AnswersMatch`.
* `test00.c:156,159,162` overwrites `maxfd` with each of its three sessions, so `select()` may not look at the
  descriptors of the first two. Not modelled: the model has one session.
* `streamc.c:39` reads 616 characters from the key file, the longest a key can be (`libsam3.h:55-56`); with a
  shorter key, as of 516 characters, it prints its usage and ends, though the file is good.
* A server whose accept fails leaves its key file behind (`streams.c:59-62`), and `test_ss.c` never removes it.
* `sam3GenerateKeys` goes on after a bad reply and copies the field it has not got
  (`libsam3.c:774`, state `Crash`), and sets `ses->error` on every failure;
  `libsam3.h:274-275`: "will not set 'error' field", "returns <0 on error, 0 on ok".
* `sam3IsGoodReply` accepts a reply without the field it was asked about (`libsam3.c:582-591`):
  a `DATAGRAM RECEIVED` without `SIZE` is a null pointer at 1241, under the comment "we have this
  field -- for sure" (state `Crash` again).

Seen in the source and outside of the models: `sam3aCloseSession` and
`sam3aCloseConnection` return -1 always; `aioSesCreateChecker` reads a list it has freed
(`libsam3a.c:1012-1013`); `aioSesNameResChecker` drops a reply to something else without
a word (1221); `timeoutms` is never used; `sam3aDatagramSend` is declared
(`libsam3a.h:316`) and not defined; `sam3Base32Decode` is a copy of the encoder.

## 7. Plan

Done, in this order: `Sam3aState`, `SamBridge`, `Sam3aTeardown`, `Sam3aHandlers`, `Sam3a`,
`CallbackLife`, `Sam3aProperties`; `Sam3aTypeProofs`; `SamProtocol`, `Sam3`,
`Sam3Properties`; `Sam3aSendBuffer` and its proof; `maxfd`, the fault `bare` and the answer callbacks in
`Sam3a`; `SamReply`, `SamReplyProperties` and the proofs; `Base32` and the proofs; `EchoStreams`,
`EchoDatagrams`, `Examples`.

`Sam3Proofs`, `Sam3aStackProofs`, `Sam3aLifeProofs`, `ExamplesProofs`.

Next: the examples over the detailed libraries instead of their summaries.

## 8. Not modelled

Host name resolution, socket options, `TickCount` and time conversion, debug output:
straight system calls, whose failure is the fault `refuse`. Channel names and their PRNG:
random letters without state. Key contents: a key is accepted or not. The contents of
sessions' `params`. Reply lists that the callers of the parser forget or use after they are freed. The `#if 0` parts of
`libsam3a.c`. Several sessions in one `select()` loop. Of the examples `keys.c`, `namelookup.c` and `samtest.c`, single calls in a row, and `test00.c`, whose
callbacks do what the application of `Sam3a` may do. The vendored `tinytest`.
