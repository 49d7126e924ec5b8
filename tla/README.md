# Verification of CommunicateCore

TLA+ models of the communication core of this repository, the TLC
configurations that check them, and TLAPS proofs: every safety property the
passing runs check on a small instance is also proved, for every value of the
constants (section 6). Line numbers below refer to the C sources in `src/`.

## 1. Inventory

The repository has three programs, which talk to the outside and to each other
over stream sockets, and a packet format they share.

| Part | Source | State it keeps | Operations |
|---|---|---|---|
| process1 main | `process1.c`, `process1.h` | `stClientGroup[MAX_CLIENTS]`: socket, exit flag, shared data, mutex, condition | select, accept, search a free slot, fill it, create two threads |
| receive thread | `recv-thread.c` | its slot (by pointer), the response it has built | receive a chunk, check, dispatch, store the response and signal; on end of stream close, free the slot, raise the exit flag |
| send thread | `send-thread.c` | its slot, a copy of the response | check the exit flag, timed wait, copy, unlock, send |
| packet format | `frame-format.c/.h` | none | checksum, total size, format check, two packet builders |
| command dispatch | `cmd-handler.c/.h`, `command.c/.h` | a constant table | sizes per command, handler per command |
| collector | `sensor-collector.c`, `process2.h` | descriptor sets, receive buffer; `SHARED_SENSOR_DATA` | select, accept, receive, store a sample, signal on EXTERN4 |
| processing | `sensor-processing.c` | a copy of `SENSOR_DATA` | accept one consumer, timed wait, copy, compute, send |
| process3 threads | `recv-processing-data.c`, `recv-command-data.c` | a receive buffer each | connect once, receive, write to a pipe |
| process3 main | `process3.c` | two pipes, a buffer | select, read the command pipe, read the control pipe |
| not modelled | `process2.c`, `logger.c`, `Makefile`, socket submodules | | see section 8 |

Interactions. `main` of process1 hands a slot to the two threads of a client and
never hears of them again: the only sign that a slot is free is
`iClientSock == 0`, written by the receive thread and read by `main` without a
lock. The receive thread passes responses to the send thread through
`SHARED_DATA`, a mutex and a condition variable, without a predicate. The
collector passes samples to the processing thread in the same way; the
processing thread's results go over a Unix socket to the first receive thread of
process3, which passes the bytes on to its `main` through a pipe.

What is hard. Unlocked shared state (slots); a timed wait without the mutex
locked; signals without a predicate, which are lost when nobody waits;
descriptor and slot numbers that are reused; streams that are cut anywhere; a
select loop that changes the set it iterates over. `PROJECT.json` lists each
hazard at its line, with the property that would catch it going wrong.

What makes each part correct: process1's slots are consistent and its clients
get their own answers, once and in order; a packet that is accepted is the
packet that was sent; every result of process2 is computed from one consistent
picture of the sensors; process3's streams arrive whole and apart.

## 2. Modules

| Module | Models | Kind |
|---|---|---|
| `Process1` | main, receive and send threads, clients, kernel descriptors | state machine |
| `ReplyService` | what process1 owes each client | abstract specification |
| `Process1Proofs` | theorems about the slots and descriptors of `Process1` | proofs |
| `Process1PromiseProofs` | theorems about what clients receive from `Process1` | proofs |
| `FrameFormat` | packets, checksum, sizes, dispatch, in bytes | operators |
| `Framing` / `MCFraming` | the byte stream through one receive thread / its value sets | state machine |
| `FramingLemmas` | packets and chunks: checksum, length field, format check | proofs |
| `FramingProofs` | theorems about `Framing` | proofs |
| `SensorFusion` / `MCSensorFusion` | collector and processing threads, sensors, consumer / the connections of its run | state machine |
| `FusionService` | what process2 promises its consumer | abstract specification |
| `SensorFusionProofs` | theorems about `SensorFusion` | proofs |
| `Process3` | both receive threads, pipes, main, servers | state machine |
| `StreamPipe` | what process3 promises of each path | abstract specification |
| `Process3Proofs` | theorems about `Process3` | proofs |
| `Pipeline` / `MCPipeline` | process2 and process3 composed / the connections of its run | composition |
| `PipelineProofs` | theorems about `Pipeline` | proofs |

### Process1

One action per statement another thread can observe. A connection is numbered in
the order of accept; `owner` is the kernel's table of descriptors, from which
`accept` takes the lowest free number. `iClientSock`, `bExitFlag`, `chData`,
`iDataSize` and `mutex` are functions of the slot, named as the fields.
`SockOf(c)` is the descriptor a thread finds in its slot *now*, `Reached(c)` the
connection that descriptor refers to *now*: a stale read is a read of the current
value at a later step. The mutex is a default mutex: unlocking it does not check
the owner, and `pthread_cond_timedwait` unlocks it even if this thread never
locked it (`SendWait`). That is undefined in POSIX; the model has what the
library the program is built with does, and `SendRelock` gives the mutex back to
the thread that returns from the wait. `SHARED_DATA` holds two halves, size and
data, each the pair `<<connection, request>>` it answers, so a torn copy or a
response for another client shows.

The exit flag's own mutex guards single loads and stores (send-thread.c:30-35,
recv-thread.c:98-100), which the model does in one step each;
main's store at process1.c:75 does not take it, which makes no difference to a
Boolean.

`found` is a history variable: what main has seen in each slot during its present
search, which `TurnedAwayWhenFull` is about. Nothing reads it but the property.

A request is two units, a header and the rest; a chunk may end behind any unit.
`Framing` shows which chunks are served (section 4).

Outside the code: `SendRequest`, `EndConnection` (`"closed"` or `"reset"`),
`FreeFds`, `Reached`.

### FrameFormat, Framing

`FrameFormat` has the packed structs as byte sequences, the checksum as a recursive
function over the bytes, and `getTotalRecvSize` with the wrap of its conversion to `int`.
`Framing` writes requests of two kinds of clients to a stream (packets as
documented, and the packets `makeRecvPacket` builds for the tests), may change
one byte on the way, cuts the stream into chunks of at most `BUFFER_SIZE`, and
records the last chunk that was served with its format status and its response.
`dispatchCommand` has no value for the sensor commands 100..103, whose handlers
(command.c:40-77) write a `SENSOR_DATA` into and behind a response sized for one
sensor: `Serve` leaves open what such a response holds (`Overwritten`), and
`NoSensorCommand` shows that the case does not occur.

### SensorFusion

The collector's pass over `readSet` visits descriptors in order, as the code
does; a connection accepted in a pass is in no `readSet` until the next. A
connection `<<s, i>>` is the i-th of sensor `s`: a sensor may close and connect
again while its old connection still waits to be read, as two runs of
`sendDataRepeated` (gtest-sensor-integration.cc:68) would. A sample is its
number, counted over the connections of its sensor, and each sensor's struct is
two halves that are written and copied in separate steps, so a picture mixed from
two samples shows. `stored`, the last sample stored of each connection, is a
history variable. A wait that times out is a step the thread may always take:
the model has no clock. The consumer connects once process2 listens and may
leave; results for a consumer that has gone are lost and change nothing else.

`received`, `copyFirst` and `copyRest` are reset when what they hold is dead, which
leaves fewer states and no behaviour out.

### Process3

The two threads differ only in their socket and pipe, and are one definition for
the paths `"ctrl"` and `"cmd"`. A unit of data is its path and its place in that
path's stream. `main` drops what it reads; the model keeps it in `delivered`. The
servers are those of the stubs of gtest-controll-pipeline.cc; one that starts
after the thread has tried to connect is never heard (`tpc = "failed"`).

### Pipeline

`Pipeline` instantiates `SensorFusion` and `Process3` and identifies what they share:
`ListenForConsumer` and `SendResult` of the processing thread are `ServerStart` and
`ServerSend` of the `"ctrl"` path, and `ConnectServer` of recvProcessingDataThread
is `ConsumerConnect`. Every other step belongs to one process. The consumer does
not leave there (recv-processing-data.c never closes its socket) and nobody
serves the `"cmd"` path.

## 3. Properties

Process1
- `ReceiverOwnsSlot`: a receive thread reads from and closes the connection it
  was created for, alone in its slot.
- `SlotHandover`: a slot's descriptor changes from empty, or to empty by the
  thread that closed that descriptor.
- `NoDescriptorLeak`: a receive thread past its loop has closed its connection. A
  client that resets the connection before the thread has started costs the
  descriptor and the slot (recv-thread.c:32-35); no other descriptor leaks, the
  slot leads to that dead connection for good and nobody is served in it.
- `SharedDataExclusion`: no response is written while it is being copied.
- `KeepsPromise`: `Process1` implements `ReplyService`: the responses a client
  receives answer its own requests, each at most once and in order.
- `TurnedAwayWhenFull`: a client is turned away only when main, in this very
  search, found in every slot the descriptor of another client that was given the
  slot; a slot that holds something else by now was left by that client since.
- `ThreadsEnd`, `ResponseStored`, `SignalledReplyArrives`: liveness, for a single
  client. Both threads end after the client has closed; after a reset they need not
  (the send thread goes on for good when it had started before the reset and the
  receive thread had not). A response whose signal was heard reaches the client
  unless it is overwritten; what arrives in its place is then a later response, or
  a torn mixture of it and later ones, and the property counts both. For the next client of a slot `ResponseStored` fails
  (`Process1_dead_slot`), and with it `ThreadsEnd`.

Framing
- `FormatCheckExact`: the format status is OK only for requests as sent, however
  the stream is cut; it is OK for all that are built as documented, and of those
  that `makeRecvPacket` builds exactly for the commands whose request and response
  have the same size.
- `CorruptionReported`: a changed byte is reported, except a change by one that
  swaps the checksums 0xFF and 0x00, which frame-format.c:19 makes equal.
- `ServedIsWhole`: of the chunks `Process1` knows, only whole requests are served.
- `WholeIsServed`: and every request that arrives unchanged in a chunk of its own is.
- `NoSensorCommand`: no chunk is taken for a sensor command, although the byte where
  the command stands may be a payload or a checksum of 100 to 103.
- `ResponseWellFormed`: the client's own check accepts every response.

SensorFusion
- `SetsMatchConnections`: `masterSet`, `readSet`, `iMaxFd` and the open
  connections agree at every step.
- `KeepsPromise`: `SensorFusion` implements `FusionService`: each result is made
  from one consistent picture of what was stored, and on one connection samples
  never run backwards.

Process3
- `StreamIntact`: what main has read, what is on the way and what waits is, in
  this order, exactly what the server sent.
- `KeepsPromise`: `Process3` implements `StreamPipe` with its liveness: main reads
  the stream of each path in order and without gaps, and in the end all of it.

Pipeline
- `ResultsIntact`: what process3's main has read and what is under way to it are the
  results process2 has computed, whatever the order of starting; when process3
  came too early, process2 waits for its consumer for good.
- `ResultRead`: a sample whose signal was heard is answered by a result of its own,
  which main reads to its end.
- `SampleStored`, `SensorReleased` (of `SensorFusion`): the first sample that waits
  on a connection is stored, with or without a consumer, and the descriptor of a
  sensor that has left is closed.

## 4. Runs and bounds

| Run | Checks | Bounds, and why they are enough |
|---|---|---|
| `Process1_slots` | slots and descriptors | Two slots, three connections that may overlap or follow one another, each of which may be reset: a slot and a descriptor are used again, a third client finds the table full, or finds a slot that was freed before or behind it. The clients send nothing: what main and the receive threads do with slots and descriptors does not depend on it. |
| `Process1_pipelined` | types, `ThreadsEnd`, `ResponseStored`, `SignalledReplyArrives` | Two outstanding requests of three, chunks of one to four units, one spurious wakeup, the client may close or reset: a response can be overwritten, torn and lost. Every action of the threads occurs. |
| `Process1_isolation` | `SharedDataExclusion`, `KeepsPromise` | Two clients in two slots, three requests each, one outstanding: a repeated, reordered or stale answer needs two requests. |
| `Framing_cuts` | types, format check, responses, `ServedIsWhole`, `WholeIsServed`, `NoSensorCommand` | Three requests, cuts behind every byte, both kinds of clients, payloads that make the sums 0x00 and 0xFF, and the payload 100, a sensor command's number. |
| `Framing_garbled` | `CorruptionReported` | One request, any byte changed to any value but 100..103, which `FramingAssumption` excludes. |
| `SensorFusion_picture` | consistency | EXTERN1 with two connections, EXTERN4 with one, three descriptors, two samples each, which may coalesce; the consumer may leave. Either EXTERN1 reconnects or one wakeup comes without a signal (`OneDisturbance`). Old and new connection of a sensor overlap in one pass, and a result can be mixed from two samples of each sensor. |
| `Pipeline_results` | results to the end, liveness of process2 | EXTERN4 with two connections, one sample, one wakeup without a signal: two results, in buffers of two units. |
| `Process3_streams` | streams | Messages of three units in buffers of four and reads of three, pipes of five; three messages per path overfill the pipe. |

Violation runs: `Process1_lost_response`, `Process1_torn_copy`,
`Process1_stale_socket` and `Process1_dead_slot`, with one or two connections and one
slot; each checks one statement of a comment and is a finding of `PROJECT.json`. In
each the behaviour TLC prints is one the C code has, step by step.

What `KeepsPromise` and `SharedDataExclusion` presume. They hold for clients that
have one request outstanding, without spurious wakeups, and that keep their
slot. With two outstanding requests the copy can be torn (`Process1_torn_copy`),
with a client that leaves a response can go to the next one
(`Process1_stale_socket`); a spurious wakeup sends whatever the slot holds again
(send-thread.c:41, no predicate). The runs that pass say under which conditions
the code keeps its promise, the violation runs why no wider ones will do.

The cuts. `ServedIsWhole` and `WholeIsServed` justify the two units of `Process1`:
of the chunks that begin and end between packets or behind a header, the length
test (recv-thread.c:49-56) lets the whole requests through and nothing else. Cut behind any
byte, a chunk that starts inside a packet may pass the length test: for
KEEP_ALIVE a chunk of 16 bytes from offset 5 or of 14 bytes from offset 6. Such
a chunk is dispatched, because the format status is ignored (recv-thread.c:57);
`FormatCheckExact` shows that the status would refuse it.

The dead slot. A receive thread frees its slot (recv-thread.c:43) before it raises
the exit flag (:99), and a send thread raises it again when it leaves
(send-thread.c:57). In between main may have given the slot to the next client
and cleared the flag (process1.c:75). The flag then ends the next client's send
thread; when that thread's wait has just timed out it holds the mutex and leaves
with it locked (send-thread.c:31-33), and the client's receive thread blocks at
recv-thread.c:76: the slot never serves or ends again.

The packets of the tests. `makeRecvPacket` places the tail behind
`getSendCmdSize(nCmd)` bytes (frame-format.c:70) and announces
`getRecvCmdSize(nCmd)` (:76). For IBIT, RBIT and CBIT, whose requests have one byte
and whose responses two, the tail is misplaced and the format check fails. The
tests do not notice, because receiveThread ignores the status.

The same models show more of what comments and tests say and the code does not do.
No run is kept for these; each is the formula given, checked with one slot or
sensor and one or two connections or samples:

- process1.c:25, threads for every connected client:
  `peer[c] = "open" ~> (rpc[c] # "none" \/ peer[c] # "open")` fails under
  `FairSpec` when the table is full: the connection stays open and unserved.
- gtest-sensor-integration.cc:125, ten results for ten EXTERN4 samples:
  `(sampled[4] = n /\ consumer = "connected") ~> Len(results) >= n` fails under
  the `FairSpec` of `Pipeline`: the signal of a sample is lost while the processing
  thread is not waiting.
- gtest-sensor-integration.cc:132, every result is the sum over all sensors:
  `results[i].rest[s] # 0` in `SensorFusion` fails: EXTERN4's first sample may come
  before the others', and the picture then holds the number 0, which stands for
  data never sent.
- gtest-controll-pipeline.cc:98, every read is the next message: the steps of
  `ReadPipe` do not add `MsgLen` units each; messages that arrive together are read
  together.

Deadlock is checked where somebody can always move (`Process1_isolation`, whose
send threads time out again and again, and `SensorFusion_picture`, whose
processing thread does); elsewhere the system is idle for good once its finitely
many clients, requests and messages are used up, or because process3 was started
too early, and the configuration says so.

Every property has a mutant: a definition with a plausible bug (a dropped guard, a
missing unlock, a wrong bound) under which its run fails. The mutants stand in the
modules before the definition they vary and are used by nothing else.

## 5. Fairness

Every thread is scheduled (weak fairness of each thread's next step), a timed wait
returns, and a thread that waits for a mutex that is free again and again gets it
(strong fairness of the lock steps). The last is what the code needs: a send
thread frees the mutex for a second at a time, the collector and the processing
thread each hold theirs for a bounded piece of code. No fairness is assumed of
clients, sensors, servers or spurious wakeups. In `Pipeline` the thread fairness is
that of the composed steps (`collecting`, `processing`, `receiving`, `reading`), with
strong fairness of the three lock steps of process2. The liveness properties are about
what was received or signalled; that a *lost* signal has no consequence is exactly
what `RequestAnswered` refutes.

## 6. Proofs

### Process1Proofs

For any number of slots, connections, requests, any window, any chunk sizes and
any number of spurious wakeups:

- `TypeCorrect`: `Spec => []TypeOK`
- `OwnSlot`: `Spec => []ReceiverOwnsSlot`
- `NoLeak`: `Spec => []NoDescriptorLeak`
- `Handover`: `Spec => SlotHandover`
- `TurnedAway`: `Spec => TurnedAwayWhenFull`

They rest on `Process1Assumption` only. `ReceiverOwnsSlot` is not inductive: that a
slot holds the right descriptor says nothing about who is about to empty it or to
reuse the number. `IInv` adds to the types what each thread holds at each point:
`KnownSlots` (threads know their slot), `SlotsHeld` (a receive thread up to and
including its store of 0 holds its slot, alone), `FdsOwned` (up to its close its
descriptor refers to its connection), `Placing` (what main holds while it fills a
slot), `OneFdEach` (a connection has at most one descriptor) and `Closed` (past
the close it has none). The argument in one sentence: a slot is taken only when
it is 0, and the only store of 0 is made by the thread that holds the slot, after
the close and before it gives the slot up; so although the close frees the
*number* early, nobody can be given the *slot* that still carries it. The proof
has one step per action; the many steps that leave slots, descriptors and
main's counter alone share `QuietStep` and `ServingStep`.

`NoLeak` also needs what becomes of a slot whose client reset the connection before
the receive thread had started: `HoldsSlot` counts such a client (`Lost`) as the
holder of its slot and of its descriptor, for good. `TurnedAway` adds `SlotsGiven`:
what main has found in the slots it has passed is the descriptor of a connection
accepted before the one it places, which was given that slot and still has it or
is past its loop.

### Process1PromiseProofs

What clients receive depends on what they do, and the theorems say on what. `Calm`
is a condition on states: no client has left, none has more than one request
outstanding, no wakeup was spurious. For any number of slots, connections and
requests and any chunk sizes, from `Process1Assumption`:

- `CalmExclusion`: `Spec /\ []Calm => []SharedDataExclusion`
- `CalmPromise`: `Spec /\ []Calm => KeepsPromise`, the refinement of `ReplyService`
- `CalmClients`: `Window <= 1`, `PeerEnds = {}` and `MaxSpurious = 0` imply `Spec => []Calm`
- `Exclusion`, `Isolation`: for such constants, which are those of
  `Process1_isolation`, `Spec => []SharedDataExclusion` and `Spec => KeepsPromise`

None of the three conditions can be dropped: with one slot, TLC finds both
properties violated with `Window = 2`, with `PeerEnds = {"closed"}` and two
connections, or with `MaxSpurious = 1`, the others being as above.

The code has no predicate that would make the two threads take turns; what does
is that the client waits. `ServedInv`, on top of `IInv`, says this at every
point: nobody is on the way out (`NobodyLeaves`), the i-th response of a client
answers its i-th request (`InOrder`), while the receive thread stores, the send
thread is not between its wakeup and its send, and what the one has stored and the
other copied so far is of the latest request, the one outstanding (`StoresLatest`,
`SendsLatest`). `SharedDataExclusion` is a consequence, without any argument about
the mutex, which is sound, because the timed wait of send-thread.c:41 unlocks a
mutex it does not hold.

### FramingLemmas, FramingProofs

For any commands of the table whose request has one byte, any payloads, clients
and cuts, any values a byte is changed to except 100..103, and any number of
requests, from `FramingAssumption`:

- `TypeCorrect`: `Spec => []TypeOK`
- `NoSensorServed`: `Spec => []NoSensorCommand`
- `Answers`: `Spec => []ResponseWellFormed`
- `Reports`: `Spec => []CorruptionReported`
- `ServesWhole`: `Spec => WholeIsServed`
- `Whole`, `StatusExact`: if `GarbleTo = {}`, `Spec => []ServedIsWhole` and
  `Spec => []FormatCheckExact`
- `Exact`: the last two for any `GarbleTo`, whenever the byte that was changed is
  not in the chunk answered last

Without the condition both fail, with `GarbleTo = {16}` for example: a length field of
16 lets two requests that arrive together pass for one (`Whole`), and the format
status of a request whose payload has changed is not OK (`StatusExact`).

`FramingLemmas` is about one packet. The checksum is a recursive function, of which
the provers know nothing until it is shown to exist, and induction over data is
out of their reach; its lemmas (the function exists, is unique, sums of bytes are
bytes, changing one byte by d changes the sum by d) are arguments by a least
counterexample, from the well-foundedness of the naturals. On these rest
`CorruptionSeen` (which changes of a byte the format check misses), `CrcType` (no
checksum is 0xFF, so none is half of an ETX) and, with lemmas about the length
field and the fields of a header, `ResponseAccepted` (for every command but the
sensor commands, which `dispatchCommand` does not cover) and `RequestStatus`.
`TotalSize`
and `CompleteSize` are about the wrap of `getTotalRecvSize`: for every length field
the result is the exact size or negative, and a chunk whose size wraps is never
complete.

The inductive invariant of `FramingProofs` is the types with `RequestsIntact` (the
stream, with the changed byte put back, is a sequence of requests), `GarbledOnce`
(the changed byte differs from what was sent and is one of `GarbleTo`) and
`ServedSound` (the chunk answered last is a part of what was read, fits the buffer,
has the size its length field says, and was answered by `Serve`). `NoSensorServed`
is a matter of positions: where the command is read, a byte of 100 to 103 is the
payload, the checksum or the byte behind it of a request; then the upper half of
the length field and the high byte of the command lie on bytes of the same request
of which two would have to have changed. `Answers` follows, because the response
to every other command is accepted. `ServedIsWhole` follows because a chunk behind a header has
the next packet's STX in the upper half of its length field, so its length is
negative; `FormatCheckExact` because two bytes 0xF0 in a row occur in a request
only at its start and, if payload and checksum are 0xF0 both, behind its header.

### SensorFusionProofs

For any connections, descriptors, samples, window up to three and number of
spurious wakeups, from `SensorFusionAssumption`:

- `TypeCorrect`: `Spec => []TypeOK`
- `SetsMatch`: `Spec => []SetsMatchConnections`
- `MutualExclusion`: no sample is stored while the samples are copied
- `Implements`: `Spec => KeepsPromise`, the refinement of `FusionService`

The inductive invariant joins to the types and `SetsMatchConnections`: `Backlogged`
(a connection waits once to be accepted and has no descriptor yet, so accepting
never gives it a second one), `Locked` (the holder of the mutex is the thread
whose counter is between its lock and its unlock), `OnePicture` (outside the
collector's two writes the halves of every sensor agree, and so do the halves of
the copy once it is complete) and `InOrder` (what waits on a connection, or has
been received from it, is newer than what was stored of it).
`OnePicture` is why the copy refines `Take` in one step, at `CopyRest`, and
`InOrder` why a store refines `Sample`, which only goes forward. Every other step
of the threads is a stutter of `FusionService`.

### Process3Proofs

For any message length, buffer and pipe sizes and any number of messages, from
`Process3Assumption`:

- `TypeCorrect`: `Spec => []TypeOK`, with the bounds of buffers and pipes
- `Intact`: `Spec => []StreamIntact`
- `Implements`: `Spec => Pipe!Spec`, the safety part of `KeepsPromise`

`IInv` is the types, `StreamIntact` and `PassedOn`: a thread that waits for data has
passed on all it had. The proof rests on lemmas about cutting a sequence in two
and joining it again, and about `Stream(k, n)` as the prefix of a longer one.

### PipelineProofs

For any sensors, samples, results, buffers and pipes, from `PipelineAssumption`,
which says that the constants meet the assumptions of both parts:

- `IsSensorFusion`, `IsProcess3`: a behaviour of `Pipeline` is one of `SensorFusion` and
  one of `Process3`
- `Intact`: `Spec => []ResultsIntact`
- `PromisesKept`: both promises, `FusionService` and `StreamPipe`, hold of it

The first two are what makes the composition more than the sum of its actions: no
step of the one process, seen from the other, is anything but a step of its
environment. So the invariants of both parts hold in it, and with them
`Coupled`, which relates the state of the socket as process2 sees it to the one
process3 sees, is inductive; `ResultsIntact` follows from it and `StreamIntact`.

### Only model-checked

The liveness properties: `ThreadsEnd`, `ResponseStored` and `SignalledReplyArrives` of
`Process1`, `ResultRead`, `SampleStored` and `SensorReleased` of `Pipeline`, and the
liveness of `Process3`'s promise. All need fairness, hence ENABLED, which is out of
the prover's reach. That the violation runs' properties fail is shown by TLC's
counterexamples.

## 7. What could come next

- Chunks that end inside a sensor packet: the collector then dispatches a header
  with the rest of the buffer left over from before. It needs the bytes of
  `Framing` in `SensorFusion`, and the lemmas of `FramingLemmas` for packets of other
  sizes.
- For `Process1`, what clients that leave can still rely on: a condition weaker than
  `Calm` under which a client that stays gets its own responses while its
  neighbours in other slots come and go.

## 8. Not modelled

- `process2.c`: an older version of the collector with a `main` of its own. It
  includes headers that are not in the repository and calls `checkPacketFormat`
  with two arguments; it does not compile. The program that starts the collector
  and the processing thread is the integration test.
- `logger.c`, `printPacketFormatError`, `getCmdName`: output.
- The submodules `tcp-sock` and `uds`, whose sources are not here. Receive calls
  return what waits, up to the buffer; 0 is the end of the stream for process1
  and the collector, and the timeout of process3's `udsRecvMsgTimeout`. A send to a
  peer that has gone is taken to return an error, not to raise SIGPIPE.
- Chunks of sensor packets that end inside a packet: `Window` of at most three
  packets of 38 bytes in a buffer of 128 excludes them.
- Failures of `accept`, `pthread_create`, `malloc`, `select`; signals; descriptors
  beyond `FD_SETSIZE`.
- Sensor commands (100..103) sent to process1's TCP port, or written into a request
  on the way: the id ranges are documented in cmd-handler.h:8 and not enforced.
  `FramingAssumption` excludes both, and with it no theorem is about them.
