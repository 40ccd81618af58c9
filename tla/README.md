# sircond: specifications, model checks and proofs

`sircond` is a daemon that drives a SiriusConnect satellite radio over a serial
line and offers it to TCP clients as a line protocol. This directory holds TLA+
models of its concurrent and protocol code, the TLC configurations that check
them on small instances, and theorems checked by TLAPS for all values of the
constants. Everything is translated from the C++ sources; `PROJECT.json` maps
each definition to the lines it models and gives, for each property, a mutated
definition under which TLC finds the property violated.

To run something: `tlc -config MCDaemon.cfg MCDaemon.tla` or
`tlapm ScpSenderProofs.tla`.

## 1. Inventory

Process structure: one `CDaemon` (main thread) owns one `CSirServer`, which is a
`SERVER` (TCP, its own thread) and an observer of the radio. It owns one
`CTTS100`, which is a `CSirCon` (the radio task, its own thread). The radio task
owns a `CTimer` (a third thread). All threads are `CTask`s.

| component | source | state | operations | interacts with |
|---|---|---|---|---|
| control arbiter | `sirserver.cpp` | `m_controller`, `m_control_queue` | `AcquireControl`, `ReleaseControl`, `Process...`, `OnDrop` | called from the connection server's pass; waits for futures of the SCP sender |
| connection server | `server.cpp`, `client.cpp`, `sirclient.cpp` | `m_clients`, sockets, receive and transmit buffers, `m_mutex` | `OnRun`, `OnConnect`, `Drop`, `Broadcast`, `Send`, `ProcessData`, `OnExit` | `Broadcast` is called by the radio thread |
| SCP sender | `sircon.cpp` | `m_queue`, `m_seq`, `m_busy_timer`, `m_link_alive`, `m_link_fail_cnt` | `Send`, `ComposeFrame`, `TimerProc`, `OnTimeout`, `OnACK`, `OnExit` | callers, timer thread and radio thread at once |
| SCP receiver | `sircon.cpp` | `m_stagebuf`, escape flag, `m_last_seq` | `Read`, the parse loop of `OnRun`, `SendACK`, `Dispatch` | resets `m_busy_timer`; notifies the server |
| stream buffer | `sobuf.cpp` | memory, position, length | `MarkRead`, `GetWriteLen`, `MarkWritten` | receiver, clients |
| task lifecycle | `ctask.cpp`, `ctimer.cpp` | `m_state`, `m_shutdown`, the thread | `Start`, `Run`, `Stop`, destructor | every task |
| daemon main | `sircond.cpp` | signal mask, pid file | `Init`, `Run`, `Shutdown` | polls and stops the server |
| client commands | `sirserver.cpp`, `sirclient.cpp`, `util.cpp`, `sircon.cpp` | three handler tables | `StrTokenize`, `ProcessCommand`, `Validate...`, the requests of `CSirCon` | between a client's line and the SCP sender |
| event dispatch, cache | `sircon.cpp`, `sirserver.cpp`, `observer.h` | `m_curr_channel` | `Dispatch...`, `Notify`, `Update`, `OnSCE...` | radio thread to clients, partly under `m_mutex` |
| event types | `scevents.cpp`, `scevents.h` | the fields of an event | `deserialize`, `operator<<` | event dispatch |
| TTS-100 handshake | `timetrax.cpp` | none kept | `OnStart`, `QueryVersion`, `Authenticate` | before the radio task runs |
| log | `log.cpp` | `s_file`, `s_mutex` | `LogOpen`, `LogWrite`, `LogReopen`, `LogClose` | every thread |
| serial ports | `serial_*.cpp` | a file descriptor | `SetDataRate`, `Send`, `Recv` | handshake, receiver, sender |
| utilities | `util.cpp`, `pgetopt.c` | none | strings, options | |

What is hard in it, and what would make it correct:

* **Connection server and arbiter.** Clients come, ask for control, hang up and
  are dropped in any order while the pass holds an iterator into `m_clients`;
  the radio thread sends events into the same buffers. Correct means: one
  controller, first come first served, no pointer to a client that left, no
  client that believes what is no longer true, nobody waits for ever.
* **SCP sender.** Three kinds of thread share a queue and four unprotected
  variables; acknowledgements are lost, late or repeated, and sequence numbers
  wrap. Correct means: one verdict per frame, in order, SUCCESS only for frames
  the radio accepted (as far as the unlocked `m_seq++` lets numbers tell frames
  apart), and a verdict in the end.
* **SCP receiver.** Bytes are lost or altered and arrive in arbitrary pieces.
  Correct means: no intact frame is lost to resynchronisation, repeated frames
  are filtered, acknowledged frames are dispatched, the buffer never jams. A sum
  of eight bits cannot refuse all damage, and the properties say so.
* **Lifecycle.** Start-up polls, joins, signals, and a wait cycle between the
  server thread (mutex held, waiting for a future) and the radio thread (waiting
  for the mutex, and the only reader of acknowledgements). Correct means:
  start-up resolves, the wait cycle is broken, shutdown ends the process.

* **Commands and events.** A number goes from text through casts, shifts and masks
  into a frame, and back through others; every message of the radio has its own
  offsets. The radio thread sends to clients under the mutex or, for results, under
  no lock at all, while the server thread fills and empties the same buffers.
  Correct means: values survive the way, signs included; every event is told as it
  was reported; each client gets the octets accepted for it, once, in order;
  the cached channel is the one that clients were told.
* **Handshake.** Nothing says which question an answer belongs to, and answers come
  after their time-out. Correct means: success only with a device that is open, as far
  as the values of octets tell one answer from another.
* **Log.** All threads write, one closes and opens the file again on a signal.
  Correct means: nobody prints to a closed file.

`PROJECT.json` lists these hazards line by line, with the property that covers
each, or the reason why none does.

## 2. Modules

    ControlLock      what the control lock promises      ScpService   what Send promises
         ^  implemented by                                    ^  implemented by
    ControlArbiter   connection server + arbiter         ScpSender    queue, timer, acknowledgements

    ScpDispatch      layouts of messages, Dispatch       ScpReceiver  bytes, frames, duplicates
         ^  EXTENDS                                           |  INSTANCE
    ClientCommands   a line to a request                 SlideBuffer  SOBuffer
         ^  EXTENDS                                           |
    EventPath        a message to the clients -- INSTANCE ----'

    Daemon           main, server, radio, timer task
         |  EXTENDS
    TtsHandshake     OnStart of the radio task           Log          the log of all threads

    SequenceLemmas            <- every module of proofs but SlideBufferProofs
    ControlArbiterProofs,  ScpSenderProofs,  DaemonProofs
    SlideBufferProofs    <- ScpReceiverProofs,  EventPathProofs
    MessageProofs        <- EventPathProofs
    MCControlArbiter, MCScpSender, MCScpReceiver, MCEventPath, MCDaemon   for TLC

**ControlArbiter.** `pc` is where the server thread is: in `select()`, visiting
`m_clients[i]`, in `ProcessData` with the `lines` still to process, waiting for
a future, transmitting, in `OnExit`. `m_mutex` is held in every one of these but
`select` and `stopped`, which is why `Broadcast` needs one of the two.
`NotifyController` takes no lock, as in the code, and may run at any time. A
transmit buffer is empty or not; a `Send` to a non-empty one may be refused, and
the caller ignores that, as in the code. `told` is a history variable: the last
CONTROL message put in the buffer, `LOST` if refused; `revived` is another: the
clients that asked for control after they had been dropped. Data that ends inside a
line is the line `"PARTIAL"`: `ProcessData` has no step then, because its outer
loop spins.

**ScpSender.** Each load and each store of an unprotected variable is an action
(`ComposeLoad`/`ComposeStore` for `m_seq++`, `BusyLoad`/`BusyStore` for
`m_busy_timer--`, `CountLoad`/`CountStore` for `++m_link_fail_cnt`). What runs
under `m_queue_lock` is one action, or disables the others (`QueueUnlocked`).
Frames carry an `id`, their number in the order of composition, which no guard
of the code's actions reads. `received` records what the radio accepted, and `raced`
that one thread has read `m_seq` between another's read and its write. The radio
thread tests `m_shutdown` before it enters `Read` (`EnterRead`), not when bytes come.
**ScpService** has the frames without a verdict as a queue, and nothing of retries,
numbers, timer or line; after a `Collide` it promises the order, but not what
SUCCESS is about.

**ScpReceiver** works on bytes. `ReadLine` is one call of `Read` with any
number of the bytes under way, `NeedMore`, `Resync`, `BadChecksum`, `Dispatch`
and `IgnoreDuplicate` are the turns of the parse loop. `arrived`, `consumed`,
`accepted`, `acked` and `dispatched` are history, and so are `lineFrame` and
`arrivedFrame`: for every byte on the line and every byte read, the frame it was
sent for. `ValidateChecksum` is that of the code: the sum of the message, modulo the
number of byte values, is 0. A message that passes by chance and is not the frame its
bytes were sent for is taken as `NoFrame`; `Collision` says that one was.

**SlideBuffer** has no behaviour of its own: its operators are the member
functions of `SOBuffer` on a record of memory, position and length. `MakeRoom`
is the effect of `GetWriteLen`, which slides the data.

**ScpDispatch** has no state. `GetRequest` and `SetRequest` are the messages that
`CSirCon`'s requests compose, `Dispatch` is what becomes of an answer or a
notification: a sequence of stores to `m_curr_channel` (`Tune`) and calls of `Notify`
(`Tell`), in the order of the code. `Octet` reads behind the end of a message as the
code would (`Behind`), and lengths wrap around as `uint32_t` does (`Minus`).

**ClientCommands** has no state either. `ProcessCommand` takes the tokens that
`StrTokenize` makes of a line through the handler tables; the result is a request, the
answer ERROR, or nothing at all. Characters are pairs; a name or a numeral is a single one.

**EventPath** runs the radio thread through the outcome of `Dispatch`, step by step, to
`Broadcast` (under `m_mutex`) or `NotifyController` (under no lock), against the passes
of the server thread, which runs the clients' lines through `ProcessCommand`. `call[t]` is the `CLIENT::Send` that thread `t` is in: room is
checked, octets are copied, and `MarkWritten` is called in three steps (`Reserve`,
`Copy`, `Mark`), and `TransmitData` takes its own (`TransmitBegin`, `TransmitSend`,
`TransmitMark`). Buffers are those of `SlideBuffer`. The radio's messages are composed
from events by `Encode`, independently of `Dispatch`. An octet of text is a pair of
the line it belongs to and its distance from the end.

**TtsHandshake** is `CTTS100::OnStart` with a device and a line that deliver late, drop,
or add noise. An octet is what it was sent as, its number, and its value; the host and the
device test the value only, and noise and the part of a challenge that counts have any
value of `AnyValue`, also one that the host looks for. `mistaken` is history: an octet has
passed for another of its value. **Log** has the unlocked look at `s_file`, the lock and the print of
`LogWrite` as three steps, and `LogReopen` as three. Both state only their own
actions, for **Daemon** to compose.

**Daemon** reduces the other models to what the threads wait for: the mutex, one
promise, a join, a signal; the handshake runs where the radio task starts, and each
thread may call `LogWrite` at any time. `Raise` is the kernel's part: a signal that
is not blocked kills the process. A pass of the server thread may never end
(`PassHangs`: a line without its end, a `send()` that blocks), the radio task may start
without the thread of its timer, whose `Start` nobody looks at, and a promise that is
deleted, or a second join, aborts the process.

## 3. Runs

| run | result | what it shows |
|---|---|---|
| `control` | pass | 3 clients (symmetric), up to 2 lines per `recv()`, the last of which may lack its end. `QueueOK`: nobody waits twice, for itself or for a free lock. `HoldersAttached`: no dangling pointer in the lock. `ClientViewAccurate`: what a client was last told is true. `ExclusiveWrites`: no SET is at the radio for a client that is not the one controller. `DroppedReleased`: a dropped client neither has control nor waits for it, unless it asked again after its drop. `ImplementsLock`: refinement of `ControlLock`. Deadlock is checked (a shutdown flag may always be set again). |
| `control_live` | pass | 2 clients, up to 2 lines per `recv()`, whole or not, and a server thread that is fair but for its waits. `WaitersServed`: who waits is served if nobody keeps control for ever. `ShutdownCompletes`: a shutdown ends with every client dropped, unless the server thread stays for ever in `result.get()`, in `send()` or in a line without its end. |
| `control_quit` | violation | With 2 lines per `recv()`, `DroppedHoldsNothing` fails: `QUIT`, then `CONTROL ACQUIRE`. |
| `control_partial` | violation | `ProcessDataReturns` fails: a line without its end keeps `ProcessData` in its loop. |
| `sender` | pass | 2 callers (the server thread and the radio thread), 3 frames, 2 sequence numbers. `OkUnlessRaced`: SUCCESS is for a frame the radio accepted, until an increment of `m_seq` is lost. `StopAndWait`: on the line are copies of the front frame and of frames that have their verdict. `ImplementsService`: refinement of `ScpService`. `EventuallyResolved`: with fair timer and radio threads, no queued frame waits for ever for its verdict. |
| `sender_seq_race` | violation | 2 callers: `OkMeansReceived` fails, two frames have one sequence number. |
| `sender_after_exit` | violation | `NobodyLeftWaiting` fails: a frame is pushed after `OnExit` emptied the queue. |
| `receiver` | pass | `StageIsFifo`, `RoomToRead`, `NoFrameSkipped`, `AlteredOctetRefused` (a frame with one octet altered is refused), `IntactIsAccepted` (nothing is refused while the line damages nothing), and, until damaged or misaligned bytes sum to 0 by chance, `InOrderOnce` and `AckedIsDispatched`; with every cut of the line into pieces, any repetition, and one damaged transmission. |
| `events` | pass | 2 clients, every asynchronous notification, the answer to every GET and SET of the event path. `IntactUnlessRaced`: what a client gets is what was accepted for it, once and in order, unless both threads were in its buffer at once. `AnnouncedIsCached`, `EventsAsReported`. `EventsGoOut`: what is accepted is sent. `TokensMakeTheLine`: for every command and every line one edit away, the tokens are the line. `SetIsReported`: the value that is set is the value an event would report. |
| `events_torn` | violation | `StreamIntact` fails: a result and a verdict are written to one place of the controller's buffer. |
| `daemon` | pass | With the handshake, the log, SIGHUP and SIGTERM at any time and each task failing at any point: `NoCircularWait`, `ServedOnlyWhenUp`, `PrintsToOpenFile`, `StartupResolves`, `OpenWhenAuthenticated` (`Authenticate` succeeds only with an open device, unless an octet has passed for another of its value), and `ShutdownCompletes`: the process ends, be it by an abort, unless the server thread is stuck for ever: in a pass that does not end, with a request that `OnExit` left behind, or with one that no timer times out. |
| `daemon_sigterm` | violation | `ReadHasPort` fails: SIGTERM deletes the port the radio thread reads from. |

Deadlock is not checked where the system really stops: the sender after
`OnExit`, the receiver when the bounded radio has sent everything, the event path
in an assertion or in a `send()` that blocks, the daemon when the process has ended.

The violations are disagreements between the code and what its comments,
assertions or documentation say of it; `PROJECT.json` quotes the lines.

### Bounds, and why they are enough

* `Clients`: three are the least with a controller and two waiters, whose order
  matters; identities are never compared otherwise. The liveness run has two: one that
  keeps control or gives it up, one that waits. `MaxLines` = 2: a second
  line is what distinguishes "dropped" from "dropped and still talking".
* `MaxFrames` = 3, `SeqSpace` = 2: the third frame reuses the number of the
  first. `SeqReusable` bounds the *environment*: nothing about a frame is still
  in the queue, staged or on the line when its number comes round. With 256
  numbers and one frame under way at a time that is what a serial line gives;
  the proof has the same premise for every `SeqSpace`.
* `WireCap`, `ReplyCap` = 1: one frame and one answer under way; with those in
  `stagebuf` there are two answers to two transmissions of a frame, the second of
  which comes late. A message put on a full line is lost, so the caps only add losses.
* `MaxRetries` = 2: a first transmission, one by the timer, any number for a NAK.
  `MaxLinkFailures` is 0 in `sender`: the first frame given up ends the link at the next
  turn of the loop, until which the radio thread goes on with what it reads, and the others
  in the queue are broken by `OnExit`; it is 1 in the violation runs, where the link revives. `BusyWrap` stands for 2^32: the counter that
  wraps is not 0, so that the timer waits again.
* Receiver: `ByteSpace` = 4 makes sums of damaged frames collide more often than 256
  values would, so that the exceptions of the properties occur. It holds the sentinel, the escape, the byte that stands
  for an escaped sentinel, and one more. The payloads put sentinel and escape
  in payload, header and checksum; `SeqSpace` = 3 makes the fourth frame reuse a
  number. `StageSize` = 7 is the least that holds a frame of the longest
  length a header can announce (`ReceiverAssumption`), as `SCP_MAX_PKT` is for
  the code. `LineCap`, `MaxSends`, `MaxDamage` bound what is under way, the
  transmissions and the damage.
* `RadioGoesOn` lets the radio give up frames, but not a whole round of
  sequence numbers, or two frames that follow each other would look alike.
* Event path: `BufSize` = 3 holds a short line (2) and half of another, so that data
  slides, a second line is refused, and `send()` takes a part. `TextSpace` = 3 is the
  `uint8_t` of `Broadcast`: the long line (4) is cut, the short one is not.
  `MaxReports` = 2 messages put a second event behind one that is still in a buffer;
  `MaxCommands` = 1 command races with them. `LenSpace` = 5000 stands for 2^32: it is longer
  than any message. Its values are those that tell fields apart:
  each field of an event has its own.
* Commands: `ClientLines` has each command once, and the numerals just inside and just
  outside of `int8_t`, `uint8_t` and `short`; the lines that race with the radio are two of
  these. One edit makes each of the errors that
  the tokenizer and the validators distinguish.
* Daemon: `MAX_AUTH_ATTEMPTS` = 2 is one failure and one retry; `BufLen` = 5 lets the end
  of one answer and a whole other one be read at once; `NoiseCap` and `MaxLines` = 1
  bound the noise on the line and the lines that each thread writes. Noise comes only
  while nothing else is under way, so an answer is not torn by it. `AnyValue` has the
  value of a success, so that noise may be taken for one, and is; that the end of a late
  challenge is takes a prompt in the challenge too, and the proof, which has any values. The
  rest is finite as it is.

### Fairness

* `ControlArbiter`: weak fairness of the steps that the server thread takes by itself
  (`RunsFree`). Nothing is assumed of the return of `result.get()`, which
  `sender_after_exit` shows may not come, nor of `send()`, before which nothing tests
  that the socket is writable. `ShutdownCompletes` excepts a server thread that stays in
  one of them, or at a line without its end (`StuckInPass`); `WaitersServed` needs no exception,
  because while the server thread is stuck whoever has control keeps it. No fairness of clients.
* `ScpSender`: weak fairness of the timer thread (it ticks every 100 ms) and of
  the radio thread (its `Read` has a timeout). None of callers, radio, line, or
  the port. `EventuallyResolved` excepts a radio whose data frames hit the race
  of `m_busy_timer` infinitely often: the counter is decremented below 0 then and
  really stops the sender.
* `EventPath`: weak fairness of the server thread and of each thread's steps inside
  `Send`, strong fairness of the radio thread (below). A client that stops reading
  blocks `send()`, and with it everybody; `EventsGoOut` excepts it, and an assertion
  that ends the process.
* `Daemon`: weak fairness of each thread's own steps and of the timer. Strong
  fairness of `EndPass`, because a pass that does not hang handles finitely many lines
  (each `Request` returns to the pass); that a pass may hang is a step of its own,
  `PassHangs`, and `ShutdownCompletes` excepts it by name, as it does a request that
  nobody resolves (`Orphaned`, `Untimed`). Strong fairness of the radio thread, because
  the server releases `m_mutex` and waits in `select()` between two passes, so that the
  radio thread is not passed over for ever. `TakeSignal("TERM")` is fair:
  `sigwaitinfo` delivers a pending SIGTERM however many SIGHUPs come. Strong fairness of
  the steps inside `LogWrite`: no thread waits for ever for `s_mutex`, which is held for
  one line.

## 4. Proofs

All proofs are checked by `tlapm` with SMT (Z3), Zenon and LS4.

* **ControlArbiterProofs**: `TypeCorrect`, `QueueCorrect`, `HoldersCorrect`,
  `ViewCorrect`, that is `Spec => []TypeOK`, `[]QueueOK`, `[]HoldersAttached`,
  `[]ClientViewAccurate`, for any set of clients and any `MaxLines`, assuming
  only `NoClient \notin Clients`, `MaxLines` a positive natural and `PartialLines`
  a Boolean. The inductive invariant `IInv` adds to the four properties that only accepted
  clients are in `m_clients` (`AcceptedOnly`) and that a client which is not
  connected has been told nothing (`DeadUntold`); without these, `OnConnect`
  could bring in a client that is already queued or that remembers a message.
  `IInv` is shown equivalent to a conjunction of a part about the lock, one about
  the buffers, one about the loop and one per client (`ViewOK`), and each
  handler is shown to preserve each part it touches.
  On the same invariant: `LockCorrect`, the refinement of
  `ControlLock`; `WritesExclusive`, with `SetHeld` (the client whose SET is at the
  radio has control) as the strengthening; and `DroppedCorrect` (`DroppedReleased`), for any
  `MaxLines`: only the client whose lines are processed asks, so one that is gone and has or
  awaits control has asked after its drop, and is in `revived`. For the
  refinement, `AskedBefore` is computed for a queue with one client more
  (`BeforeAppend`) or less (`BeforeWithout`, at any position), and `LockSteps` reduces
  the steps of all threads to the three ways in which they touch the lock.
* **ScpSenderProofs**: `TypeCorrect`, `OkCorrect` (`OkUnlessRaced`),
  `StopAndWaitCorrect` and `ServiceCorrect` (the refinement of `ScpService`), for any
  threads that send, any number of frames, and any sizes, from `SenderAssumption`.
  Part of the invariant holds however the threads interleave: frames are queued once,
  pending exactly while queued, and a copy on the line of a pending frame is of the
  front one (`QueueDistinct`, `PendingQueued`, `FrontOnly`). That is enough for
  `StopAndWait` and for the order of verdicts. The rest says `~ raced =>`: one thread
  at a time is inside `m_seq++`, so every frame's number is its `id` modulo `SeqSpace`
  (`NoLostIncrement`). Every message under way is about a frame composed before, and
  by `SeqReusable` all of these lie within one window of `SeqSpace` consecutive
  frames, on which taking the number modulo `SeqSpace` is injective (`ModInjective`); so an
  acknowledgement whose number matches the front frame is about the front frame,
  and it was sent because that frame was accepted. The exception is needed, as
  `sender_seq_race` shows; frames that are pushed in another order than they were
  numbered are not excepted.
* **SlideBufferProofs**: for every size of the memory and position of the data,
  `GetWriteLen` is 0 only for a full buffer (`RoomUnlessFull`), `MarkRead`
  removes from the front (`MarkReadContents`), and the three calls of a write
  add at the end (`WriteContents`), whether or not the data slides.
  Premise: `m_size` is positive.
* **DaemonProofs**: `TypeCorrect`, `NoDeadlockOverMutex` (`NoCircularWait`),
  `NoServiceBeforeStart` (`ServedOnlyWhenUp`, both but for a timer whose thread was not created) and `LogFileOpen` (`PrintsToOpenFile`), for
  any number of attempts, sizes of buffers, noise and log lines, from
  `HandshakeAssumption`, `LogAssumption` and `DaemonAssumption`. The inductive invariant
  has four parts: types of the tasks (`TasksOK`) and of the handshake (`TtsOK`), which
  adds to `TypeOK` that a loop that goes on has attempts left; `LifeOK`, which ties
  the states of the three tasks to the places of their threads (the radio task is
  STARTING only while the server polls, the timer is asked to stop only after the
  server thread's end or by the radio thread itself, and the main thread passes a
  join only when the thread it joins is gone); and `LogOK`, which says which threads may
  be writing, that the main thread holds `s_mutex` while it reopens the file, and that the
  file is open unless a reopen has failed, the main thread holds `s_mutex`, or all other
  threads are gone.
  A part of its own, `AuthOK`, yields `OpenedByRightResponse` (`OpenWhenAuthenticated`), for
  any values of noise and challenges. Until an octet is mistaken (`Genuine`): of what is
  before the host and not read (`Unread`), the challenges come in ascending order and no
  success behind one (`KeysInOrder`), each prompt leads to a challenge (`PromptsLead`), and an
  answer is to an earlier question (`StreamOK`). So a challenge that the host takes from
  the line is the last one of the device, or its response is refused, and a success is the answer
  to the response just sent (`ResultOK`), however many octets are late, lost, or noise.
  `mistaken` never becomes false again (`MistakenStays`). The exception is needed: one octet is
  tested, so that noise of the right value makes `Authenticate` succeed with a closed device.
* **ScpReceiverProofs**: `TypeCorrect`, `StagingIsFifo` (`StageIsFifo`), `AlwaysRoomToRead`
  (`RoomToRead`) and `ResyncSkipsNoFrame` (`NoFrameSkipped`), for any `ByteSpace`, any three
  different bytes for sentinel and escapes, any payloads, any damage and any `StageSize` that holds a
  largest message (`ReceiverAssumption`). `AlteredIsRefused` (`AlteredOctetRefused`) needs no
  invariant but the types: two messages that differ in one octet have sums that differ by less than
  `ByteSpace`, and that of a frame is 0. `IInv` has the types, the FIFO itself, and
  `Waiting`: where the radio thread reads on with a header in the buffer, the message is
  aligned and not yet whole, so that it is shorter than the buffer, and there is room.
  `AllPassed` says of every byte consumed that it is of an accepted frame, begins no message, or
  begins one that has arrived and whose checksum fails (`Passed`). `ReadLine` is a fold over the bytes of one call; `UnescapeFold` makes it a
  function on the number of bytes taken.
  * `DispatchedInOrderOnce` (`InOrderOnce`) and `AcknowledgedIsDispatched`
    (`AckedIsDispatched`), from `FInv`: the bytes on the line and those read are of frames
    in the order of sending (`SentInOrder`); `m_last_seq` is the number of the frame last
    dispatched, a byte of which was consumed (`Remembered`); the acknowledged frames are the
    dispatched ones (`AllTaken`); and the radio is less than a round of numbers ahead of
    the last of them (`InWindow`). So a message that was sent for frame f has f no
    earlier than the last one and less than a round later: the numbers are equal exactly
    if the frames are. `CInv` is that until a message has been taken for a frame by chance
    (`Collision`), as both properties say. Without this exception they are false: damage
    may turn one frame into the bytes of another whose checksum is good, or a
    payload may hold a whole frame, which a receiver that resynchronises inside it takes.
  * `ReadUndoesWrite`: for any bytes that do not begin with the escape (a frame begins with the
    sentinel, the one byte that `Write` leaves as it is), by induction over the bytes written and then over
    those read (`EscapeUndone`, `ReadsConcat`: what two calls of `Read` deliver, one call delivers).
  * `IntactAccepted` (`IntactIsAccepted`) and `UndamagedInOrderOnce`, which has no premise but that
    the line has damaged nothing so far: then what has arrived and what is on the line consists, unescaped, of
    whole frames, and OnRun is at the end of one (`Whole`), wherever a call of `Read` cuts
    the line. OnRun then finds the frame that was sent (`FrontOfWhole`), so there is no
    `Collision`, and `FInv` holds (`UInv`).
* **MessageProofs** takes what the radio sends apart. `Encode` composes an event's octets on the
  radio's side, the handlers of `ScpDispatch` read them with offsets, `CopyPascalString`,
  a loop over tags, and differences of lengths; the lemmas say of each type of event, for all
  its values, that they read what was encoded: octets, signed octets and words (`SignedWord`), strings
  (`HoldsPascal`), the tagged strings of a song (`SongDecoded`: after each tag the loop is where
  the next string begins), channel information with a song inside (`ChannelTold`). `AsyncTold`,
  `GetTold` and `SetTold` put them in the frames that `Dispatch` tells apart. It follows that
  `Dispatch` has few shapes (`Shaped`): it notifies events which are of no channel,
  or stores a channel and then notifies an event of that very channel, first or behind the
  result of a request. `AnswerShaped` says so of whatever the radio answers to a
  request, if the request is as CSirCon composes them (`Asked`).
* **EventPathProofs**, for any clients, lines, reports and answers that `EventPathAssumption`
  allows, and any size of the buffers:
  * `ReportsAreTold` (`EventsAsReported`) and `ChannelIsCached` (`AnnouncedIsCached`), from
    `TellInv`: every request is one that the radio has an answer to (`AskedOK`, by `CommandAsked`:
    `ProcessCommand` composes no other), what is left of `Dispatch` and the events left are in one of four
    relations to `m_curr_channel` and to what the clients were told (`Underway`), and the channel
    is an octet.
  * `LinesMadeOfTokens` (`TokensMakeTheLine`), by an invariant of the loop in
    `StrTokenize` (`Splitting`): after k characters, the tokens and the one it is at, joined, are these
    k characters.
  * `SettingsComeBack` (`SetIsReported`): `SettingTokens` takes a SET apart, `SettingProcessed`
    takes the numbers through the handler table, and `GainSet`, `OctetSet`, `ZoneSet` say what
    the request holds, octet by octet.
  * `WholeUnlessRaced` (`IntactUnlessRaced`): `Send` relies, between its steps, on the room it
    found and the octets it copied (`SendHolds`), `TransmitData` on its pointer and length
    (`TransmitHolds`); both hold as long as no other thread is in the same buffer (`Sound`), and
    `IInv` says so of every client but the raced ones. The server thread visits each client
    once (`PassOK`), so it never returns to a buffer it dropped.
  * `TypeCorrect`, from both invariants.
* **SequenceLemmas**: facts about sequences. Those about folds, `FlattenSeq` and recursive
  functions on 0 .. n rest on `NatSetInduction`, induction for a *set* of numbers, which is
  the form that the provers can use, where the library's theorem takes an operator. With it,
  `RecursionExists` yields the function of the intermediate results, and `FoldChain` says that
  a fold is its last value.

Only model-checked: the liveness properties (fairness and `ENABLED` are out of the
prover's reach).

No module uses a RECURSIVE operator.

## 5. Not modelled

* The characters of the event text: `operator<<` is modelled by the fields it prints and
  their order, a line by its length. `m_initialized`, `m_channel_map` and its lock have no
  reader.
* Messages of the radio that are too short for their kind, in `EventPath`: `ScpDispatch`
  says what the code reads then, but the code promises nothing about it.
* What damage in several octets does: an 8-bit sum misses some of it by design. `ScpReceiver`
  has these collisions, and its properties hold until one happens.
* Noise inside an answer of the handshake's device: an answer may be late, lost, cut off
  or follow noise, but its octets stay together.
* Interleaved writes of `SendACK` and `TransmitFrame` on the port: a frame damaged
  like that is a lost frame in `ScpSender`. So is one that the port's `Send` wrote in
  part.
* A radio that resets and starts with another sequence number: what it starts with
  is not known from the sources.
* The receive buffer of clients: `ControlArbiter` has lines, and one that is not whole.
* `SOBuffer::Resize`, `CTimer::Destroy` and `Restart`: no callers. Syslog is never opened.
* `CSirServer`'s own timer task, which has no timers.
* The pid file, options, socket set-up, the Windows and the capture-file port: I/O.

## 6. Plan

Modelled, checked and, where section 4 says so, proved: all components but
the I/O above. What is left, in order:

1. A receive buffer for the clients of `ControlArbiter`: `ReceiveData` clears one that is
   full.
