# DevTITANS infrared: TLA+ models and proofs

The repository is an infrared remote control from the phone to the light-emitting
diode: an Android app, a hardware abstraction layer (HAL) for Android, a Linux USB
driver, and the firmware of an ESP32 that captures and transmits infrared codes.
This directory holds TLA+ modules of its logic, TLC configurations that check them
on small instances, and proofs for the TLA+ proof system (TLAPS).

## The system

```
  app (Kotlin)        AcRemoteViewModel + ControlStateRepository
   |
  ConsumerIr manager (Java) -> HIDL HAL        AIDL HAL (Ir.cpp)
                                 |               |   open, write, poll, read
                               USB driver (ir.c): /dev/devtitans_ir0, one FT232R
                                 |   UART, 115200 8N1
  ESP32 firmware      ir_transport_uart -> ir_protocol -> ir_rx / ir_tx -> RMT
```

| Part | State | Operations | Hard about it | What makes it correct |
|---|---|---|---|---|
| `FW/main/ir_rx.c` | lock, queue of two events, `capture_done`, result, `running`, `faulted`, deadline, two buffers | `ir_rx_capture` (any task), `rx_task`, `rx_done` (interrupt) | three actors on two cores, deadline against late events, failing driver calls | a fresh frame or an honest error, the receiver off afterwards, nothing lost in the queue, every call returns |
| `FW/main/ir_tx.c` | lock, symbol buffer, `faulted` | `ir_tx_send` | the driver reads the buffer while and after the caller waits | the buffer is not touched under the driver, exactly the code asked for goes out, the lock comes back |
| `FW/main/ir_protocol.c` | `input[0..used)` | feed, expire, reset, the task | damage, truncation, hidden packets | every intact request is served once and in order, the parser always empties |
| `FW/main/ir_transport_uart.c` | `pending_bytes`, event queue of 32, ring of 4096 | read, write | an event queue that overflows apart from the ring | bytes announced are bytes present; nothing is stuck |
| `IR-driver/ir.c` | reference count, `disconnected`, residue of a USB packet | probe, disconnect, open, release, read, write | unplugging at any moment | the object outlives its users, a byte stream without loss, rollback complete |
| AIDL `Ir.cpp` | `mLock`, `mSequence` | ping, read, write, transmit, carrier | a late answer after a timeout, a restart of the service | an answer is that of this request; a bounded call |
| HIDL `ConsumerIr.cpp`, manager | none | transmit | an older packet layout | what is reported is what happened |
| app view model | controls, active control, learning mode and its job | add, edit, delete, learn, settings | timeout against confirmation, asynchronous save | mirror of the active control, no command learned after its end |
| `driver.sh` | loaded modules | load, unload | a failure in the middle | the previous driver comes back |

The parts meet at four places: the app calls the HAL; the HAL reads and writes the
character device; driver and firmware exchange bytes over a line that may lose or
damage them; the protocol task calls `ir_rx_capture` and `ir_tx_send` and blocks
until they return.

## Modules

| Module | Models | Role |
|---|---|---|
| `IrRx` | `ir_rx.c` | the capture: callers, `rx_task`, interrupt, clock |
| `CaptureService` | contract of `ir_rx.h` | abstract specification that `IrRx` implements |
| `IrRxProofs` | - | theorems about `IrRx`, for every value of its constants |
| `IrTx` | `ir_tx.c` | the transmission: senders and the driver's interrupt |
| `IrTxProofs` | - | what a sender was told and the driver's buffer, proved |
| `IrProtocol` | `ir_protocol.c` | the parser and its task against a bad line |
| `IrProtocolProofs` | - | what the parser serves, misses and keeps room for, proved |
| `IrTransport` | `ir_transport_uart.c` | `pending_bytes` against ring and event queue of the UART driver |
| `IrTransportProofs` | - | what the ring keeps and which losses the parser is told, proved |
| `IrCode` | `ir_types.h`, `normalize_frame`, encode and decode, `transmit` of `Ir.cpp` | a code from capture or pattern to transmission |
| `IrCodeProofs` | - | theorems about `IrCode` |
| `IrHal` | AIDL `Ir.cpp`, with `ir_read` and the firmware | requests and answers of the service over a lossy line |
| `IrHalProofs` | - | whose answer a call accepts, proved |
| `IrDriver` | `ir.c` | the USB driver: files, the hub thread, the carrier attribute |
| `ByteStream` | the comment above `ir_read` | abstract specification that `IrDriver` implements |
| `IrDriverProofs` | - | objects, references and registrations in `IrDriver`, and that it implements `ByteStream`, proved |
| `AcRemote` | `AcRemoteViewModel`, `ControlStateRepository`, what the screens offer | the Android app: user, timeout, disk, death of the process |
| `AcRemoteProofs` | - | theorems about all six invariants of the app and its types |
| `MC...` | - | small instances for TLC |

An operator named `...Slip` (or `...Wrong`) is a mistake one could make in the code
just below it. No specification uses one: PROJECT.json names the property that
breaks when it takes the place of the right definition.

### IrRx

A step is one statement that another actor could observe: taking the lock, posting,
taking `capture_done`, reading the answer, and in `rx_task` computing the wait,
receiving, looking at the clock again, judging a completion, arming, disabling,
emptying the queue, acknowledging. The interrupt (`RxDone`) runs between any two of
them while the receiver is armed. `rmt` is the state of the channel in the driver:
`armed` becomes `enabled` when a frame ends, since `en_partial_rx` is false.
`rmt_enable`, `rmt_receive` and `rmt_disable` may each fail whenever they are called.

A frame is the instant it completed and whether `is_last` and `normalize_frame`
accept it. The instant also tells frames apart: only one frame completes per arming,
and the window of a request opens no earlier than its receiver. A rejected frame may
still have overwritten `pending_frame`, wholly or not at all.

Time is an integer; `TickLen` of its units make a FreeRTOS tick, and the wait of
line 144 is rounded up to ticks as in the code. A wait of n ticks ends at the n-th
tick boundary, which may come before the deadline: the code looks at the clock again
and so does `Expired`. `window` is a history variable: when reception for the current
request began and when it must end. It is written beside the code's own `deadline`
from the caller's argument, so that the two can be compared.

### CaptureService

The contract in `ir_rx.h` as five phases of one client. `IrRx!ImplementsService` is
the refinement: the client is the holder of the lock, and the phase is read off the
caller's program counter and the window. Everything in between (queue, task, semaphore,
interrupt, retries after noise) is a stutter of the service.

### IrTx

`rmt_transmit` hands the buffer to the driver, whose interrupt takes one symbol at a
time (`Emit`); the caller waits in `rmt_tx_wait_all_done` without a limit. Each of the
three driver calls may fail. A failed wait leaves the driver reading.

### IrProtocol

The task is four program points: reading, feeding a byte, parsing (from feeding or
from expiring) and expiring. A header is four units instead of sixteen bytes: the two
bytes of the magic, one for the fields and one for the CRC, which holds what it was
computed over. This keeps every place where a resynchronisation can start: inside the
magic, inside the header, inside the payload. A unit that is no header field but is
read as one yields `Misread`, a request with the length `MisreadLength`. The outcome
of a capture or a transmission is any status the code can derive from it; `IrRx` and
`IrTx` say which are right. A message arrives without a pause in it; a pause longer
than 250 ms in the middle of one is damage, like a truncated one. A failed read loses
the first n units received, and the rest of a message cut in two goes on arriving.
`asked`, `served` and `refused` are history: the intact requests sent and not flushed, the
responses of `process_request`, and the error responses to damaged packets.

### IrTransport

A call of `ir_transport_read` takes up to four steps: looking at `pending_bytes`, taking an
event (or giving up), flushing or reading the ring, and resetting the queue after a
flush. The interrupt of the UART driver runs between any two. The driver is ESP-IDF's
and not in the repository; what `IrTransport` assumes of it is in the comment on the
module. Bytes are numbered in the order sent, so that a gap is visible. A byte with a
framing or parity error is still received; the error is an event of its own.

### IrCode

One job at a time: a raw frame is normalised and encoded, a pattern is encoded by the
service, or a client hands in a payload; the firmware decodes what comes of it. Captured
and replayed is the way a remote control is learned. The algorithms are operators with
the widths of the code (`Duration`, `SymbolCount`); `Expected` and `PatternPhases` are the
definitions they are compared with. The record `Code` has its phases in one sequence
instead of pairs. A pattern is stored as a period, since one that overflows the count
has 131073 intervals (17 in the instance, whose count has three bits).

### IrHal

Binder threads, `mLock`, and `exchangePacket` cut where time, the line or another
process can come in: opening, writing, each look at the clock, each packet parsed, each
read. A request on the line is its command and number; the fields `id` and `life` are
history and no action looks at them. What the firmware answers to a damaged request
carries the number as damaged. A packet cut in two by a read arrives with its second
half: bytes without their packet are `ReadNoise`. `ir_fops` has no poll, and Linux takes
such a file to be always readable, so `poll` is no step. Nothing empties the line when
the device is opened, so answers survive calls and restarts. A process cannot die inside
`ir_read`, which waits without looking for signals.

### IrDriver

Four kinds of actor. The USB core's hub thread runs `ir_probe` and `ir_disconnect`, one at
a time, one registration or removal a step (`core`, `pos`, `made`), with the error labels of
`probe` as a sequence entered at the place its `goto` names. Each file goes through
`chrdev_open`'s lookup, `ir_open`, calls of `read` and `write`, `ir_release`, and the end of
`__fput`. A read is cut where `read_mutex` is taken, at each `copy_to_user`, at the look at
`disconnected`, and at each `usb_bulk_msg`. Accesses of the HAL to the carrier attribute are
in a step of their own between entering and leaving.

An object (`devtitans_ir_device`) is a number; `kref` counts its references, and `ir_delete`
puts it in `freed` and forgets its buffer. A device that comes back is bound to a new
object while files of the old one are still open. The bytes an object receives are numbered
1, 2, ..., so that loss, repetition and reordering show; a status byte is 0, so that one that
is not stripped shows too. `rx_data` keeps what older packets left behind the new one.

External, modelled from how `ir.c` uses it: `chrdev_open` and `__fput` (they take the
reference to the cdev before `open` and give it back after `release`), `device_remove_file`
(waits for an access that is in), and the USB core, which stops the endpoints while it
disconnects and serves whoever asks otherwise. The control messages of `ir_ftdi_configure`
either work or fail.

Three things the model does as the code does, where the repository promises nothing:

- The cdev lies inside the object, and the reference count does not cover it. An open that
  has looked it up before `cdev_del`, and gets to `ir_open` after the last `kref_put`,
  works on freed memory. Such an open goes to `wild` and is not followed.
- `ir_disconnect` clears the driver data before it removes the attribute. An access that is
  already in gets NULL from `dev_get_drvdata`, dies (`attr = "dead"`), and
  `device_remove_file` waits for it. `DisconnectEnds` has this as its one exception.
- A reader that has found its object connected calls `usb_bulk_msg` later. If the driver has
  been bound again meanwhile, it takes a packet that the new object will not see.

### ByteStream

Per device the number of bytes received and of bytes returned; per file the bytes its last
call returned. A call returns the next n bytes of its device. `IrDriver!ImplementsStream`
is the refinement: what has been returned is what has been received, less what is left in
`rx_data` and less what the call that holds `read_mutex` has copied so far. Packets,
`read_mutex`, faults of the user's buffer and timeouts are stutters.

### AcRemote

The state is the one `StateFlow` of the view model. Every operation updates and saves all
of it. Outside it are the timeout jobs, the disk with what `apply()` has not written
yet, the drawer and the delete dialog, and what was drawn last. The user taps only that:
`Offered` says what each screen offers in a state, `Recompose` draws it again, and up to
`MaxStale` taps come in between, each on the control that was tapped before (a double tap).
An operation does not check again what its button checked.

A timeout is a coroutine. `cancel()` takes it out of `jobs` unless it has already run. It is
known by its command and a bit that tells it from its predecessor. `Die` loses what was not
written; `Load` does what `ControlStateRepository.load` does, with the fields that an older
version did not save.

## What is checked

| Run | Instance | Shows |
|---|---|---|
| `rx_capture` | 2 callers, timeouts 0 (refused) and 3, tick of 2 units, requests up to time 2; about 1.6 million states | eight invariants, two action properties and the refinement |
| `rx_live` | 1 caller, requests up to time 3 | every capture returns |
| `rx_discard` | 1 caller | the violation described below |
| `tx` | 2 senders; codes of 3 symbols on the default carrier, of 2 on another, and an invalid one | what is emitted, ownership of the buffer, the lock |
| `protocol` | 3 messages out of 12 kinds, payloads up to 2 units, chunks up to 3 | serving in order, completeness, room in the buffer, emptying |
| `transport` | ring of 5, queue of 3, chunks up to 3, reads of 2, 7 bytes, 2 errors of the line | accounting of bytes and reporting of losses |
| `transport_stuck` | the same with a queue that cannot fill | the violation described below |
| `code` | 2 symbols at most, count of 3 bits; raw frames up to 4 symbols, patterns up to 18 intervals, payloads up to 6 words, carriers and durations at and beyond every limit; about 130 thousand states | replaying, decoding, encoding |
| `hal` | 2 threads, 2 commands, 3 calls, 2 sequence numbers, 1 restart, a device whose reads return; about 256 thousand states | matching of answers; every call returns |
| `hal_silent` | the same without a restart, reads need not return | the violation described below |
| `driver` | 2 files with counts 1 and 2, packets of up to 2 bytes, 2 bytes in all, 2 probes; about 240 thousand states | three invariants on objects and registrations, the byte stream, two liveness properties |
| `app` | 2 commands, 1 brand, temperatures 1 and 2, 2 controls, 1 update not written, 2 taps on one drawing, nothing or an older state saved; about 220 thousand states | six invariants of the app, the end of learning |

Why the bounds are enough. In `rx_capture` a second caller is what mutual exclusion
needs (callers are symmetric), a timeout of 3 with a tick of 2 makes the rounded wait
end before, at and after the deadline, and a horizon of 2 lets captures follow one
another, so that frames and events of one can reach the next. The clock goes on past
the horizon while a capture runs, to let it meet its deadline, and stands still
otherwise. In `tx` two codes of different length and carrier make a rewritten buffer
visible. In `protocol` three messages are a damaged one, one it swallows and one
behind it; a chunk of 3 against headers of 4 splits every message at every place.
The parser never restarts further back than its buffer, which holds one and a half
of these messages. In `transport` both the ring and the queue fill up, alone and
together. In `hal` three calls with two numbers make `mSequence` come back to the number of a
request that may still be on the line: the third call can accept the answer to the first, which
`AnswerIsOwn` excepts (a real one would have to be 65536 calls late), and the second cannot. In `driver`
two files share an object, race each other for `read_mutex`, and one can outlive the other;
two probes put an old object beside a new one, or a failed one before a good one; packets of
0, 1 and 2 bytes against counts of 1 and 2 give a packet larger than the call, a call larger
than the packet, and both equal. In `app` the second control is what makes the active one
different from the edited or the deleted one; the older state has no fields of its own per
control and a temperature out of range; two taps are a double tap. Deadlock
is checked in every run of a firmware task: an idle task that reads nothing is a step, so
only real blocking would show. The runs of `IrHal` and `IrCode` may end, since clients
need not call and a job is done once; that of `IrDriver` may stop where the hub thread waits
for an access that died and every file is closed and the rest has used up its bounds.

Fairness. FreeRTOS schedules by priority and none of these tasks spins, so each ready
task gets its turn: weak fairness per task. `CaptureReturns` also needs time to pass.
It does not need frames to arrive. `LockReleased` needs the driver to finish what it
was given, since the wait has no limit. `Drains` needs only the protocol task.
In `IrHal` the threads run and time passes; `TalkativeSpec` of `hal` adds that every
read of the device returns some day, which the code cannot promise: `hal_silent` is what
happens without. The calls are bounded, so a thread waiting for `mLock` gets it some day;
`std::mutex` itself does not say so. In `IrDriver` the hub thread goes on with the probe or
disconnect it has begun, an access to the attribute ends, and a reader goes on: its transfer
has a timeout of a second. Nobody need open, close, read, write or unplug. In
`AcRemote` a timeout that nobody cancels runs, and what is queued is written; the user need do nothing. The host, the line and the failures have no fairness:
they never have to happen.

### Properties by hazard

- `FreshFrame`, `ImplementsService`: no frame, event or buffer of an earlier capture
  reaches a later caller, in particular after a disable that failed and left the
  receiver posting.
- `CompletionHasRoom`: `rx_done` ignores a full queue; while the
  receiver is armed the queue is never full, since the request has been taken out and
  the driver stops at the first completion.
- `JudgedBufferIsStill`, `AnswerStableWhileRead`: the two buffers shared without a lock
  have one user at a time.
- `RequestAccounted`: `xQueueReset` cannot drop a request.
- `TimeoutNotEarly`, `CaptureReturns`, and `DeadlineKept`, which is proved: the deadline is
  neither cut by the rounding nor moved by noise nor missed.
- `ReceiverOffAtReturn`, and `FaultedNeverArmed`, which is proved: what a failing `rmt_disable` leaves behind.
- `EmittedAsAsked`, `DriverUndisturbed`, `LockReleased`: ownership
  of `tx_symbols` and of the lock.
- `ServedInOrder`, `NothingMissed`, `BufferHasRoom`, `Drains`: resynchronisation.
- `CaptureReplays`, `AcceptedIsCanonical`, `PatternFaithful`: the boundaries of a code.
- `AnnouncedPresent`, `LossIsReported`: what the transport believes and what the driver
  holds. The second has an exception the code cannot avoid: an event that is lost
  itself, because the queue of 32 runs out long before the ring of 4096.
- `AnswerIsOwn`, `CallReturns`: late answers, and calls that give up. The first has two
  exceptions the code cannot avoid: `mSequence` restarts from zero with the service, so a
  success on its way since before the restart can match the first request after it; and it
  comes back to the same number after `SeqModulus` calls.
- `OpenFilesKeepObject`, `NothingLeaks`, `AllOrNothing`: unplugging, a failed probe and
  closing in any order; nobody works on a freed object, and nothing is left behind.
- `ImplementsStream`: what a read leaves of a packet, across calls, files, faults and errors.
- `ReadEndsWhenGone`, `DisconnectEnds`: nobody waits for a device that has gone, nor does
  the hub thread for those who have it open.
- `RemoteShowsActive`, `IdsTellApart`, `EditedControlExists`, `EveryControlComplete`: what
  the app keeps twice, and operations on a screen that is no longer true.
- `RestartForgetsNothing`: what is saved is what is needed, and loading gives it back.
- `TimeoutOfThisAttempt`, `LearningEnds`: the learning timeout against everything else.

### Findings

`transport_stuck`. After an error `ir_transport_read` flushes the input (line 86) and then
resets the queue (line 87), with reception going on. A byte received in between stays in the
ring while its event is thrown away. Since only announced bytes are read, reads return 0 with
data present, and the reader is that many bytes behind from then on: the end of each
request is seen when the next one arrives, until another error flushes the input. After
an error of the line more bytes usually follow at once, so the window is met in practice.
`IrProtocol` assumes a transport that hands over all it has, and says nothing of this case.

`hal_silent`. When an answer is lost and the line stays quiet, `ir_read` goes on through
packets that carry only the FT232R's status (one each millisecond), and the deadline in
`exchangePacket` is not looked at again: the call keeps `mLock`, and with it the service,
until a byte arrives or the device is unplugged. `IIr.aidl` promises `timeoutSeconds`.

`rx_discard`. `rx_task` waits in `xQueueReceive`; the wait ends; before the task looks at
the clock (line 147), the interrupt posts a valid frame stamped within the deadline and
the deadline passes. The task then reports `ESP_ERR_TIMEOUT` and `xQueueReset` throws
the frame away, though the comment at line 141 says that the timestamp decides and not
when the task is scheduled. The window is short and the remedy simple: look into the queue once
more, without waiting, before giving up.

Two more observations, which no run states as a property because nothing in the repository
promises otherwise. `transmit` changes a pattern that the protocol cannot express and answers
true: an interval above 32767 us is cut to that, a negative one wraps, and a pattern with
more intervals than a `uint16_t` counts is sent as its beginning, because the check of line
347 looks at the count after the cast (`PatternFaithful` has their absence as its premise). And
Save tapped twice before the screen is drawn again registers a second control with the same
data, also after an edit, whose form is left by the first tap.

## What is proved

`IrRxProofs` proves, for any set of callers, any timeouts, any length of a tick and any
horizon, that `Spec` implies `[]TypeOK`, each of the seven other invariants of
`rx_capture`, its action property, `DeadlineKept`, `FaultedNeverArmed` and `ImplementsService`.
Assumptions: `NoCaller`
is no caller, and the times are natural numbers (the ASSUMEs of `IrRx`).

None of the invariants is inductive alone. `IInv` joins five:
`LockInv` (a caller beyond its lock holds it, and is the only one), `RequestInv` (the
request is in one place; at most one of each kind of event in the queue),
`WindowInv` (while the task serves, the window belongs to the holder's request and the deadline is its end),
`ChannelInv` (what the channel's state says about completions queued or in hand, and
about the raw symbols) and `AnswerInv` (what the chosen result promises, from the moment
the task chooses it, through the acknowledgement, until the caller leaves). The
last is the reason for the others: a result is chosen in `Judge` or `Expired`, from
the event and the buffers, and only read several steps later. The proof has one lemma
per action, and under it one step per part. The refinement follows from `IInv`: each
action is one of the service or leaves its variables unchanged.

`IrCodeProofs` proves, for any sizes and any inputs of the types in its ASSUMEs,
`DecodeUndoesEncode` (a lemma about the two operators, by what a word of sixteen bits
holds), `[]AcceptedIsCanonical` (its invariant: every payload is well formed, also one
from a pattern with its casts) and `[]PatternFaithful` (a count that fits `kMaxSymbols` is not
cut by the `uint16_t`, an interval up to 32767 keeps its value in fifteen bits, and the SPACE of no
length that fills an odd pattern is its last phase, the one place where it is valid). For these
it does not matter what the loop in `normalize_frame` computes: the code checks the outcome with `ir_code_is_valid`,
and so do the proofs. `[]CaptureReplays` is about the loop itself. `ChainExists` and
`CollectingIs` give the recursion in `Collecting` its meaning; `ReachedStep` says what has been
collected after n phases (nothing before the first MARK, then the run from there, as long as it alternates and
fits), `CollectedIs` that nothing changes after the first phase without length. `ExpectedFrame` and `FrameJudged`
compare that with the frame a reader of the documentation expects. What is asked of the receiver is that each of its symbols holds
two phases, as `rmt_symbol_word_t` does.

`IrTxProofs` proves, for any senders, default carrier and codes of which one is the longest
(the buffer has room for it), `[]EmittedAsAsked` and `DriverUndisturbed`. The invariant has
four parts besides the first: a sender beyond its lock holds it (`Held`); a driver at work
works for the sender that waits, or a wait has failed and nobody fills the buffer again
(`Owned`); the buffer holds the symbols copied so far, and all of them during the wait
(`Filled`); what the driver has emitted is the beginning of the sender's code, and when it has
stopped `sent` is that code (`Emitting`). `Owned` is the point of `faulted` in the code: an
abandoned transmission keeps the driver busy after `tx_lock` is free.

`IrDriverProofs` proves, for any finite set of files, any counts and packet size, and any
bounds on devices and bytes, `[]TypeOK`, `[]OpenFilesKeepObject`, `[]NothingLeaks` and
`[]AllOrNothing`. The invariant of the first three has two halves. `Shape` is the type of each part and where it meets another: a file
that holds an object holds one that was born, and a bound interface is the last one born.
`Counted` is the count itself: `kref` of an object is the number of its holders plus one if it
is bound, and it is in `freed` exactly when that is zero. Without it no one step shows
that a `kref_put` is not one too many: each `Release` and `Finish` uses that the count it
lowers was raised for it. `Bound` includes an interface that is being unbound, since
`disconnect` gives its reference back last. That of `AllOrNothing` says what is registered at
each step of `probe`, of its error path and of `disconnect`.

It also proves `ImplementsStream`. What a call returns is decided over several steps
and several packets, so the invariant (`StreamInv`) says what holds in between: `Locked`, the
holder of a `read_mutex` is the one reader of its object; `Buffered`, what is left in `rx_data`
is the end of what was received, and nothing is left when a transfer begins; `Copied`, a call
has copied the bytes right behind those that were returned before. `Counted` is needed too:
the stream of an object ends when it is freed, and then no reader may be at it. Each action is
a step of `ByteStream` or hidden from it: a call ends with `Return`, the next begins with
`Forget`, a packet that is not empty is `Receive`, the end of an object is `Close` or `Vanish`.

`IrProtocolProofs` proves, for any messages that satisfy the assumptions below, any number of
them, any limit of a payload, and any chunk, that `Spec` implies `[]ServedInOrder`,
`[]NothingMissed`, `[]BufferHasRoom`, and the types. The proof does not look at a message as such but
at the run of units not parsed yet (`Rest`: the buffer, the chunk, the wire), and finds
packets in it by the place of their CRC. `Whole` says of that run that a head has its payload
behind it and that nothing begins inside an intact packet; `Listed`, that the requests in it are, in
order, those asked and not yet served (`Pending`). Every step takes units off the front of the run or puts
a message at its end: `Discard` drops a unit only where no request begins, a flush drops the
beginning and takes from `asked` what it hit, serving a packet takes its first request. `Settled`
(the buffer is too short to decide unless it is about to be parsed) gives the room in the buffer, and with an
idle line that what is left holds no request. `Cut` says why expiry may throw away the
beginning of a packet that will never be complete: what began before the line went idle
ends there. `ServedInOrder` is part of the invariant itself.

What `MessagesAssumption` asks of the host's messages: where a message shows a header whose CRC fits
(as far back as the message goes), it shows the header from its beginning, and all of
the payload; and a message with an intact packet is that packet. Free are a wrong CRC, altered
fields, a lost unit of the header, responses, stray units, payloads that look like the beginning of a packet.
Left out are a payload cut short behind its intact header, and an intact packet within a longer run.
For these the statement is not one of the parser: the next message may complete the first, and
the second is in "What is not modelled".

`IrTransportProofs` proves, for any sizes of ring, queue, chunks and reads, and any number of
bytes and errors, `[]AnnouncedPresent` and `[]LossIsReported`. What the queue announces is a sum over its
events, so the invariant (`TransportInv`) speaks of running totals `f`, one for each beginning of the
queue: outside `emptied` none exceeds the length of the ring (`Promised`). `InOrder` says that the
bytes handed over are numbered without a gap, and that those in the ring follow on as far as they are announced before the
first event that will flush them; without such an event they are all there is. `TotalIs` ties the totals to
`Announced`. An event that is lost, or that comes between flush and reset, ends the second half for good
(`unseen`), the first never.

`IrHalProofs` proves, for any finite set of threads, any commands, any range of sequence numbers
and any number of calls and restarts, `[]TypeOK` and `[]AnswerIsOwn`. The matching is on
the number alone, so the invariant has to follow every request that may yet be answered with
success (`InTransit`: intact on the line, being served, in an answer on the line, in the buffer of the
parser, accepted). `Numbered` says of each that it is the current one, or of an earlier life, or that
k numbers have been drawn since it got its own, of which one at least for the current
request, and no more than there were calls. If the numbers agree, k is a multiple of the
modulus and not zero. `Counted` bounds the calls, `Held` makes the thread beyond `mLock` the only one, and
`CurrentRequest` ties its number to `mSequence`.

`AcRemoteProofs` proves, for any commands, brands and range of temperatures, any number of controls,
of taps on an old screen and of updates not yet written, `[]TypeOK` and the six other
invariants of `app`. The invariant (`RemoteInv`) says that the state on the screen and the state a restart would load
are both `Good`: ids apart and below the next one, every control complete, the remote showing one
of the list or nothing, the form editing one that is there. One lemma per operator of the view
model shows that it keeps a state good; `SavedLoads` shows that `Load` undoes `Save` for a good state,
`LegacyLoads` that it makes a good state of an older one. Two parts are about taps that come late.
`TapsReady`: where Save is offered the form has all commands, where the power button is there is a
control, also while the drawing is behind; the operations do not look. `OneTimeout`: at most one
timeout can run, the one of `learningTimeoutJob`. `LegacyAssumption` is what the older versions saved: ids that differ,
all commands in each control (Save was offered only then), and numbers of any value. The states of
older versions come from no code in the repository; that `load` reads them is.

`IrProtocolProofs`, `AcRemoteProofs`, `IrTransportProofs` and `IrCodeProofs` need a little induction over numbers, which the provers
cannot take from the library. Instead a set of natural numbers is shown to have a least element (`Least`,
`LeastOf`, from the well-foundedness of inclusion among finite sets), and the least counterexample is refuted.

Model-checked only: liveness (`CaptureReturns`, `LockReleased`, `Drains`, `CallReturns`,
`ReadEndsWhenGone`, `DisconnectEnds`, `LearningEnds`), which TLAPS cannot prove here. Every other
property of a passing run is proved. The properties of the findings are false.

## What is not modelled

- `ir_rx_init`, `ir_tx_init`, `ir_protocol_init`, `app_main`: they run once, before any
  task, and a failure stops the boot. Their result is `Init`.
- The `ESP_ERR_INVALID_STATE` of calls before initialisation, and NULL arguments.
- A payload that contains a whole intact packet: after a CRC error of the outer one, the
  inner one would be executed. The code makes no promise here.
- Damage that leaves a packet with a valid CRC.
- `ir_transport_init`, and `ir_transport_write`, whose one caller is the protocol task.
- The value of the driver's carrier attribute, which `setCarrier` and `transmit` write. No
  transmission reads it: without a carrier in the payload the firmware takes its own.
- The bytes a write sends to the device: one transfer, and nothing is kept of it.
- `ir_driver_init` and `ir_driver_exit`, which register the driver and its class.
- The HIDL HAL and the manager. Both keep no state. The HIDL HAL writes one packet in an older
  layout, which to the firmware is a run of stray bytes (`IrProtocol` sends those), and
  reports success whatever happens.
- The command line tools, which do one request at a time; `driver.sh`, which a person runs
  once; `src/aidl`, a copy of the AIDL HAL.
- In the app: names, the start screen and the layout, and saved data that is no JSON, which
  loads as the default state. The app does not call the HAL yet: its buttons change the
  state only.
- Build files, security policy, tests.

## Plan

Order of work; what is done is listed under Modules.

1. `IrRx`, `CaptureService`, `IrRxProofs`; `IrTx`; `IrProtocol`; `IrTransport`; `IrHal`;
   `IrCode`, `IrCodeProofs` (done).
2. `IrDriver`, `ByteStream`, `IrDriverProofs`; `AcRemote` (done).
3. `IrLink`: an abstract request-and-answer service that `IrHal` implements within one life.

Theorem to come: that `IrHal` implements `IrLink`.
