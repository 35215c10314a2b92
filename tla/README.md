# CAN-FD logger and tester: models and proofs

TLA+ modules for the firmware of the C2000 CAN-FD logger
(`canlogger-c2000-platform/CanLogger_C2000_App`), the TLC configurations that check them on small
instances, and theorems about them that TLAPS checks for every instance. `A/` below stands for that
directory.

## 1. The system

```
 CAN bus ─> MCAN RX interrupt ─> capture queue ─> drain task ─┬─> host stream (serial) ─> host tool
                                                              └─> mailbox slot ─> UDS task ─> sink
 application ─ Submit*() ─> request queue ─────────────────────────────────────────┘   │
 CAN bus <─ transmit mailboxes <─ ISO-TP shim <────────────────────────────────────────┘
 system monitor: once a second, counters + error state ─> STATUS packet; leaves bus-off
```

Priorities (`platform-config/canlogger/Platform_OS_Cfg.h:39-42`): interrupts > drain (5) > UDS (4) >
system monitor (1), preemptive.

| Component | State | Operations | Hard behaviour | What makes it correct |
|---|---|---|---|---|
| Capture (`A/CanLogger_Mcan.c`, drain task of `A/CanLoggerOs_Tasks.c`) | queue, two 32-bit counters, the frame in hand | `RxIsrCb`, receive, `SendFrame` | bursts that fill the queue, wrapping counters, interrupts at any time | every frame is accepted or counted as lost; what is logged is in capture order |
| System monitor (`A/CanLoggerOs_Tasks.c:57-81`) | `last_rx`, the locals of one period, the controller's error state | sample, read error state, send STATUS, request recovery | lowest priority: everything it read may be stale when used | the numbers of one STATUS packet belong together; bus-off is reported and left |
| ISO-TP shim (`A/CanLogger_IsoTp.c`) | transmit cursor, reassembly context | `TxStart`, `TxContinue`, `SendFc`, `RxInit`, `RxFeed` | lost and repeated frames, wrap of the sequence number, length boundaries, full mailboxes | a PDU reported complete is the PDU sent; the buffer is never overrun |
| UDS client (`A/CanLogger_UdsClient.c`) | request queue, mailbox slot + flag + notification, transaction, sink | `Submit*`, `RegisterSink`, `OnCapturedFrame`, `Task`/`Transact`/`AwaitFrame` | the drain task preempts between any two accesses to the slot; late, pending, long or missing answers | one outcome per request, in order; no lost wakeup; no stale answer; the keep-alive is invisible |
| Host stream (`A/CanLogger_HostStream.c`) | none in RAM; the bytes on the link | `SendFrame`, `SendStatus` | a STATUS packet is four writes that the drain task preempts; 16-bit cells | a packet that is not cut reads on the wire as the host expects |
| Host tool (`host/can_logger_host.py`) | parser buffer, statistics | `Parser.feed`, `parse_frame`, CSV | resynchronisation after cut packets and lost octets; chunks of any length | an intact packet is not lost |
| Startup (`A/CanLoggerOs_Init.c`, `A/main.c`) | which handles exist | `CanLoggerOs_Init`, `SafeState` | interrupts on before tasks exist; a failed allocation half-way; a halt in the middle of anything | nothing runs on a part of the system; what is captured early is not lost |
| Bit-timing solver (`host/canfd_bittiming.py`) | none | one search | none | - |

The MCAN and SCI drivers, FreeRTOS and the microSD writer are not in the repository. Where a model
needs them they are what the code relies on: a FIFO queue with a non-blocking send, a task
notification that stays pending until it is taken, mailboxes that may be full, an error state that
changes by itself, a serial port that sends the low octet of each cell it is given.

## 2. The modules

| Module | Role |
|---|---|
| `Capture` | open component: queue, counters, drain task. Extended by the two systems below |
| `PassiveLogger` | the plain logger (`CANLOGGER_UDS_ENABLE` = 0): `Capture` + monitor + controller |
| `WrapArithmetic` | lemmas on `%`: sums and differences of wrapping counters |
| `PassiveLoggerProofs` | the inductive invariant of `PassiveLogger` and its theorems |
| `Bringup` | power-on to the running logger and to the halt; extends and refines `PassiveLogger` |
| `BringupProofs` | its invariant, the refinement, and what it carries over |
| `IsoTp` | the shim as operators on bytes; no state, no recursion |
| `IsoTpProofs` | lemmas on its operators: what frames hold, how they are coded, what `RxFeed` does to a context |
| `IsoTpLink`, `MCIsoTpLink` | one transfer between a sender and a receiver built from `IsoTp` |
| `IsoTpLinkProofs` | the inductive invariant of `IsoTpLink` and its theorems |
| `UdsClient` | open component: the UDS client. Extends `IsoTp` |
| `UdsClientProofs` | its invariant `UdsInv`, one lemma per action, for whatever surrounds the client |
| `TesterService` | abstract specification of what the client promises the application |
| `AnyBus`, `MCAnyBus` | `UdsClient` on a bus that follows no protocol; refines `TesterService` |
| `AnyBusProofs` | theorems of `AnyBus`, on top of `UdsClientProofs` |
| `Tester`, `MCTester` | `Capture` + `UdsClient` + a conforming ECU, with the priorities of the roster; refines `TesterService` with fairness |
| `TesterProofs` | theorems of `Tester`, on top of `UdsClientProofs` |
| `WireFormat` | the packets of the host link as operators on octets: firmware and parser; no state |
| `HostLink`, `MCHostLink` | the two writing tasks, the cable, and the host's parser |

Definitions whose name has an underscore (`RxIsrCb_PostToFront`) are faulty variants of the
definition before the underscore. No specification uses them; each breaks one property, which shows
that the property depends on the code being as it is.

### Capture and PassiveLogger

One action per step that another context can see: the interrupt is atomic (nothing preempts it), the
drain task's receive and its serial write are two actions, and the monitor's loop is four (sample
`rxCount`, read the error state, send STATUS with `dropCount` read at that moment, request recovery).
`SysMonRuns` holds the scheduling rule: the monitor moves only when the drain task is blocked on the
empty queue or inside the serial write (`DrainReady` false). That is wider than a port that is
busily written, as `HostLink` has it, allows: what holds here holds for both. A frame is its capture stamp; payload,
TEC, REC and the bus-load percentage are left out. `arrivals`, `hostLog` and `mark` are history
variables that no guard reads, except for the bound on `arrivals`.
`CanLogger_BusOffCb` does nothing in the code, so a change of the error state changes nothing else.
A request for recovery outside bus-off has no effect and is not remembered (the driver is external).

### Bringup

`boot` is the call of `main` and `CanLoggerOs_Init` to be done next. `Mcal_C2000_Mcan_Start` comes
third, before any task: from then on frames are captured and the error state changes (`ControllerStep`,
the actions of `PassiveLogger` under `mcanOn`). Whether the port really takes interrupts before the
scheduler starts is up to drivers that are not in the repository; the model allows it, which includes
the case that it does not. Whatever allocates may find no memory: the kernel's hook is called, and
behind it `configASSERT` or the caller's `if`, all of which end in `SafeState` (`AllocationFails`). That
goes for the idle task of `vTaskStartScheduler` too, whose failure `main` answers in the same way. A
stack overflow may be found at any time while tasks run. After a halt interrupts are off and nothing
of the software moves, but the controller goes on changing its error state by itself. With
`UdsEnabled` the UDS client's queue and task are created here; what the task does is `Tester`'s subject.
The tasks run only when `boot` is `"running"`.

### WireFormat and HostLink

A `uint8_t` of the C28x is a cell of 16 bits (`A/CanLogger_IsoTp.c:17`), so `memcpy` of 8 copies 8 cells
and a `uint64_t` has four. `Image` is a frame as it lies in memory, `FramePayload` and `StatusPayload`
are what the copies make of it; behind the locals of `SendStatus` lie the cells `Strays` describes. The
CRC is computed by the firmware in a 16-bit register over cells and by the host in 8 bits over
octets: that they agree is part of what the run checks. `Parse` is `Parser.feed` with its three ways
to stop or go on, on positions that count from 1.

In `HostLink` a packet is the list of its serial writes still to be done. The port is written without
a call of the kernel (`A/CanLogger_HostStream.c:17`) and without a lock, so the drain task, of the higher
priority, may come in between any two octets of a STATUS packet, several times; the monitor can
never come in between those of a FRAME packet. `Cuts` says where a write may be interrupted, by the
number of octets still to come, `CableLoses` drops an octet on the way, and `HostReads` gives the
parser whatever has arrived, so that the stream is cut into chunks in many ways. `sent`, `written`,
`spoiled` and `heard` are history variables: `written` holds the packets in the order in which their last
octet went out, which is the order the host can log them in.

### IsoTp and IsoTpLink

Bytes are kept, since PCI nibbles, lengths and sequence numbers are the subject. The context of the
receiver is `[buf, len, next_sn, active]`; the code's `got` is `Len(buf)`, its `cap` is `RxBufBytes`.
The C code writes into a fixed buffer; bytes beyond `got` are never read by it and are not modelled.
`IsoTpLink` sends one PDU: sender states follow `TxStart`, the wait for a flow control and the loop of
`TxContinue`; the receiver is `RxFeed` with `SendFc` after a First Frame. The bus may lose or repeat
the next frame, at most `MaxFaults` times. `Transact` calls `TxContinue` once per PDU, so an exhausted
block leaves the sender `stopped`.

### UdsClient

`task` is a program counter with one value per access to state the drain task also writes:
`xTaskNotifyWait`, test of `s_rxValid`, its reset, the copy of `s_rxFrame` in parts (a struct copy
is not atomic; `CopyCuts` says behind which cells it may be interrupted, once with `CopyHead` and as often as
there are cuts with `CopyOn`), then `RxFeed` and the decision of the
response loop. `OnCapturedFrame` runs at the higher priority and is one action. Transmission of a
frame and everything a transaction does between two such accesses belongs to one action. The
application may give, replace and withdraw the sink at any time (`RegisterSink`); the test of the pointer and
the call through it are one step of `Report`. `CanLogger_UdsClient_Init`, which clears it, comes before
the tasks. The receive
from the request queue and the start of `Transact` are one action: a frame that comes in between has
the same effect as one that comes before.

Time is abstract. `WaitExpires` says that P2 or P2* ran out; when it may happen is for the
environment to say. Suppressed positive responses, functional addressing, pending counting, keep-alive
and the optional sink are as in the code. The response `rsp` carries `result`, `nrc` and `data`.

`AnyBus` lets any of a few frames be captured at any time, and lets every wait expire at any time.
`Tester` connects the client to the capture path exactly as `CanLogger_Drain_Task` does, and to an ECU
that answers requests in order with scripts of PDUs, segments long ones and waits for flow control.
The answer carries the ordinal of its request so that a property can tell whose answer it is.
`Punctual` = TRUE makes the ECU punctual: the timer does not expire while its answer is under way.
A script `oversize` announces more than the buffer holds and waits for a flow control that never comes.
`credit` (history) notes for every reported request whose positive answer it was. Since answers are
matched by service identifier only (`A/CanLogger_UdsClient.c:207`), a late answer can be credited to a
later request of the same service, and in `Tester_service` is; `EachWholeAnswerOnce` says that it is then
not credited to anybody else. `torn` (history) is TRUE from the moment the current transaction copies a
part of one frame and a part of another until it is reported (`Tears`). What such a transaction reports
counts as nobody's answer: it may be a PDU nobody sent (disagreement 3 below, `Tester_torn`), of which no
such property holds, and the code does nothing to exclude it.

## 3. The runs

Every run is `tlc -config <cfg> <module>` in this directory.

| Run | Question | Outcome |
|---|---|---|
| `Bringup` | from power-on: queue bound, accounting, order, window, consistency of STATUS, report before recovery; nothing runs half-built; refinement of `PassiveLogger`; unless it halts, accepted frames reach the link, bus-off ends, and every loss is in a STATUS packet handed to the link (the host may still miss it: `HostLink`) | holds, 360 292 states |
| `IsoTpLink_faults` | integrity under loss and repetition; completeness without faults, block size 0 | holds, 573 188 states |
| `IsoTpLink_blocks` | completeness with block size 2 | **violated**: finding |
| `AnyBus_service` | bounds, no lost wakeup, fresh frames only, refinement of `TesterService` | holds, 1 797 600 states |
| `AnyBus_idle` | "frame ignored" | **violated**: finding |
| `Tester_prompt` | an in-time single-frame ECU is always heard | holds, 4 554 254 states |
| `Tester_service` | refinement of `TesterService` with liveness; of what is read from whole frames no answer is reported twice, nor to a request asked before its own | holds, 334 854 states |
| `Tester_slot` | "a single slot suffices" | **violated**: finding |
| `Tester_timeout` | TIMEOUT means that P2 or P2* passed | **violated**: finding |
| `Tester_torn` | "snapshot out of the volatile slot" | **violated**: finding |
| `HostLink_stream` | uncut packets arrive, once and in order; chunks do not matter; flags, length, channel and data survive | holds, 75 860 states |
| `HostLink_layout` | the wire format "matches exactly" | **violated**: finding |

Bounds and why they are enough:

- `Bringup`: a queue of 2 shows empty, partly filled and full; counters modulo 3 wrap within
  `MaxFrames` = 5 frames, also between two samples, and the queue overflows with one frame in the
  drain task's hand. Frames may come before the first task exists. The proofs cover every other
  value. The property `BootsIntoLogger` is the specification of `PassiveLogger` itself.
- `IsoTpLink_faults`: 17 faults can hide 16 frames, a full turn of the sequence number, in a PDU of 132
  bytes (18 consecutive frames), and one more; 2 mailboxes let `TxContinue` meet a full mailbox. The
  lengths are those at the borders between one, two and three frames (7 | 8, 13 | 14), one behind a wrap of
  the sequence number, and 256, the whole buffer, whose length needs the high nibble. `Completion`
  excuses a transfer with a fault or a full mailbox, and nothing else.
- `AnyBus`: a short, a long (First Frame) and a suppressed request, one frame of each kind
  (positive, negative, pending, first, consecutive, flow control WAIT, foreign), one pending answer
  allowed, a request queue of 1, one mailbox (so that it can be full), the copy interrupted after byte 1.
  The sink comes and goes. The state space is finite without a bound on behaviours.
- `Tester_prompt`: 3 requests (read and clear trouble codes, functional TesterPresent with an answer)
  and 3 foreign frames against a capture queue of 2: answers can be
  dropped, and are. `Tester_service`: 2 requests, each a session request or a suppressed
  TesterPresent (two session requests are what confuses answers), answered in one frame, after a
  pending, in three frames, or by more than the buffer holds; a capture queue of 1, which drops frames;
  the copy preempted behind the cells 2 and 3, which separate header, service identifier and ordinal, and
  8, which is the whole data, in every combination. Foreign frames are left to `Tester_prompt` and to
  the proof, which has any number of them.
- `HostLink_stream`: one frame whose data is a sync (AA 55) and one STATUS packet whose time stamp is a
  sync that announces 200 octets; two kinds of stray cells, one of them such a sync again; writes cut
  one octet or 16 octets before their end (or not), one lost octet. A cut or damaged packet therefore
  makes the parser find a false sync inside, wait for a length that never comes, and hold back the
  packets behind. One packet in 256 damaged ones passes a CRC of 8 bits by chance; `WholePacketsArrive`
  and `DataSurvives` say nothing from such a packet on (`Undeceived`), and without a loss they never
  need that excuse.

Deadlock is checked in every run but those of `IsoTpLink`, where a transfer ends, of `HostLink`, where
all packets are sent in the end, and `Bringup`, where the halt is meant to stop everything.

### Fairness

- `Bringup`: weak fairness of the steps of `main` (nothing else runs yet; that it ends requires that no
  allocation fails, hence "unless it halts"), of the drain task (a ready task of the highest priority runs and the
  serial write returns), of the monitor (its period always comes round; it is enabled whenever the
  drain task sits in a write or on an empty queue, and the bus delivers finitely many frames in a
  behaviour, so it is not starved), and of the controller's recovery once it was requested (external).
  No fairness of frames, of error states, of failed allocations or of stack overflows.
- `IsoTpLink`: the sender, and the delivery of frames in the mailboxes.
- `Tester`: the drain task, the UDS task including the expiry of its timer, and the bus with the ECU's
  transmissions. Nothing is assumed of the application, and the ECU may choose its answers.

## 4. The proofs

TLAPS checks eight modules. Five hold theorems (`PassiveLoggerProofs`, `BringupProofs`,
`IsoTpLinkProofs`, `AnyBusProofs`, `TesterProofs`), three the lemmas they rest on (`WrapArithmetic`,
`IsoTpProofs`, `UdsClientProofs`). Every inductive invariant was checked with TLC before it was
proved, on the instance of the run named with it.

### The logger and its start

From `CaptureAssumption` (queue depth and counter modulus are positive) and `LoggerAssumption` (the bound is
a natural number) follow, for every queue depth, counter width and length of burst:

| Theorem | Property |
|---|---|
| `TypeCorrect` | `TypeOK` |
| `NoFrameUnaccounted` | `Accounting` |
| `CaptureOrder` | `Chronological` |
| `WindowIsExact` | `WindowExact` |
| `StatusIsConsistent` | `StatusBracketsArrivals` |
| `BusOffIsReported` | `RecoveryFollowsReport` |

The inductive invariant `IInv` is needed because none of the last four is inductive alone:

- order needs the accounting: a new frame is stamped `arrivals + 1`, greater than every stamp in the
  pipeline only because all of them are at most `arrivals`;
- the window needs that `lastRx` is the accepted count at the previous sample modulo the counter width
  (`sample.rx` and `mark` tie the wrapped values to the real ones);
- the sum in a STATUS packet lies between two moments because losses never decrease and the sample's
  accepted count plus the later loss count lies between the arrivals at the two reads;
- recovery is preceded by a report because a request for recovery (`leaving`) is made at the end of a
  period only, when the packet of that period carries the sampled state.

The wrapping counters reduce to lemmas on `%` that the SMT solver cannot find by itself
(`WrapArithmetic`: uniqueness of the remainder, `IncrementWraps`, `DifferenceWraps`, `SumWraps`).
TLC checked `IInv` on a queue of 2 and counters modulo 4.

`BringupProofs` adds, from `BringupAssumption` (`UdsEnabled` is TRUE or FALSE) in addition:

| Theorem | Property |
|---|---|
| `BootRefinesLogger` | `BootsIntoLogger` |
| `NoPartialBringUp` | `NothingHalfBuilt` |
| `BootTypeCorrect` | `BootTypeOK` |
| `NoFrameUnaccountedFromBoot` | `Accounting` |

Its invariant `BootInv` ties `boot` to the set of objects that exist (`Built`) and says that the capture
queue is empty as long as the controller is off. The latter is what makes `CreateRxQueue`, which
empties the queue, a stuttering step of `PassiveLogger`; every other step is a step of `PassiveLogger` or
leaves its variables alone. The refinement carries every theorem of the first table to the system
that boots, `NoFrameUnaccountedFromBoot` being one written out.

### ISO-TP

`IsoTpProofs` says of the operators what the C functions owe each other: a frame is `TxDl` bytes, its
header decodes to what was encoded, the parts cut out of a PDU join to the PDU, and `RxFeed` keeps
the context within the buffer and within the announced length (`ContextOK`) whatever frame it is
given. From `IsoTpAssumption` and `LinkAssumption` (a buffer of any size; PDUs of 1 to 4095 bytes, what
a First Frame can announce; any block size, number of mailboxes and of faults) follow:

| Theorem | Property |
|---|---|
| `TypeCorrect` | `TypeOK` |
| `IntegrityHolds` | `Integrity` |
| `ReceiverNotAhead` | `NoFrameInvented` |

`Integrity` is far from inductive: after a multiple of 16 hidden frames the receiver takes the next one
although the bytes before it are missing, and goes on. The invariant numbers the frames of the PDU.
Frames on the wire have increasing numbers, so `delivered`, the number of the last frame the receiver
was fed, never decreases. An active receiver that has taken `n` consecutive frames has `n <= delivered`, a
difference that is a multiple of 16 (both are what `NoFrameInvented` says), and, if the difference is 0, the first bytes of the PDU in its buffer
(`HasTaken`). That it does not come to a wrong end follows from the length: its buffer holds
`Offset(n + 1)` bytes; a frame that completes the PDU for the receiver must be the last one by the
receiver's count, and a receiver that is 16 behind would need a frame with a number the PDU
does not have. So the frame that completes has the number `n + 1`, nothing was hidden, and the buffer is
the PDU. A receiver with a gap can never complete. (TLC: 573 188 states of `IsoTpLink_faults`.)

### The UDS client on any bus

From `UdsAssumption` (queue and mailboxes of any positive size, any pending budget, any places where the
copy is preempted) and `BusAssumption` (requests are those of the `Submit*` functions with at most 6 bytes
of data; captured frames are frames) follow:

| Theorem | Property |
|---|---|
| `TypeCorrect` | `UdsTypeOK` |
| `NoWakeupLost` | `NoLostWakeup` |
| `AnswersAreFresh` | `FreshFramesOnly` |
| `ServiceImplemented` | `ImplementsService` |

`UdsInv` is the types, the bounds and two facts that tie the program counter to shared state. `Notified`:
outside the two steps `check` and `clear`, where the notification was consumed and the flag not yet
reset, a frame in the slot has its notification pending; `NoLostWakeup` is the case of the waiting task,
but it takes the other program counters to carry it from one wait to the next. `SilentEnds`: a request
whose answer is suppressed never waits and is reported sent or not sent, which the refinement needs
to map `Report` to an outcome the abstract service allows. `SlotIsFresh` extends freshness from the
frame being fed to the slot and the copy under way, and depends on the reset of the flag when a
transaction begins. The refinement maps every step to one step of `TesterService` or to a stutter.
(TLC: 1 797 600 states of `AnyBus_service`.)

### The whole tester

From the same assumptions of the client, `CaptureAssumption` and `TesterAssumption` (any set of
requests of the services of the `Submit*` functions that fit one frame, any scripts of answers in which all but the last PDU are `pending`, at most
255 requests so that an answer's ordinal is a byte, any amount of other traffic) follow:

| Theorem | Property |
|---|---|
| `TypeCorrect` | `UdsTypeOK` |
| `NoWakeupLost` | `NoLostWakeup` |
| `ServiceImplemented` | `Service!Spec`, the safety part of the refinement `Tester_service` checks |
| `AnswersAreHeard` | `AnswerIsHeard` |
| `AnswersCreditedOnce` | `EachWholeAnswerOnce` |

The first three hold with any such ECU: late, segmenting, oversize. `AnswersAreHeard` is about an ECU that
answers in time and in one frame, and assumes `PromptEcu`: `Punctual`, scripts that are one positive or one
negative answer, a buffer of at least 3 bytes, and fewer frames than the drop counter's modulus, since a
counter that came round to its old value would hide a loss from anybody who reads it. These are what
`Tester_prompt` instantiates. Its invariant `PromptInv` follows one request through the system:

- `OnePlace`: the request or its answer is in at most one of the mailboxes, the ECU, the capture queue,
  the drain task's hand and the slot. The single slot is safe for this ECU because of that, and for no
  other reason;
- `Stage`: while the task waits, it is in one of them or the drop counter has moved;
- `MailOK`, `QueueOK`, `FramesOK`, `SlotOK`: wherever it is, it is the request or answer of this
  transaction, and every other frame in the pipeline is ignored by `OnCapturedFrame`;
- `Counts`: every dropped frame is counted and no counter wraps.

So a frame that the task takes is the answer to its request, and a wait that expires has lost it to the
full queue: `Punctual` lets the timer expire only when nothing is under way. The copy may be preempted
anywhere, since nothing is left to overwrite the slot. (TLC: 4 554 254 states of `Tester_prompt`.)

`AnswersCreditedOnce` is about every such ECU again, and every interleaving, drop and overwritten slot,
with the copy preempted anywhere and any number of times: an answer may be reported to a later request
than its own, but to one only, provided it was read from whole frames. The condition is part of the
property, in `credit`, and not an assumption about the code: the copy does tear, and a torn frame may
have the service identifier of one answer and the ordinal of another. Without the condition the property
is false, and TLC refutes it on `Tester_service`.

`EachWholeAnswerOnce` speaks of `credit`, what was reported so far, and is preserved by a report only if
the answer in the client's hands is a new one. The invariant `OrderInv` therefore says that answers stay in
the order of their requests all the way through the system:

- `InOrder`: there are thresholds `c <= h <= q <= e`. The ordinals credited are at most `c`; those of what
  the client holds in slot, copy, reassembly buffer and response are in `c + 1 .. h`, of what the drain
  task holds in `h + 1 .. q`, of what is in the capture queue in `q + 1 .. e`, of what the ECU still has to
  send above `e`, and within a place they increase. Only single and first frames have one; that a buffer
  is the answer of the First Frame that started it, whatever consecutive frames were lost or came from
  elsewhere, is what the lemmas on `RxFeed` contribute. Of the client, once its transaction is `torn`, only
  the slot is in order; before that, a copy of which nothing tore is the frame in the slot or a complete
  earlier one (`WholeSoFar`, `SnapshotTold`). A negative response has no ordinal, and no positive one of
  these services begins like it (`PositiveTold`);
- `Mail`: the requests in the mailboxes are further ones than those the ECU has answered, and none is
  there that was not asked;
- `Turns`: of the requests asked all but the one of this transaction are reported, so that no ordinal
  in the system is greater than the place in `credit` that the next report fills;
- `Budget`: no more requests are asked than were submitted, which keeps ordinals below 256, where a
  byte tells them apart, and requests fit one frame, so the client never waits for a flow control.

Each step of the system moves frames over a threshold or drops them, and dropping keeps the order.
(TLC: `OrderInv` on the 334 854 states of `Tester_service`.)

### Model-checked only

- Liveness (`FramesReachHostOrHalt`, `BusOffRecoversOrHalt`, `LossReportedOrHalt`, `Completion`,
  `ServesEveryRequest`): out of the prover's reach under fairness.
- `TypeOK`, `WholePacketsArrive`, `ChunksDoNotMatter` and `DataSurvives` of `HostLink`: they rest on what
  `Parse` and `Crc8` compute for every input, which is recursion over data and needs an induction the
  provers cannot instantiate; the CRC is bitwise besides (`Bitwise` is out of their reach too).

## 5. Disagreements between comments and code

Six of them are runs that TLC refutes; `PROJECT.json` quotes the lines.

1. *One slot is not enough* (`A/CanLogger_UdsClient.c:231-232`). The drain task outranks the UDS task
   and empties the queue first; two frames captured close to each other overwrite each other in
   `s_rxFrame`. With block size 0 and separation time 0, which the tester itself asks for, this is how
   a long answer normally arrives.
2. *TIMEOUT without a wait* (`A/CanLogger_UdsClient.h:85`). The notification is not cleared with
   `s_rxValid`, so one left over from an earlier frame ends a later wait at once.
3. *Torn snapshot* (`A/CanLogger_UdsClient.c:57-59`, `:263`).
4. *Ignored frames end the transaction* (`A/CanLogger_IsoTp.h:66`, `A/CanLogger_UdsClient.c:339`).
5. *No second flow control* (`A/CanLogger_IsoTp.c:126`) for a block size other than 0.
6. *The wire format is not the host's* (`README.md:37`, `A/CanLogger_HostStream.h:14`). `memcpy` counts
   cells of 16 bits and the port sends the low octet of each, so the host finds octets of time stamp,
   identifier, flags and length where it expects the time stamp, and half of the identifier's octets;
   in a STATUS packet the time stamp and the two counters. Flags, length, channel and data arrive
   (`DataSurvives`).

More are visible without a run: an oversize First Frame is not answered with
FC.OVFLW (`A/CanLogger_IsoTp.c:172-173`; `FeedFirst` and `HandleFed` send nothing), and a flow control
of status WAIT does not hold the sender (`A/CanLogger_IsoTp.h:60`; `FeedFrame` in phase `fc` goes on
whatever the frame is; a TODO in the code says that no flow control is parsed). "3 Mbaud keeps the link
ahead of 5 Mbps capture" (`platform-config/canlogger/Platform_CanLogger_Cfg.h:65`): a FRAME packet with
64 bytes of data is 84 octets, 840 bits or 280 microseconds on the link; by the estimate of
`CanLogger_BusLoadPct` (40 + 8 x 64 bits at 5 Mbit/s) the frame takes 110 on the bus. Under sustained load
the queue fills whatever its depth; what the models show is that the loss is counted and reported.
`Platform_CanLogger_Cfg.h:17` and the README call `canfd_bittiming.py` with `--clock`, `--nominal` and
`--data`, and the script reads no arguments.

## 6. Not modelled

- Rates and periods. Time is abstract everywhere: a wait may expire, the monitor's period may come
  round, the keep-alive may fall due whenever their conditions hold. The budget of the serial link is
  arithmetic (section 5), and the drift of the keep-alive, whose period restarts with every request
  (`A/CanLogger_UdsClient.c:389`), needs a clock the models do not have.
- The bus-load percentage, TEC and REC as numbers: data that no control depends on.
- Stack and heap budgets; the models let every allocation fail and the stack overflow at any time.
- Behind the parser: statistics, CSV, display and the demo source of the host tool (formatting, I/O).
- The bit-timing solver (a floating-point search without state).
- Drivers and kernel (not in the repository) and the microSD writer (not written yet).
