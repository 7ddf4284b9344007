# ModbusRTUComm in TLA+

A verification project for the ModbusRTUComm library: the Modbus RTU master
transport in `src/src/ModbusRTUComm.cpp`, with the Arduino backend and the GIGA serial
adapter it runs on. TLC checks the modules on small instances; TLAPS proves, for every
instance, the safety of the receive ring, the next-TX gate, the frame extractor, `readAdu` and its
drain, the request cycle, the life of the RX task, the adapter registry and the transmission
through it. Line numbers without a file are those of `src/src/ModbusRTUComm.cpp`; "Giga" is
`src/src/platform/giga/GigaBufferedSerial.h`.

## 1. The system

One owner (a sketch or a worker thread) calls `begin`, `setTimeout`,
`setPreTxGapUsOnce`, `setPostTxGapUsOnce`, `writeAdu` and `readAdu`. On mbed
targets an RX thread may run beside it. The two share the RX ring, the atomics
`_lastRxByteUs`, `_lastTrafficMs`, `_rxOverflowCount` and `_rxReadableHint`, and
nothing else. A callback of the serial driver wakes the RX thread.

| Part | State | Operations | What is hard | What makes it correct |
| --- | --- | --- | --- | --- |
| RX ring (522-604, 1019-1022) | `_rxRing`, `_rxHead`, `_rxTail`, `_rxOverflowCount`, `_lastRxByteUs` | push, pop, peek, count, drop, hard clear, reset | one producer and one consumer without a lock | a FIFO: entries whole, in order, losses counted |
| Next-TX gate (246-332) | `_txGateStartedUs/Ms`, `_txGateDurationUs`, `_oneShotPostGapUs`, `_lastTrafficMs` | replace, extend, remaining, coarse expiry, watchdog, one-shot gaps | two clocks that wrap; live gates that must stay, stale gates that must go | no frame before its holdoff, no wait for a dead gate |
| writeAdu (1517-1670) | DE pin, UART | drain, wait, send, release, new gate | partial writes, failed drains, order of DE and the last bit | DE covers the frame, silence around it |
| Extractor (606-803) | reads and drops ring bytes | `_extractNextFrame` | noise, fragments, split frames, T1.5/T3.5 with wrapped stamps | a well-timed frame is delivered whole |
| readAdu (1047-1515) | `RxTxnCtx`, dedupe history, `_timedOutPending` | WAIT_FIRST, RX_ACTIVE, LATE_WINDOW, PROCESS_FRAME, DRAIN | timeouts racing answers, old bytes, babbling lines, duplicates | returns in bounded time, result and ADU agree |
| Drain (927-1035) | `drainStartUs`, the ring | parse and throw away until T3.5 of silence, or escape | three loads that the RX thread may separate | idle means idle |
| Request cycle | the caller's ADU, `_txSeq`, `_lastAcceptedFrame`, `_timedOutPending` | requests, retries, answers | late, repeated, missing answers; an ADU that a failure emptied | a read returns the answer to its request |
| begin (125-237) | timing constants | stop, configure, reset, wait for silence, start | a line that is never silent | the state the others start from |
| RX task (334-468) | task handle, semaphore, hint | attach, start, replay, wake, ingest, stop, detach | edges lost or signalled at the wrong time, starts that fail | every readable edge leads to a poll, no signal on a freed task |
| GIGA adapter and registry | slots, UART buffer | construct, destroy, place, write, flush, wait for the estimate | a fixed number of slots, a UART that stalls, a wait by the clock | slots hold live adapters, DE low after the last bit and before the answer |
| GIGA serial format | none | decode | two tables of formats in two files | they agree |

The interactions: `writeAdu` and `readAdu` both end or begin with the drain; the
drain calls the extractor and the gate; the extractor is the ring's consumer; the
RX thread (or, without one, the owner in `_ingestPoll`) is its producer. The adapter's
place in the registry decides whether there is a callback, hence an RX thread, and by
which of two ways `writeAdu` waits for its bytes to leave.

## 2. The modules

| Module | Models | Composed of |
| --- | --- | --- |
| `BoundedFifo` | the promise of the ring, abstractly | |
| `RxRing` | the ring, one step per access to something shared | `INSTANCE BoundedFifo` |
| `RxRing_proofs` | theorems about `RxRing` | `RxRing`, TLAPS |
| `TxGate` | the gate, the one-shots and `writeAdu` | |
| `TxGate_proofs` | theorems about `TxGate` | `TxGate`, `Clock_proofs` |
| `RtuCandidate` | the contract of the extractor: what it may answer, given the stamps | |
| `FrameExtract` | the extractor on real bytes | `RtuCandidate` |
| `FrameExtract_proofs` | theorems about `FrameExtract` | `FrameExtract`, `Clock_proofs` |
| `RxTransaction` | `readAdu`, the drain, polled and threaded ingress | `RtuCandidate` |
| `RxTransaction_proofs` | theorems about `RxTransaction` | `RxTransaction`, `Clock_proofs` |
| `RxTask` | `begin`, the destructor, the event task, the callback | |
| `RxTask_proofs` | theorems about `RxTask` | `RxTask`, TLAPS |
| `LinkTiming` | timing constants from rate and format, both format tables | |
| `GigaRegistry` | the slots, construction and placement of adapters | |
| `GigaSerial` | a transmission through an adapter | `GigaRegistry`, `LinkTiming` |
| `GigaSerial_proofs` | theorems about the registry and the transmission | `GigaSerial`, `Clock_proofs` |
| `BusProtocol` | requests, answers, retries | |
| `BusProtocol_proofs` | theorems about `BusProtocol` | `BusProtocol`, TLAPS |
| `Clock_proofs` | lemmas: differences of readings of a clock that wraps, a coarse clock beside a fine one | TLAPS |
| `MC...` | values for TLC | |

Definitions have the names of the code where TLA+ allows it. `PROJECT.json`
("map") gives the lines of each.

**RxRing.** `head`, `tail`, `ring`, `overflow` and `lastRx` are the members of the
same meaning. `pPc` and `cPc` are the places inside `_pushRxByte` and inside
pop, peek or the hard clear. The code uses acquire and release on both indices,
so an interleaving of the accesses in program order is what the hardware may
do. `cKnown` is a ghost: how many entries the last `_rxCount()` vouches for.

**TxGate.** `t` is true time; `micros()` and `millis()` are derived from it and
both wrap. `holdoff`, `preLeft` and `silence` are true times by which
the wrapped arithmetic is judged; they count down or up with `t`, `setAt` is when the gate was
set, and no guard reads them. `pc` follows `writeAdu` from the drain to its new gate, with the
failures of `write()` and of `waitForTransmitDrain()`.

**RtuCandidate and FrameExtract.** `Outcomes(s, now)` is the set of answers
`_extractNextFrame` may give for a run of stamps. `FrameExtract` has the
algorithm on bytes, with the length rules, the CRC and the limit of a scan, and states
`Extract(ring, now) \in Outcomes(...)` (`Contract`), which is checked and proved. This
is what lets `RxTransaction` forget the bytes: a byte there is its stamp, and the
choice in `Outcomes` stands for all contents. `Extract` answers for one instant;
`RxTransaction` separates the count (666) from the rest.

**RxTransaction.** One pass of the loop is `LoopHead`, `Look`, `Count`, one of
`CarveNone`/`CarveCandidate`, then one of the `Judge` actions; `PROCESS_FRAME` is
`Classify`, a pass later, as in the code. The drain is `DrainCall`, `DrainHead`,
`Count`, `DrainCarve`, `DrainSample`, `DrainLoad` and a decision. With an RX thread
(`Threaded`) bytes and time come between any two of these steps; without one, time
and bytes are seen only where the code reads the clock or the UART, and `Moment`
says where. `heard`, `lost`, `quiet`, `hush`, `age` and `lag` are ghosts.

**RxTask.** The owner's place in `begin`, the destructor and the backend is `pc`, the
thread's place in `_rxThreadMain` is `task`; the callback is an interrupt and one step. A
task is a number in `live` while it is allocated, `handle` is what `_rxThreadState`
holds, `state` the pointer the backend keeps for itself, so that a signal between
`delete` and `handle = 0` can be told. `AttachRefused`, `StartSkip` and `LaunchFails` are
the three ways to end without a task. Bytes are counted only (`uart`). External: mbed
reports the change from empty to readable once, and at once when a handler is
installed. `wild` is a ghost: where the owner was when something freed was signalled.

**GigaRegistry and GigaSerial.** A port is an address at which an adapter may be
constructed. `GigaSerial` starts `writeAdu`'s transmission at DE high: `WriteSome` and
`WriteStall` are the loop of `write`, `Lookup` asks the registry, then either the flush
or the two readings of the clock of the estimate loop (`WaitAgain`, `WaitPause`), the
delay, and DE low. The UART is external and kept as `wireUs`, the time its accepted bytes
still need in the format the adapter gave it, while the driver waits by what `begin`
computed: `LinkTiming` has both tables. `sure` is a ghost: the wait ended by the estimate
or by an empty buffer, not by the time-out of `flush`.

**BusProtocol.** A step is one frame or one decision; `Answer` and `Stray` put frames on
the line at any moment the owner waits. `queue` stands for what was received and not yet
extracted, `adu` is the caller's ADU as the library leaves it: a failed read sets its length to
0, and `updateCrc()` of such an ADU writes over unit and function code (`Scrambled`,
`src/test/support/ModbusADU.cpp:104-109`). `sent`, `cur` and `cleared` are ghosts: what was
asked, which request the ADU stands for, when the line was proved idle for it.

## 3. The runs

Every run is exhaustive for its bounds.

| Run | Instance | Question |
| --- | --- | --- |
| `ring` | 3 slots, 2 entries | the ring under all interleavings, as a refinement of `BoundedFifo` |
| `gate` | micros() wraps at 32, millis() at 64 us, true time 60-96 | gate and `writeAdu` over both wraps |
| `extract` | 13 bytes, 4 of noise, frames of 5, 6 and 8 bytes, scans of 8 | extraction at every moment |
| `read_polled` | 1 call, bytes without end | bounded and eventual return |
| `read_thread` | 1 call, RX thread, rests of 4 and 12 | the same, with old bytes |
| `read_retry` | 3 calls, 4 bytes, T3.5 of 2 units | sequences of calls, duplicates, idle proof |
| `rx_task` | 3 calls of `begin`, 4 bytes, a UART of 2 | the life of the RX task |
| `giga` | 3 adapters, 2 slots, 6 formats, 2 rates, frames of 1, 4 and 5 | registry and transmission |
| `bus` | 3 writes, 3 reads, a stray, a repeat, over a wrap | whose answer a read returns |
| `read_race`, `read_preempt`, `bus_shortwait` | | divergences, section 6 |

What the properties say:

- `ring`: `NoSlotRace`, the producer never writes the slot that is being copied;
  `KnownIsThere`, a count stays a lower bound until the consumer itself removes;
  `FifoSpec`, the ring is the bounded FIFO.
- `gate`: `NoEarlyStart`, a frame starts only when the holdoff of the last one is
  over in true time, or one of the two rules that drop a live gate on purpose was
  applied; `PreGapKept`, the same for a one-shot pre-gap; `NotRevived`, the driver never
  waits for a dead gate, if it is `Attended` (sections 4 and 6); `FrameSilence`, T3.5 between
  two frames, where the cap on the holdoff of a broadcast covers it; `DriverOrder`, DE covers
  the frame.
- `extract`: `Contract`; `Delivered`, a call that consumes a byte of a well-timed
  frame consumes and delivers exactly that frame, whatever noise came before it.
- `read_polled`, `read_thread`: `ReturnBounded`, a call returns within the escape of
  its receive phase, that of the drain, and six passes; `SilentWait` (polled), a silent line
  is given up only after read timeout plus late grace; `WindowsAreCurrent`, the receive
  windows never hang on a stamp from before the call; `Returns`, liveness.
- `read_retry`: `ResultAgrees`, SUCCESS exactly when the ADU holds a frame;
  `OnlyEchoesAreDropped`; `IdleIsReal`, the drain reports idle only if the line was
  silent for T3.5 less one pass.
- `rx_task`: `NoWildSignal`, a freed task or driver is signalled at most in the window the
  facade leaves to the platform; `NoLeak`, between two calls exactly the running task is
  allocated; `OneProducer`, begin meets no thread in the ring or at the UART; `Ingested`,
  no edge is lost, and `CallReturns`, both liveness.
- `giga`: `SlotsAreLive`, `FullIsFull`, `AdmissionIsFinal`, the registry; `LinkAgrees`, the
  two format tables agree and the envelope holds the longest legal frame; `DrainCovers`,
  DE goes low after the last bit; `ReleasedInTime`, and before a slave may answer.
- `bus`: `AnswersTheRequest`, the frame a read returns answers the request in the ADU, or
  is one the driver had no means to tell from it: the answer to a request that was never read
  for; to one that was given up, if it came later than the shortest wait; to one that was
  answered, if by an answer to another, or if that answer was forgotten (a later one was
  accepted) or is older than the dedupe window;
  `StaleIsDrained`, it did not come in before the line was proved idle for the request;
  `GenuineIsTaken`, an answer to the request is dropped only as an echo of the one
  before; `NothingForNothing`, an ADU that was never sent is never answered.

### Bounds and why they are enough

- *Ring:* with 3 slots the ring is empty, partial and full, and wraps at each index.
  Entries whose two halves differ show any mixture. The proofs cover the rest.
- *Gate:* 2 us to the millisecond and small wraps; what matters is kept in proportion:
  the longest gate is just under half of micros(), millis() wraps after micros(), rests
  reach past both, and a pre-gap of 20 is cut to the bound of 15. `MaxTime` stops calls.
  `GateAssumption` holds for the code at every rate: T3.5 is below the half range and below the
  5 s of the watchdog, 2^32 ms are a whole number of turns of micros(), and the longest gate, a
  drain and a pass take less than a turn.
- *Transaction:* micros() wraps at 16, the half range is 7, and `Start` puts the wrap
  into the first call; T1.5 < T3.5 < escape as in the code. `Room` is less than what the
  line can send, so overflow happens. `MaxCalls`, `MaxBytes` and `MaxRest` bound a
  behaviour. `MaxBytes` = 0 is an endless line, which liveness needs. `TransactionAssumption` asks that
  a pass of a loop takes less than a quarter of the range of micros() (18 minutes). CHECK_DEADLOCK is off
  in these runs because the owner stops after `MaxCalls`.
- *Extraction:* 13 bytes hold two frames, or noise and the longest frame; 4 bytes of noise make a
  complete candidate with a bad CRC (9 is a function of unknown length), or one of impossible length. A scan ends at `MaxLen` = 8 bytes (256 in the code) with up to 5
  more queued behind it. `MaxQuiet` keeps a silence below a turn of micros(): one of a whole turn,
  with nobody reading meanwhile, would look like none. `BodiesAssumption`: the good
  frames are those whose length the driver can tell; section 6 says what happens to others.
  CHECK_DEADLOCK is off because the bytes run out.
- *RX task:* three starts let a task be started, stopped, fail and be started again, and then
  be destroyed; a semaphore that saturates at 2 is full after an edge and a stop. Two passes of
  silence are the least in which a byte can restart it. CHECK_DEADLOCK is off because a
  destroyed driver does nothing.
- *GIGA:* one slot less than adapters. `Second` = 8 and rates 4 and 8 make characters of 10 to
  24 us, around the sleep (9) and the short wait (3) as on the wire around 19200 baud;
  frames of 4 and 5 fill and overrun the buffer of 3 and the shift register. Transmissions
  begin at 0 and shortly before the wrap at 256. The instance
  satisfies `Prompt`: two characters, a sleep and four preemptions in T3.5. On the wire that holds
  up to about 16000 baud and, with the fixed timers, from about 30000 on; in between (19200 and 28800
  among the usual rates) a preemption between the two readings of Giga 147-149 may cost a sleep
  of a millisecond more, and DE low comes after T3.5.
  The UART takes a byte only when its buffer has room; `write()` and `flush()` give up after 15
  when the wire is too slow, and go on when it makes room in time.
- *Bus:* micros() wraps at 5 and a rest of 4 with an exchange crosses it, so the dedupe window
  is met again a cycle later. Three writes and three reads let an answer be forgotten: one
  accepted, one accepted over it, and the late repeat of the first. Read timeout 2, late grace 1 and
  envelope 1 keep the three ends of a wait apart. CHECK_DEADLOCK is off because the owner stops at
  `MaxTime`.

### Fairness

`RxTransaction!Fairness`: the owner's steps and the RX thread are weakly fair, since
neither blocks inside a call (the code polls) and the scheduler runs both. Time (`Tick`)
is strongly fair: it is enabled only at some steps of a pass, and a pass takes some time.
Nothing is assumed of the line or of the caller.

`RxTask!Fairness`: a call in progress, the thread and the driver's callback are weakly
fair. The two places that block, `acquire` and `join`, are not enabled then. No call is
ever demanded of the owner, and polling (`OwnerPoll`) is not fair: `Ingested` rests on
the thread alone.

### Mutants

Every property of a passing run has a plausible defect that violates it, an operator
marked "Defect" beside the definition it replaces.

## 4. The proofs

`RxRing_proofs` proves, for every capacity, every set of bytes and stamps and every
counter width allowed by `RingAssumption`:

- `RingTypeCorrect`: `Spec => []TypeOK`;
- `RingNoSlotRace`: `Spec => []NoSlotRace`;
- `RingKnownIsThere`: `Spec => []KnownIsThere`;
- `RingImplementsFifo`: `Spec => FifoSpec`, the ring implements `BoundedFifo` with
  `Content` (the entries from tail to head) as its queue.

None of them is inductive by itself. The invariant `IInv` adds: a producer past its
full test still has room (only the consumer moves tail, and only forwards), the slot
written so far holds what was pushed so far, the slot being read lies between tail and
head, the copy so far equals it, and the value of the hard clear still lies between tail
and head. Lemmas about `NextSlot`, `SlotAt` and `Count` do the modular arithmetic
once. The refinement shows that each step is a step of the FIFO or a stutter:
`PushPublish` accepts, `PushFull` refuses, `PopStore` removes, `PeekReturn` looks,
`ClearTail` discards.

`GigaSerial_proofs` proves, for every set of ports and every number of slots allowed by
`RegistryAssumption`:

- `SerialUsesRegistry`: `Spec => RegistrySpec`, the transmission takes no step of the
  registry but those the registry allows;
- `SerialSlotsAreLive`, `SerialFullIsFull`: `Spec => []SlotsAreLive`, `Spec => []FullIsFull`;
- `SerialAdmissionIsFinal`: `Spec => AdmissionIsFinal`.

The invariant `RegistryInv` is type correctness of the registry with both invariants. They
need each other: `destroyAt` runs no destructor twice because a registered adapter is
alive, and a new adapter is in no slot because slots hold live ones only. `LeastSlot` and
`FirstFreeFits` say that the search of `_registerInstance` finds a free slot if there is one.

About the transmission it proves `SerialTypeCorrect`, `SerialLinkAgrees`, `SerialDrainCovers` and
`SerialReleasedInTime`. The last two assume `Legal`: the formats are those of Modbus RTU, and an
estimate is less than a turn of micros(), which 256 bytes are at every rate; the last one also
`Prompt` (section 3). `MCGigaSerial` has TLC check that its instance satisfies both. The
invariant `Paced` follows the bytes: while the driver writes, the wire has no more to do than the
characters it was given, and exactly that if the frame fits the buffer (`BufferedIs`: such
a frame never meets a full one). In the loop of the estimate there is a time `e` since it began
(`Waiting`), with what is left on the wire bounded by `e` from above and, for a frame that fits,
silence bounded by `e` and one preemption too (from the end of `write()` to
the start of the clock); the loop ends with `e` at least the estimate and at most a sleep and
two preemptions after it.

`RxTask_proofs` proves, for any number of starts, bytes and tasks and any size of the UART
and the semaphore, `TaskTypeCorrect`, `TaskNoLeak`, `TaskNoWildSignal`, `TaskOneProducer` (as
`Spec => []` of the properties of those names) and `TaskNoLostEdge`. The invariant `IInv` says
for every place of the owner which task is published (`handle`), held by the backend
(`state`), allocated (`live`) and running (`Lifecycle`), and how the two halves of the
callback stand to `attached` (`Attachment`). `NoLostEdge` is the safety half of `Ingested`: a
byte in the UART has an edge not yet reported, a wake in the semaphore, or the thread at work;
`Watched` carries it through `begin`, where the hint stands for the wake until the replay.

`BusProtocol_proofs` proves, for every set of requests, every time-out and width of micros()
and any number of calls and frames, `BusTypeCorrect`, `BusStaleIsDrained`,
`BusNothingForNothing`, `BusAnswersTheRequest` and `BusGenuineIsTaken`. The parts of `IInv`:
`Clock` (nothing is later than now, the queue is in the order of its stamps and holds nothing
from before the last drain), `Origin` (every frame is a stray or the answer to its request),
`InHand` (what the ADU asks is what was sent last), `Waited` and `GivenUp` (a request that was
given up had the shortest wait), `Memory` (what the transport remembers is what the last answered
request was matched with). `BusGenuineIsTaken` is an action property and follows from these.

`TxGate_proofs` proves, for every length of the gaps, every pair of clocks that `GateAssumption`
allows and any time, `GateTypeCorrect`, `GateDriverOrder`, `GateNoEarlyStart`, `GatePreGapKept`,
`GateFrameSpacing`, `GateFrameSilence` and `GateNotRevived`.  The heart is `Held`: there is a true time `g` of
which the two stamps of the gate may be, such that what is left of the gate from `g` on covers
the holdoff, the pre-gap and the silence that are still owed. However often the clocks went
round since, the program takes the gate for no older than that: what it computes as
remaining is never less than what is left (`RemainingCovers`), and the coarse age retires no gate
before it is over (`CoarseIsOver`). That the watchdog drops
no silence that is still owed is `WatchdogIsIdle`. `GateFrameSilence` assumes that the cap on the
holdoff of a broadcast covers T3.5; `GateFrameSpacing` assumes nothing and gives the smaller of
the two.

`GateNotRevived` is the other direction: the program never takes an old gate for a younger one. It
assumes `Attended`, that every drain begins less than a turn of millis() after the gate was set;
a driver left alone for longer does wait once for a dead gate (section 6).
`Owed` says that the gate, from `setAt` on, is never longer than what it was set for; `Young`
follows its age from the drain, where millis() proves that it is hardly older than it is long
(`DrainIsYoung`), through the escape and the passes of the wait. As the two together stay below a turn of micros(),
what the program computes as remaining is what is left (`RemainingIsLeft`).

`FrameExtract_proofs` proves, for every check value, every set of good frames of predictable
length, any noise, ring and limit of the scan, `ExtractTypeCorrect`, `ExtractContract` and
`ExtractDelivered`. The contract needs no invariant: `ExtractKeeps` is about every run of entries
and every reading of micros(), reachable or not, and so is `SilentIsRead`: on a line silent for
T3.5 no call leaves the ring as it was. `Delivered` needs `Framed`: a byte of a good frame in the ring stands in
its whole frame `F`, from some place `k` on (`StandsAt`): the bytes are those of `F`, their
gaps at most T1.5, before them is a silence of T3.5 or nothing, and what is missing is what is
still `coming`. `ScanWhole` says that a scan that begins at `k` delivers `F`, `ScanWaits` that it
waits while the frame is unfinished (`Unfinished`), `Spared` that a scan that begins before `k` stops
before it: the silence is in the way. The three kinds of step that move a frame are `StandsFirst`,
`StandsMore` and `StandsShifted`. No induction over the bytes is needed, since
`Extract` says which byte stops the scan (`Min(stops)`) and does not count up to it.

`RxTransaction_proofs` proves, for every time-out, ring, number of calls and bytes, with and
without an RX thread, `TransactionTypeCorrect`, `TransactionReturnBounded`,
`TransactionSilentWait`, `TransactionWindowsAreCurrent`, `TransactionResultAgrees` and
`TransactionOnlyEchoesAreDropped`. `Typed` adds to the types that there is no half-pushed byte in
polled mode. `Phase` says which place of a pass belongs to which state of the machine,
`Answer` how the flags, the ADU and the result go together: from these two, `Control`, the last
two of these theorems follow. `Timed` is about readings of a clock that wraps. While a read is before
its drain, `now` is `age` after `startUs` (`Clocked`), and a pass begins no later than the escape or
up to two passes after it (`InTime`); so every reading lies within less than half a turn, and the unsigned
and signed comparisons of the code mean what they say (`WindowIs`, `SignedOrder`). `AnchorInside`:
whatever stamp a byte bears, the anchor the code makes of it lies inside the call. The drain has
its own start (`DrainInTime`), `Waited` carries the deadline of the late window and
`Opened` the first activity. Of the extractor only the contract is used, and only that an outcome
consumes no more than was counted.

`TransactionIdleIsReal` assumes `~Threaded`. By `Silence` there is a true time `e` since the
byte noted last, of any number of turns of micros(); the line has been silent for `e` or T3.5 unless a byte
waits in the UART, and what a pass of the drain decides by is no older than that pass. The program
sees `e` modulo a turn, so it can take a long silence for a short one, never the other way round.
The step that needs the hypothesis is a byte between the reading of micros() and that of
`_lastRxByteUs`: without an RX thread none is noted there, with one `read_race` shows what happens.
A line with a hard recovery behind it, and a byte lost to a full ring, stay excluded by the property.

`Clock_proofs` has what both clocks need: uniqueness of quotient and remainder, the
difference of two readings, rounding to milliseconds, and how far a coarse clock can be from a
fine one when both have wrapped (`TurnIs`, `TurnUnseen`).

What the attempts found, before they became proofs:

- `AnswersTheRequest` with two excuses, and a `BusAssumption` that bounded the dedupe window, did
  not survive a third request: the transport remembers one frame only, and a late repeat of the one
  before is taken (`Forgotten`). The property says so now, the assumption is gone, and `bus` has
  three writes.
- `ReturnBounded` with five passes was not inductive, and TLC found a read of six when passes take two
  units: a candidate found by the pass that reaches the escape is judged first.
- `FrameSilence` needs the cap on broadcasts to cover T3.5, and `NotRevived` needs an owner that is
  never away for a turn of millis(): two items of section 6.
- `Delivered` is false if a silence of a turn of micros() lies between two bytes in the ring (it looks
  like none), and for a frame of unknown length with a byte of noise right behind it. `MaxQuiet` and
  `BodiesAssumption` exclude them; the limit of a scan needs no hypothesis, and the run meets it.

Only model-checked: liveness (`Returns`, `Ingested`, `CallReturns`), which is out of the prover's
reach together with ENABLED and induction over recursive definitions, and `IdleIsReal` with an RX thread,
where it is false (`read_race`, `read_preempt`). Every other property of a passing run is
stated by a theorem.

## 5. Not modelled

- Wire format of requests and CRC values (a parameter of `FrameExtract`); field access of
  `ModbusADU`.
- The T1.5 overrides of old builds (161-167, off by default); rates of 0, which divide by zero.
- `MBUS_RTU_DRAIN_ESCAPE_US = 0`, which removes the escape and with it `Returns`.
- A line with constant noise in `begin` (220-227): it does not return, and `CallReturns` holds
  because the bytes of the model run out.
- `GigaBufferedSerial::end()` and a second driver on the same adapter: both take the callback
  away from a driver that does not learn of it. The one-byte peek buffer of `available()`.
- A callback on another core while `stopEventTask` runs: the window between `delete` and
  `handle = 0` is in the model and `NoWildSignal` allows it, since ModbusRTUPlatform.h:226-228
  demands the exclusion from the owner or the platform.
- A format outside RTU (7 data bits, 1.5 stop bits): `begin` counts ten bits whatever the
  adapter sends.
- A frame longer than the transmit buffer: the write loop waits for a part of it, the estimate then
  waits for all of it once more, and DE stays high too long (`Fits`).
- Backends other than Arduino and GIGA; the test backend.
- Metrics, traces, stack samples, serial diagnostics: no part reads them back. With
  `MBUS_DETAILED_METRICS` the overflow debug counter is written by both threads, and
  `_timedOutPending` decides only which counter a late frame goes to.
- A byte lost to a full ring does not touch `_lastRxByteUs`; `IdleIsReal` excludes it
  (`lost`), and the drain after a hard recovery (`seenRx = 0`), where the code takes a
  line for idle without a proof because 0 stands for "no byte yet".

## 6. Divergences

Three have a run that reaches them; `PROJECT.json` ("findings") quotes both sides.

1. `read_race`: the drain reads `micros()` at 973 and `_lastRxByteUs` at 975. A byte
   stamped in between and not yet published makes the unsigned difference huge while
   the ring is empty, and the drain reports idle.
2. `read_preempt`: the extractor counts at 666 and reads the clock at 762; a byte pushed
   in between is not in the copy, and the candidate is ended before it although it followed less
   than T3.5 after the last (a late byte after a real silence is no violation).
3. `bus_shortwait`: the frame envelope starts with the first frame of a wait, also with one
   nobody asked for, and ends the wait on an idle line before the read timeout, against the
   comment at 1275.

The following are plain from the code; the properties are stated around them.

- After a broadcast the holdoff is capped at 6 ms plus the base gap (1645-1655), which is less
  than T3.5 below about 6400 baud (8 ms at 4800), against README.md:18 and the comment at 1526. TLC shows it with
  T35 = 5, BaseGap = 0, IdleResetMs = 4 and MaxTime = 70 in `MCTxGate.cfg`: `FrameSilence` fails.
  The `gate` run is at a rate where the cap covers T3.5, `GateFrameSilence` assumes it, and
  `GateFrameSpacing` says what is left without it.
- The coarse age of a gate (275-289) is itself a difference of a clock that wraps: an owner that
  makes no call for a whole turn of millis() (49.7 days) finds a gate that is long over
  neither old by millis() nor, where micros() is in the same place of its turn, by micros();
  the watchdog (936-942) is as blind. The next frame then waits once for a dead gate, against
  README.md:119-120. TLC shows it with Rests = {1, 61}, PreGaps = PostGaps = {} and
  MaxTime = 140: `NotRevived` fails. In the `gate` run nobody stays away that
  long (`MCTxGate` has TLC check it), and the theorem has it as a hypothesis (`Attended`).
- After 5 s without traffic the watchdog erases a pre-gap asked for just before (936-942,
  1531-1535; `erased` in `PreGapKept`).
- `setPreTxGapUsOnce` (270) compares with a gate that came back with a wrap of micros(); the
  new gap then is not installed, and the drain ends the old one (`Swallowed`).
- A frame of unknown length that is followed by another byte is discarded, since its T3.5
  boundary counts as a T1.5 violation first (711, against 713).
- An answer equal to the last one and within the dedupe window of it, or of a whole cycle of
  micros() later, is dropped though a new request was sent (826; excused in `GenuineIsTaken`).
- A `writeAdu` that fails in its drain keeps the one-shot post-gap for later (1518 before 1556,
  against README.md:116).
- One bad CRC makes a read that fails later a CRC_ERROR although its last candidate was good
  (1476, against README.md:106).
- A retry of `writeAdu` with an ADU that a failed read emptied sends nothing and reports true
  (1554-1608).
- A drain that fails after an exception matched leaves the exception's function code in the
  ADU, and a second `readAdu` accepts exceptions only (1399-1402, 1432, 1469).
- An answer that comes in during the wait for the gate may be taken for the next one's (1537-1546).
- For an adapter without a slot the drain is `flush()`, whose time-out is not reported (Giga
  222-225, against ModbusRTUPlatform.h:170-171).

## 7. Plan

Done: 1. `RxRing` with `BoundedFifo` and its proofs; 2. `TxGate`; 3. `RtuCandidate` and
`FrameExtract`; 4. `RxTransaction`; 5. `RxTask`; 6. `LinkTiming`, `GigaRegistry` with its
proofs, `GigaSerial`; 7. `BusProtocol`.

8. The proofs of `RxTask`, `BusProtocol`, `TxGate`, `FrameExtract`, `RxTransaction` and of the
transmission in `GigaSerial`.

## 8. Running

    tlc -config MCRxRing.cfg MCRxRing
    tlc -config MCRxTransaction_polled.cfg MCRxTransaction
    tlapm RxRing_proofs.tla
    tlapm GigaSerial_proofs.tla
    tlapm RxTask_proofs.tla
    tlapm BusProtocol_proofs.tla
    tlapm Clock_proofs.tla
    tlapm TxGate_proofs.tla
    tlapm FrameExtract_proofs.tla
    tlapm RxTransaction_proofs.tla

The largest runs are `gate` (7.2 million states) and `bus` (4.2 million), a minute or two each,
and so is each of the four long proofs (`BusProtocol_proofs`, `TxGate_proofs`,
`FrameExtract_proofs`, `RxTransaction_proofs`).
