# moduleComm in TLA+

moduleComm is the firmware of a communication module on an Arduino (ATmega32U4, or
SAMD21 in the LoRa variant). Every few minutes it samples a battery box, keeps the
samples in an external EEPROM, compresses them there, and every few hours posts the
compressed stream to a server over GSM or LoRa. This directory models that firmware,
checks the models with TLC on small instances, and proves what matters most with TLAPS
for every value of the constants.

`PROJECT.json` holds the machine-readable side: for every definition the lines it
models, the runs, the theorems, the hazards, and for every checked property one
mutation of a definition that it refutes.

## 1. Inventory

| Part | Source | State | Operations | Hard about it |
|---|---|---|---|---|
| Scheduler | `Scheduler/task_scheduler.cpp` | table of 8 slots (task, delay, looptime), loop index | `sched_add_task`, `tick_callback` (1 Hz interrupt), `sched_mainloop`, sleep | the interrupt falls between and inside steps; a 32-bit read without `noInterrupts()`; running tasks add tasks |
| Storage manager | `Memory/storage_manager.cpp` to l.443 | two rings in the EEPROM, four pointers in RAM | `stor_start`, `stor_write`, `stor_read_comp`, `stor_end(_comp)`, `stor_abort(_comp)`, availability | data that meets a ring or page end; pieces that time out; full laps; resets |
| EEPROM driver | same file, l.334-443 | none; the device's: busy, write-enable latch | page writes, reads, waits with time-out | page wrap, instructions sent to a device that is still busy |
| LZFX compressor | same file, l.447-1024 | position in the raw ring, where to write, an open run or reference | one sample in, bytes of the stream out | headers written late, runs and references carried over, address arithmetic at the ends of both rings |
| Reporting task | `CommunicationModule/reporting_task.cpp` | retries over runs; one run's locals | `reporting_task`, `reschedule` | five nested retry loops over two devices that fail half way |
| GSM library | `GSMCommunication/gsm_communication.cpp` | `module_is_on` | `comm_setup/start_report/fill_report/send_report/abort` | all it knows it reads from a serial line, where late answers look like new ones |
| Sampling task, box protocol | `CommunicationModule/sampling_task.cpp` | sample buffer, tries | `sampling_task`, three dialogues of serial commands with retries | answers do not say which command they answer |
| LoRa library | `LORACommunication/lora_communication.cpp`, `lora_jobs.cpp` | `isJoined`, `isSent`, two jobs, LMIC | `comm_setup`, `comm_send_report`, `onEvent` | jobs and events run inside the loops that wait for them |
| Main sketch | `CommunicationModule.ino` | - | `setup`, `loop` | - |

How they interact: `setup()` adds `sampling_task` and `reporting_task` to the scheduler
and enters its loop. Tasks run to completion, one at a time; only the tick interrupt
preempts them. `sampling_task` asks the box for a sample, stores it and has it
compressed into the second ring. `reporting_task` reads that ring through
`stor_read_comp` into a `comm_*` session, confirms with `stor_end_comp` what the server
acknowledged, cancels with `stor_abort_comp` what it did not, and may add itself to the
scheduler as a one-shot. All shared state is the store's pointers and the task table.

What makes each part correct:

- Scheduler: no tick is lost, no task starts early, every ready task runs, the table is
  never corrupted by tasks that add tasks, the processor sleeps when nothing is ready.
- Storage manager: a FIFO with provisional reads; a sample is stored as it was given.
- EEPROM driver: what it reports as done is done; no other cell is touched.
- Reporting: only what the server has is confirmed; what is not confirmed is sent again;
  announced and sent lengths agree; every way out releases the store; it always returns.
- Compressor: what it has written, decoded, is what was stored; it keeps up; it returns.
- Box protocol: a field holds the answer to its own command; success means every field.
- LoRa library: a completion is about the packet it is taken for; the node never stops
  trying; packets keep going out.
- GSM library: what a call returns is true of the module and of the server; every call
  returns; no failure of the module locks it out for good.

## 2. Modules

| Module | What it is |
|---|---|
| `TaskScheduler` | the scheduler; interrupts between all steps, and inside the delay's read |
| `SchedulerTiming` | the scheduler with history: the clock, due times, overtakings |
| `MCScheduler`, `MCSchedulerLive` | their instances for TLC |
| `ByteLog` | abstract: what the store promises of the compressed stream |
| `SampleStore` | the storage manager, a call of the EEPROM driver being one step; refines `ByteLog` |
| `Eeprom` | the EEPROM driver, one instruction at a time, and the device (external) |
| `Reporting` | `reporting_task` over ByteLog's promise and `communication.h`'s contract |
| `GsmModem` | the GSM library, the serial line and the SIM800 module (external) |
| `Lzfx`, `MCLzfx` | the compressor, address by address, and where its runs begin |
| `BoxProtocol` | the dialogues with the battery box over a line with late answers |
| `LoraNode` | the LoRa library on LMIC's run loop (external) |
| `SchedulerProofs`, `StoreProofs`, `EepromProofs`, `ReportingProofs`, `GsmProofs`, `LoraProofs`, `BoxProofs`, `LzfxProofs` | the theorems |

**TaskScheduler.** `task`, `delay`, `looptime` are `task_list`; `i` the loop index; `pc`
whether the processor is in `setup`, tests a slot, runs its task or sleeps. A task may
add tasks while it runs. `TornTest` is the test of l.165 with a tick between the byte
loads: avr-gcc loads the low byte first, so a pending delay that is a multiple of
2^8, 2^16 or 2^24 is read with low bytes 0 and the high bytes already borrowed from.
`TearAt` is the set of those moduli, and empty on the SAMD21, which reads one word.

**SampleStore.** One array for the EEPROM, the four pointers, and what the running task
does with the store. A page write wraps within its page as the device does;
`write_eeprom`'s splitting is what keeps this from happening. A time-out hits before a
page is transferred, after it, or after a read. The compressor is reduced to what it
does to its ring: up to `MAX_EMIT` bytes per sample, of which any may be lost to a time-out
(`write_1_byte` drops the result) or miss its cell, and the header of an open literal
run, which is written when the run ends. An empty run that was begun in the ring's last cell
is undone to raw cell `MEMORY_SIZE` (l.551-553): this address may be published as
`adr_ecr_comp` (`Published`), the readers count as if it were the last cell (`Writer`), and a
reference that follows is written into the raw cell (`stray`). When the code does so is
`Lzfx`'s subject; here it may do so at any time. A byte of the stream is its place in the stream
modulo `PERIOD`; a byte of a sample its place in the sample.

**Eeprom.** `mem`, `wip` and `wel` are the device: it ignores all but RDSR while it programs a page
(`wip`), and WRITE without the latch (`wel`), which falls when a page is programmed. `pc` is the next
instruction of the driver or what it waits for, `data` the caller's buffer, `done` how far
`write_eeprom` has got. `SendWren` may be ignored; then `SendWrite` is too, and the call still
returns 0. `late` remembers a time-out of the session until the device has ignored one transfer
(`lost`). The device is busy only while it programs, so a session without writes (a report)
has no time-outs here. `SampleStore` and `Reporting` do not rely on this: there a read may
fail at any time. What `SampleStore` relies on is that the first call of a session finds the
device ready, and that a page that is reported as written was (`LostOnlyLate`, `DoneUnlessLost`): its
`stor_write` is first in its session, and a byte of the compressor's that is ignored after a
time-out is among those that `Compression` may lose.

**ByteLog.** The unconfirmed bytes, how many of them were taken, and `Take`, `Confirm`,
`Cancel`, `Produce`, `Restart`. It names the store's limits instead of hiding them: a
full lap forgets the oldest bytes, because the writer never looks at the reader
(l.321-332), a restart forgets everything, one header per sample may be late or never
written, and bytes of a sample may be wrong if the memory timed out or the compressor missed
their cells. So it does not forbid a lost byte or an unwritten header; it forbids that this
reaches any byte of another sample, or that bytes are skipped, repeated or confirmed unread.

**Reporting.** The stream is three places: produced, read, confirmed (`ecr`, `lir`,
`committed`). Each loop of the task is a `pc` with `tries`; each action is one call of a
device and everything the code does with its result. `contents` are the stream's bytes
really put in the report, `delivered` the bytes of the reports the server received; a
reply may be lost after delivery. Whatever ends a session, the module may stay on
(`Shutdown`, `SendOk`): nothing in the task depends on it. The one-shots of `reschedule` are
`jobs`.

**GsmModem.** `get_reply` sends a command and consumes input until the awaited text or
its time-out; `tx` and `rx` are the two directions of the line. Each step of the library
is a command with its awaited reply. The four `SAPBR=3` commands are one step, as are the
two `HTTPPARA`. The module is external and modelled by what the code relies on: it
answers in order, possibly after the time-out; it may refuse the bearer, miss the
network, or hang until the reset pin is pulled; in a data session it swallows commands;
it refuses `HTTPINIT` twice. The power key turns it off as well as on.

**Lzfx.** `entree` and `sortie` are the locals `adresse_entree` and `adresse_sortie`; a step is
one byte copied, one reference, or one return. All addresses are computed as in the code,
with `uint16_t`s that wrap and `int`s of 16 or 32 bits (`AsInt`). What the search finds is a
choice: bytes are not compared, so every sequence of literals and matches that some data
could cause is explored. A cell of the output is a token (`Lit` of a raw address, `Header` of
a length, `Ref` of a length), and `Decoded` reads the tokens back (`Read`). Reading the code brought
out eight cases in which a stream is spoilt; `slip` names the first that a behaviour meets:

| Case | Where | What happens |
|---|---|---|
| `first` | l.869 | the second sample of a batch begins with a match: the first one's 19 literals never get their header |
| `full` | l.507, 488 | a run filled to 32 skips the next header's cell, and the next literal skips one again |
| `stray` | l.553 | an empty run is undone from the first cell of the ring to raw cell 60000 |
| `wrapped` | l.669 | `adr_ecr - 19` underflows where the sample has wrapped |
| `null` | l.699 | raw address 0 is taken for `NULL`: compression stops for good |
| `stalled` | l.720 | with 32-bit `int`s the loop is not entered when the input wraps |
| `leftover` | l.102, 869 | a report starts a batch while bytes of the last sample are not taken |
| `missed` | `sampling_task.cpp:363` | `stor_write`'s result is ignored: the last sample is compressed again |

In `Lzfx.cfg` a behaviour ends at the first of them; up to there the stream must decode.

**BoxProtocol.** `coming` are the commands whose answers may still come. `send_command`
flushes some of them, sends its own and reads the first that comes. Of an answer the code
checks length, header and checksum; the model keeps the length, which is what lets an answer
pass for another's. A late answer to `CV1` is taken for `CV2`, and each later field of that
length is then one behind.

**LoraNode.** `comm_setup` and `comm_send_report` call `os_runloop_once` while they wait, so
`stack` holds the routines inside each other; only the innermost runs jobs and sees events.
`Return` is its loop ending by success or time-out. LMIC is external: its jobs, its one
packet, `OP_TXRXPEND`, and the events. `isJoined` is never reset and the job queued by
`EV_JOIN_FAILED` is not cleared by a later `EV_JOINED`: `SetupAgain` is `comm_setup` run then,
which discards session and packet and returns `COMM_OK` at once. This is the only way
routines come to be nested (`NestedOnlyByRejoin`), and `OkMeansOwn` allows `COMM_OK` for a
packet discarded so.

## 3. Runs

| Run | Shows |
|---|---|
| `sched_timed` | `NoDrift`, `AcceptedRuns`, `BoundedOvertaking`, and that a torn read is the only way to start early |
| `sched_live` | every ready slot is started, every pass ends in sleep |
| `sched_early` | *violation*: `task_scheduler.h:26` promises the delay; a torn read starts a task early |
| `store` | the store implements `ByteLog`; samples and readers stay in their rings, the compressor's address leaves it for one raw cell only; samples are stored byte for byte |
| `reporting` | only delivered bytes are confirmed, lengths agree, every way out releases the store; the task returns; every byte gets through |
| `reporting_integrity` | *violation*: `reporting_task.cpp:188` gives up a report that cannot be read; the failed read's 0 ends the retry loop as a success and the buffer is sent |
| `gsm` | `COMM_OK` of start, send and abort means what it says; one failure alone does not leave a started report without a connection; calls return; sessions are opened again |
| `lzfx` | unless one of the eight cases is met the stream decodes, the compressor keeps up, every call returns; no raw cell is written, and an address that is one is not written at (`RawRingKept`) |
| `eeprom` | what returns 0 is done unless the device ignored it, once after each time-out of a session and never before; no other cell changes |
| `lzfx_first` | *violation*: `storage_manager.cpp:447`, 561, 868: the stream is all stored data, each literal run terminated; the first sample's is not when the second begins with a match |
| `lora` | completions are credited to their packet, the node always has a job, nesting only by a repeated join, no shutdown of a joined node; it joins and keeps sending |
| `box` | fields keep their layout and are their own unless an answer was late; results are true; dialogues end |

`Reporting` says nothing of whether the module is off when the task returns: neither
`communication.h` nor the library promises it (end of section 5), and the task does not look.
What `comm_abort` and `power_off` do return is true (`AbortOkMeansOff`).

### Bounds and why they are enough

- Scheduler: 3 slots, two tasks, a one-shot. Two cyclic tasks and one slot to add to,
  with a full table as an everyday case. Requests with delay 0, 1 and 3. `MAX_LAG = 2`
  bounds how late tasks become, `MAX_CLOCK = 6` is past one period of the slower task.
  The tearing modulus is scaled from 256 to 3. The theorems have none of these bounds,
  except that `MAX_LAG` and `MAX_CLOCK` stand in them as arbitrary naturals.
- Store: rings of 4 cells, samples of 3 bytes, pages of 3 cells: coprime to each other or
  overlapping so that a sample meets ring end, page end and a page with cells of both
  rings at every offset. `PERIOD = 8` is two laps, so no stale byte passes for a new
  one. One fault per behaviour: an operation that times out or misses a cell, or a reset; the reset puts the pointers back
  while memory keeps its contents.
- Reporting: reports of at most 3 bytes, trimmed to 2, read in pieces of 2: a full piece,
  a short one, and a trimmed report all occur. 4 bytes of stream take more than one
  report. All retry limits are 2; `RETRY_CONNECTION_MAX_TRIES` is 0 in the code and 2
  here, since the mechanism is there to be configured. `FREE_SLOTS = 1`: a running
  one-shot occupies the only slot, so a one-shot cannot reschedule. Two failed reads.
  No lap of the ring: how much is forgotten then is `ByteLog`'s subject.
- GSM: tries, polls and retries of 2 (10, 60, 5 in the code), three faults. Every loop is
  left by success and by exhaustion; three faults suffice for a late answer in one report
  to be met in the next. With a fourth, three commands and a
  `CPOWD` may stay unanswered into the next report, and the late power-down then comes
  after that report's `AT`: `module_is_on` is set for a module that turned itself off,
  and `ModuleIsOn` fails. A module that lags by four commands is outside the bound
  deliberately; the report is then lost to retries and `comm_abort`. `StartOkMeansDownload`
  and `SendOkMeansDelivered` were also checked with five faults. `StartOkMeansDownload`
  is not true for every number: with eight, five tries of `CGATT?` stay unanswered, the later `OK`s of these tries
  answer one command each of the session that follows, and an `HTTPDATA` given up by one
  call lets its `DOWNLOAD` answer that of the next, with commands still queued that
  the module then swallows as the report. The theorems (section 4) say what excludes this.

- Compressor: rings of 31 and 26 cells, samples of 5, runs of at most 9, batches of 4, so
  that seven samples cross batch ends, ring ends and full runs at every offset: the runs
  begin at every compressed address, and at every raw address from which the end is near.
  References of 3 bytes from length 3. One sample that cannot be stored. `lzfx_first` begins
  away from the ends, to show that the case does not need them.
- EEPROM: two pages of two cells, calls of up to three bytes at every address, cells of two values, two
  polls. A call meets every way of being split; the device is ready at once, in time, just too
  late, or in a later call. Resets and time-outs are not bounded.
- LoRa: `MAX_DEPTH = 4` routines inside each other. The code has no bound; at the fourth
  level the model runs no more jobs that would nest. The theorems hold for every depth.
- Box: `MAX_BEHIND = 3` answers outstanding when a command is sent. Answers are late by
  seconds and commands take one, so more would need a box that lags by several time-outs;
  the theorems have no such bound. The real tables and `MAX_TRIES = 5`.

### Fairness

- `MCSchedulerLive`: weak fairness of the main loop and of the interrupt that wakes the
  processor; nothing about interrupts during a task. Tasks return (a task of the code
  that never did is `TaskReturns`, `CallsReturn` and `DialoguesReturn`).
- `Reporting`: weak fairness of the task and its cyclic slot (the scheduler's promise),
  and strong fairness of the success of each device call: a device that is tried again
  for ever works now and then. Without that nothing can be delivered.
- `GsmModem`: weak fairness of the library (its time-outs are counters), of the module as
  long as it neither hangs nor is off, and of the end of a data session. No fairness of
  a fault, and of no particular answer.

- `Lzfx`: weak fairness of the compressor: a call goes on.
- `LoraNode`: weak fairness of returns, jobs and timers: the loops poll, and time passes.
  Strong fairness of `EV_JOINED`, of the radio's turn to transmit and of `EV_TXCOMPLETE`: a
  gateway that is asked for ever answers now and then, and in time. `KeepsSending` assumes
  besides that from some time on joins do not fail, since a failed one may cost a session.
- `BoxProtocol`: weak fairness of the dialogue; `send_command` waits at most a second. None of
  the box.

Deadlock is checked everywhere but in the two scheduler runs with a clock, which stop at
`MAX_CLOCK`, and in those of the compressor, which stop at `MAX_SAMPLES` or at a spoilt stream.

## 4. Theorems

All hold for every value of the constants under the named `ASSUME`s. Every safety property of
the passing runs is stated by one of them, three of `GsmModem`'s under a hypothesis that is named.

- `SchedulerProofs`. `TypeOK` is inductive; `NoDrift` is inductive over it, since a tick
  moves clock and every counter together and a re-arming moves `due` and `delay` by
  `looptime`. `EarlyOnlyByTear` follows from `NoDrift` and what `Torn` does to a number;
  with `TearAt = {}` no start is early. `AcceptedRuns` needs that a running slot has run.
  `BoundedOvertaking` rests on `OvertakingInv`: while a slot is ready, the number of
  starts of others it suffered is bounded by the distance the loop index has gone,
  before and after the one sleep that may begin behind its back.
- `StoreProofs`. For every layout of the EEPROM. `PointersOK`: a sample's arithmetic stays in
  the raw ring and a read's in the compressed one, since it never exceeds the distance to the
  writer; the writer's address is in the compressed ring or raw cell `MEMORY_SIZE`, which
  counts as the ring's last cell (`WriterInRing`, `AvailableIsDistance`). `StoredExactly`, an action
  property, follows from it: the pieces that `stor_write` and `write_eeprom` cut do not
  cross a page's end, so none wraps in its page, and together they cover the sample's cells
  once each. `TypeOK` needs `PointersOK` for the header of an open run.
  Its second half: `SampleStore` implements `ByteLog`. The refinement mapping reads the log off
  the ring, from the first unconfirmed byte to the writer; `LogInv` adds to the store's
  invariant that the reader is between those two (`Taken \in Nat`), which is what makes
  `Take` possible where the ring is read in two pieces. Production is the difficult step: the log
  after it is the old one, with the header of an open run put in, followed by what was
  emitted, unless the writer laps the reader; then it is the last bytes only. Each action has its lemma.
- `EepromProofs`. For every size of device, page and buffer, every `TIMEOUT` and any cells. `EepromInv`
  is `TypeOK` and three parts. `ReadyInv`: between the waits of a session in which nothing is
  `late` the device is ready, and where it is given a page it has taken the WREN. `PlaceInv`: the buffer is
  one of cells of the device. `DataInv`: what the device has taken agrees with the buffer, up to
  `done`, and up to the next page's end while that is programmed. The page write's part is
  `ProgrammedInPlace`: from where it begins `LenPart` bytes do not reach past the page's end, so none
  wraps. `NoOtherCell` is an action property that follows from the same lemma.
- `ReportingProofs`. None of the properties is inductive: whether confirming up to the
  read position is sound depends on what the report in the session holds. `RInv` adds
  that: every byte between the confirmed and the read position is in the report's
  contents, none is taken outside a report, and what is left to fill in is there to be
  read (`StreamInv`); the session is open, announced = filled + available, the bus
  is as the step needs it (`SessionInv`); and the counters are below their limits
  where a loop goes on (`TriesInv`). `ConfirmedDelivered`, `ReadsInFull`,
  `SentAsAnnounced` and `ReleasesStore` are its consequences.

- `GsmProofs`. `TypeOK` and `AbortOkMeansOff`, for any tries and number of failures. `power_off` does not flush
  the line before it asks, so an old report of a power down could answer it; `OffInv` says
  that one is unread only while the module is off, or between the power key and the flush
  that starts the first `AT` try. This needs at least one try.

  Of a module that may lag without bound `StartOkMeansDownload` and `ModuleIsOn` are not true
  (section 3). These two, `SendOkMeansDelivered` and a stronger `ConnectedUnlessTwoFail`
  are proved under the hypothesis `[][Punctual]_vars`: no `get_reply` times out while the
  module is about to react. How often it refuses, has no network, hangs or is reset is not
  limited. `PunctualInv` has three parts: the line carries one command at a time, or the
  replies to it (`LineInv`); the module's session is where the library believes it is
  (`SessionInv`); a text that is unread, or was taken for an answer, is true (`TruthInv`).
  `comm_send_report`, which sends `HTTPACTION` while the report itself may still be under way,
  is the exception that each part names. Behaviours with refusals and hangs meet the hypothesis
  at every fault count; TLC reaches `COMM_OK` after the greatest.
  `StartIsConnected` sharpens `ConnectedUnlessTwoFail`: any number of punctual
  failures leaves a started report its connection, so one of the two is always a late answer.

  `OneFailureConnects` is `ConnectedUnlessTwoFail` itself, with no hypothesis. `OneFaultInv`:
  without a failure `PunctualInv` holds and the module does not hang; after one either
  `PunctualInv` still holds or `OneLate` does, which says what a line that is one command
  behind can carry. No power down and no `HTTPDATA` is behind a `CGATT?`, so an answer about
  the network comes from a module that stays on and ready; and while the bearer is closed a
  started session has `SAPBR=1` on the line, alone or next to one other command. Next to
  another no `OK` is unread, so the library gets no further than `HTTPINIT` before the
  module has met `SAPBR=1`.

- `LoraProofs`. For every depth of nesting. `LInv` ties frames, jobs and packet together:
  `comm_setup` waits alone and only while its job is not due (`JobInv`); until a join is
  repeated one routine at a time waits, and a transmission that waits has no job
  (`NestInv`); a transmission neither sent nor discarded is the one the radio holds and
  `isSent` is false (`PacketInv`). The last is why a completion cannot be credited wrongly: the
  next `comm_send_report` overwrites the packet of one that timed out.
- `BoxProofs`. For every `MAX_TRIES` and number of late answers. `LineInv`: an undisturbed
  dialogue has only answers to its own commands on the line, and none but the awaited one
  before the first late answer; `CountInv`: tries, failures and filled fields agree.

- `LzfxProofs`. For rings, samples and runs of every size and both boards, provided two samples
  and two bytes fit in the raw ring. `LzfxInv`: between calls `entree` is `adr_lir`
  (`IdleInv`), and in a stream that is not spoilt the bytes between `entree` and the end of
  the sample are at most a sample and what was left to it (`BehindInv`). So the loop
  conditions, whose `int`s are 16-bit unsigned or 32-bit signed, mean what they say
  (`LoopingMeans`, `FinalMeans`), a match cannot jump over the end, and `KeepsUp` and `NothingSkipped`
  follow: `lzfx_compress` sets `adr_lir` to the end of the sample only where it got there.
  The cases `missed`, `leftover`, `wrapped`, `null` and `stalled` are what the proof excludes.
  Type correctness does not need them: in spoilt streams too the raw addresses stay in the raw
  ring, and the output address in its own or at raw cell 60000, one before it.

  `DecodedIsWritten` is the compressor's promise itself, `DecodesUnlessSlipped`: between calls
  the stream decodes to the bytes taken. It also needs `BatchAssumption`: a batch that does not
  repeat anything fits in the compressed ring with one byte to spare (240 * 19 + 1 < 5535), a
  run in the raw ring (32), and a reference is shorter than what it stands for (2 bytes for 3 to 8,
  then 3). `DecodeInv` adds `StreamInv` to `LzfxInv`. It holds inside a call too: the stream
  is tokens that lead from `adr_lir_deb` to some raw address, then one cell for a
  header and the run that is still open, whose bytes lead to `entree` (`InStream`). Where the
  length of that run is kept depends on the place in the code: in `lit`, in `resultat`, or nowhere, before
  the second sample's first byte (`OpenRun`). `Bound` says that the stream is at most one byte longer
  than what it stands for, since all headers but one follow a reference; hence no cell is written
  twice in a batch but for headers, and the cells of less than a turn are different ones.
  After an empty run is undone the address may be raw cell 60000 instead of 65535 (`Undone`), which is
  harmless only if nothing of this batch follows: else it is the case `stray`. `RawRingKept`
  rests on `DecodeInv`: a reference written from cell 60000 is the case `stray`, and a run's bytes
  are copied only where the address is in the ring. The case `full`
  is excluded where a byte is copied, `first` where the second sample finds a match at its first byte.

  The code writes the stream from its beginning and `Read` consumes it from there, so a
  token added at its end is at the bottom of `Read`'s recursion. `Reads` says the same by a
  function from the places of the tokens to raw addresses, which is extended at the end
  (`ReadsMore`) and not disturbed by what is written behind it (`ReadsFrame`). That `Read` agrees
  (`ReadsIsRead`), and that the recursive definition of `Read` defines a function at all (`ReadIs`),
  are inductions. The library's induction theorems take an operator, which the provers cannot
  instantiate; both proofs take the least number of a set of counterexamples instead (`LeastNumber`,
  from the well-foundedness of `<`).

The type invariants of `SampleStore`, `Eeprom`, `Reporting`, `GsmModem`, `Lzfx`, `LoraNode` and `BoxProtocol` are
proved only (each is part of the module's inductive invariant); TLC checks the properties.

Model-checked only:

- liveness (`ReadyRuns`, `SleepsAgain`, `TaskReturns`, `EventuallyDelivered`, `CallsReturn`, `DialoguesReturn`,
  `EventuallyStarts`, `EventuallyJoins`, `KeepsSending`, `CompressReturns`), which is out of
  the prover's reach;
- `StartOkMeansDownload`, `SendOkMeansDelivered` and `ModuleIsOn` with late answers: they hold
  up to the number of faults of the run, the first and the last not for every number.

## 5. Not modelled

- `stor_read`, `stor_erase_eeprom`, `stor_test` and the demo sketches: manual tests only.
- A device that does not answer although it programs nothing (a broken line, a brown-out): `SampleStore`
  has its time-outs, `Eeprom` not. Instructions cut by a reset of the board.
  What the compressor writes where its own read was ignored after a time-out.
- Which bytes the compressor's search compares (l.755-814): any match may be found. That
  `Encodage_compression` encodes offsets rightly is therefore not checked, nor the DEBUG
  print-out at its end.
- `get_dummy_data`, `get_special_data_from_box` (uncalled), `sampling_test` and `do_tests` (the
  call is commented out); answers cut at the wrong place whose checksum still fits.
- In the LoRa build: `comm_abort` (uncalled), the blinking job, the payload. The branch of
  `comm_send_report` for a node that has not joined is not reachable: only `EV_JOINED` queues
  the first send job.
- The digits of the server's status (`gsm_communication.cpp:342`).
- `getIdBox` and `getPaygstate` return pointers to locals: undefined, and of URL text only.
- Printing, project files, the self-test of `setup()`.

Differences between docs and code noted without a run of their own:
`task_scheduler.h:12` says ready tasks run "in the order they were added", while the loop
goes by slot index and reuses freed slots; `task_scheduler.h:13` says a late task "might be
executed multiple times in a row with no interval", while it runs once per pass, with a
sleep in between; `storage_manager.h:10` says blocks of 18 bytes, `SAMPLE_SIZE` is 19,
and a sample whose second piece times out leaves `adr_ecr` within one;
`communication.h:25` says connected after `COMM_OK`, while a late `OK` of `SAPBR=2` may be taken
for that of a refused `SAPBR=1` (`ConnectedUnlessTwoFail` says what this takes); after an
`EV_JOIN_FAILED` and a later join, `lora_communication.cpp:155` returns `COMM_OK` for a session it
has just discarded;
`communication.h:14` and `reporting_task.cpp:147` have the module shut down after
`COMM_ERR_RETRY_LATER`, and `communication.h:38` after any `comm_send_report`, while
`gsm_communication.cpp:205` and 340 drop the result of `power_off`, which may have failed, so that
the module may stay on even after `COMM_OK`; `comm_abort` may return `COMM_ERR_RETRY` with the module
still on (`communication.h:45`), which `reporting_task.cpp:160` and 236 and
`gsm_communication.cpp:118` and 285 ignore; `storage_manager.cpp:385` says that a write within a page "will execute correctly",
while after a time-out in the session it may return 0 with nothing written, because the WREN
of l.392 is sent before the wait (`LostOnlyLate` says when);
a sample is compressed only in builds with `_DEBUG`.

## 6. Plan

Done, in this order: scheduler, reporting task, store with `ByteLog`, GSM library, the first
theorems of each; then the compressor, the LoRa library, the box protocol, the EEPROM driver, and their
theorems. Next:

1. Proofs: `StartOkMeansDownload` and `SendOkMeansDelivered` up to a given number of late
   answers.
2. A composition of `Reporting` with `GsmModem`'s returns in the place of the contract,
   and with `ByteLog` with laps.
3. `Lzfx` under `SampleStore`: what the compressor writes as the refinement of
   `Compression`, up to the first of its cases.
